------------------------------ MODULE FutexPi ------------------------------
(***************************************************************************)
(* The PI futex subset (task/futex.rs): FUTEX_LOCK_PI, FUTEX_TRYLOCK_PI,   *)
(* FUTEX_UNLOCK_PI on one word.  The word is user memory: the kernel reads *)
(* it and writes it in two steps, under the bucket lock in futex_lock_pi,  *)
(* without it elsewhere; user mode locks and unlocks an uncontended word   *)
(* with a compare-and-swap.  A signal to a thread inside futex_lock_pi     *)
(* stays pending until the call returns.                                   *)
(***************************************************************************)
EXTENDS Naturals, Sequences, SequencesExt, FiniteSets

CONSTANTS PiThread, PiTimed,  \* the threads, and the ones that lock with a timeout
          PiSignalled,        \* the ones that get signals
          Cpus,               \* how many threads are in the kernel at a time
          Free                \* no owner: a TID of zero

VARIABLES
    futex,    \* the word: FUTEX_TID_MASK and FUTEX_WAITERS
    waiters,  \* the queue of the key
    holder,   \* the thread that holds the bucket lock over two steps, or Free
    place,    \* where a thread is in a call
    read,     \* the word as the call has read it
    next,     \* the waiter an unlock has dequeued, and if more are queued
    holds,    \* the thread's last lock succeeded and it has not unlocked
    asleep,   \* TaskStatus::Blocked
    late,     \* futex_timeout_expired of this call
    signal    \* a deliverable signal is pending

piVars == <<futex, waiters, holder, place, read, next, holds, asleep, late, signal>>

Unowned == [owner |-> Free, waiters |-> FALSE]
NoNext == [task |-> Free, more |-> FALSE]

PiInit ==
    /\ futex = Unowned /\ waiters = <<>> /\ holder = Free
    /\ place = [t \in PiThread |-> "user"]
    /\ read = [t \in PiThread |-> Unowned]
    /\ next = [t \in PiThread |-> NoNext]
    /\ holds = [t \in PiThread |-> FALSE]
    /\ asleep = [t \in PiThread |-> FALSE]
    /\ late = [t \in PiThread |-> FALSE]
    /\ signal = [t \in PiThread |-> FALSE]

InKernel == {t \in PiThread : place[t] \notin {"user", "sleep"}}
MayEnter(t) == place[t] = "user" /\ Cardinality(InKernel) < Cpus
To(t, p) == place' = [place EXCEPT ![t] = p]
Return(t, owns) ==
    /\ To(t, "user")
    /\ holds' = [holds EXCEPT ![t] = owns]
    /\ late' = [late EXCEPT ![t] = FALSE]
    /\ signal' = [signal EXCEPT ![t] = FALSE]
    /\ read' = [read EXCEPT ![t] = Unowned]

\* User mode, no system call.
FastLock(t) ==
    /\ place[t] = "user" /\ ~holds[t] /\ Cardinality(InKernel) < Cpus
    /\ futex = Unowned
    /\ futex' = [owner |-> t, waiters |-> FALSE]
    /\ holds' = [holds EXCEPT ![t] = TRUE]
    /\ UNCHANGED <<waiters, holder, place, read, next, asleep, late, signal>>

FastUnlock(t) ==
    /\ place[t] = "user" /\ holds[t] /\ Cardinality(InKernel) < Cpus
    /\ futex = [owner |-> t, waiters |-> FALSE]
    /\ futex' = Unowned
    /\ holds' = [holds EXCEPT ![t] = FALSE]
    /\ UNCHANGED <<waiters, holder, place, read, next, asleep, late, signal>>

-----------------------------------------------------------------------------
(* futex_lock_pi.                                                          *)

LockRead(t) ==
    /\ MayEnter(t) /\ ~holds[t] /\ holder = Free
    /\ holder' = t
    /\ read' = [read EXCEPT ![t] = futex]
    /\ To(t, "lock")
    /\ UNCHANGED <<futex, waiters, next, holds, asleep, late, signal>>

\* Owned by another thread: set FUTEX_WAITERS and block_current_on, which does not
\* block a thread that has a signal (EINTR).
LockBlock(t) ==
    /\ place[t] = "lock" /\ read[t].owner \notin {Free, t} /\ ~late[t]
    /\ futex' = IF read[t].waiters THEN futex ELSE [read[t] EXCEPT !.waiters = TRUE]
    /\ IF signal[t]
       THEN Return(t, FALSE) /\ UNCHANGED <<waiters, asleep>>
       ELSE /\ waiters' = Append(waiters, t)
            /\ asleep' = [asleep EXCEPT ![t] = TRUE]
            /\ To(t, "sleep")
            /\ read' = [read EXCEPT ![t] = Unowned]
            /\ UNCHANGED <<holds, late, signal>>
    /\ holder' = Free
    /\ UNCHANGED next

\* Unowned: take it.  With waiters and no owner: EINVAL.  Owned by the caller:
\* EDEADLK.  Too late: ETIMEDOUT.
LockDecide(t) ==
    /\ place[t] = "lock" /\ (read[t].owner \in {Free, t} \/ late[t])
    /\ LET acquires == read[t].owner = Free /\ ~read[t].waiters IN
       /\ futex' = IF acquires THEN [owner |-> t, waiters |-> FALSE] ELSE futex
       /\ Return(t, acquires)
    /\ holder' = Free
    /\ UNCHANGED <<waiters, next, asleep>>

\* schedule() returns; remove_waiter_for_task.  A waiter that was dequeued returns as
\* the owner, late or not, unless it has a signal: then it returns EINTR.
Resume(t) ==
    /\ place[t] = "sleep" /\ ~asleep[t] /\ holder = Free /\ Cardinality(InKernel) < Cpus
    /\ waiters' = Remove(waiters, t)
    /\ IF Contains(waiters, t) \/ (signal[t] /\ ~late[t])
       THEN To(t, "idle?") /\ UNCHANGED <<holds, late, signal, read>>
       ELSE Return(t, ~signal[t])
    /\ UNCHANGED <<futex, holder, next, asleep>>

\* clear_pi_waiters_bit_if_idle: ask for waiters, read the word, write it.
AskWaiters(t) ==
    /\ place[t] = "idle?" /\ holder = Free
    /\ IF waiters # <<>> THEN Return(t, FALSE)
                         ELSE To(t, "clear") /\ UNCHANGED <<holds, late, signal, read>>
    /\ UNCHANGED <<futex, waiters, holder, next, asleep>>

ClearRead(t) ==
    /\ place[t] = "clear"
    /\ read' = [read EXCEPT ![t] = futex]
    /\ To(t, "clear write")
    /\ UNCHANGED <<futex, waiters, holder, next, holds, asleep, late, signal>>

ClearWrite(t) ==
    /\ place[t] = "clear write"
    /\ futex' = IF read[t].waiters THEN [read[t] EXCEPT !.waiters = FALSE] ELSE futex
    /\ Return(t, FALSE)
    /\ UNCHANGED <<waiters, holder, next, asleep>>

-----------------------------------------------------------------------------
(* futex_try_lock_pi.                                                      *)

TryRead(t) ==
    /\ MayEnter(t) /\ ~holds[t]
    /\ read' = [read EXCEPT ![t] = futex]
    /\ To(t, "try")
    /\ UNCHANGED <<futex, waiters, holder, next, holds, asleep, late, signal>>

TryWrite(t) ==
    /\ place[t] = "try"
    /\ LET acquires == read[t] = Unowned IN
       /\ futex' = IF acquires THEN [owner |-> t, waiters |-> FALSE] ELSE futex
       /\ Return(t, acquires)
    /\ UNCHANGED <<waiters, holder, next, asleep>>

-----------------------------------------------------------------------------
(* futex_unlock_pi.                                                        *)

\* EPERM unless the word names the caller, who is done with the lock anyway.
UnlockRead(t) ==
    /\ MayEnter(t) /\ holds[t]
    /\ holds' = [holds EXCEPT ![t] = FALSE]
    /\ IF futex.owner = t THEN To(t, "dequeue") ELSE UNCHANGED place
    /\ UNCHANGED <<futex, waiters, holder, read, next, asleep, late, signal>>

\* wake_one_with_remaining, under the bucket lock.
UnlockDequeue(t) ==
    /\ place[t] = "dequeue" /\ holder = Free
    /\ next' = [next EXCEPT ![t] =
                   IF waiters = <<>> THEN NoNext
                   ELSE [task |-> Head(waiters), more |-> Len(waiters) > 1]]
    /\ waiters' = IF waiters = <<>> THEN <<>> ELSE Tail(waiters)
    /\ To(t, "hand over")
    /\ UNCHANGED <<futex, holder, read, holds, asleep, late, signal>>

\* The word is written after the bucket lock is dropped,
UnlockWrite(t) ==
    /\ place[t] = "hand over"
    /\ futex' = [owner |-> next[t].task, waiters |-> next[t].more]
    /\ To(t, IF next[t].task = Free THEN "user" ELSE "wake")
    /\ UNCHANGED <<waiters, holder, read, next, holds, asleep, late, signal>>

\* and the new owner is woken.
UnlockWake(t) ==
    /\ place[t] = "wake"
    /\ asleep' = [asleep EXCEPT ![next[t].task] = FALSE]
    /\ next' = [next EXCEPT ![t] = NoNext]
    /\ To(t, "user")
    /\ UNCHANGED <<futex, waiters, holder, read, holds, late, signal>>

\* The deadline passes; the timer wakes a thread that sleeps.
Late(t) ==
    /\ t \in PiTimed /\ place[t] \in {"lock", "sleep"} /\ ~late[t]
    /\ late' = [late EXCEPT ![t] = TRUE]
    /\ asleep' = [asleep EXCEPT ![t] = FALSE]
    /\ UNCHANGED <<futex, waiters, holder, place, read, next, holds, signal>>

\* queue_signal_to_task.
Signal(t) ==
    /\ t \in PiSignalled /\ place[t] \in {"lock", "sleep"} /\ ~signal[t]
    /\ signal' = [signal EXCEPT ![t] = TRUE]
    /\ asleep' = [asleep EXCEPT ![t] = FALSE]
    /\ UNCHANGED <<futex, waiters, holder, place, read, next, holds, late>>

PiNext ==
    \E t \in PiThread :
        \/ FastLock(t) \/ FastUnlock(t)
        \/ LockRead(t) \/ LockBlock(t) \/ LockDecide(t) \/ Resume(t)
        \/ AskWaiters(t) \/ ClearRead(t) \/ ClearWrite(t)
        \/ TryRead(t) \/ TryWrite(t)
        \/ UnlockRead(t) \/ UnlockDequeue(t) \/ UnlockWrite(t) \/ UnlockWake(t)
        \/ Late(t) \/ Signal(t)

PiSpec == PiInit /\ [][PiNext]_piVars

-----------------------------------------------------------------------------
\* Two threads never both return from a lock as the owner of the word.
PiExclusion == \A t, u \in PiThread : holds[t] /\ holds[u] => t = u

\* When no call is under way and waiters are queued, the word has FUTEX_WAITERS and
\* names an owner, so that it is unlocked through the kernel.
PiMarked ==
    InKernel = {} /\ waiters # <<>> => futex.waiters /\ futex.owner \in PiThread

\* "It preserves the Linux futex-word policy needed by musl pthread PRIO_INHERIT
\* mutexes": when, besides, the owner the word names is not asleep among the waiters,
\* it holds the lock, so that it will unlock it.
PiPolicy ==
    /\ PiMarked
    /\ InKernel = {} /\ waiters # <<>>
         => \/ holds[futex.owner]
            \/ place[futex.owner] = "sleep" /\ ~Contains(waiters, futex.owner)
=============================================================================
