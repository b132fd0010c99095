------------------------------- MODULE Timers -------------------------------
(***************************************************************************)
(* Deadlines: nanosleep and timed waits, ITIMER_REAL, POSIX timers and     *)
(* timerfd (syscall/time.rs, task/process.rs, fs/timerfd.rs), and the four *)
(* global heaps that CPU 0 checks at every tick (arch/<arch>/timer.rs).    *)
(* Nothing ever leaves a heap but by expiring: an event for a timer that   *)
(* was set again, disarmed or deleted, and the timer of a wait that ended  *)
(* early, stay until their time comes.  A behaviour uses one kind of       *)
(* timer, chosen at first; its heap is independent of the others.          *)
(***************************************************************************)
EXTENDS Integers, Sequences, SequencesExt, FiniteSets

CONSTANTS TimerKinds,     \* among "sleep", "real", "posix", "fd"
          Setter,         \* threads that set timers
          Slots,          \* POSIX timer ids in use at most
          Delays, Intervals,
          MaxNow, MaxGen, MaxHeap   \* bounds: time, settings of a timer, events at once

VARIABLES
    kind,       \* which timers this behaviour uses
    now,        \* the monotonic clock
    timer,      \* [Slots -> setting]: interval, next (0: disarmed), gen; exp of a timerfd
    heap,       \* the events: at, gen, slot; for sleepers at, task
    adding,     \* the event a thread has not yet pushed (add_*_timer follows the unlock)
    cpu0,       \* check_timer: "idle" or the time it compares with
    nap,        \* nanosleep or a timed wait of each thread: op, until
    napping,    \* TaskStatus::Blocked
    reader,     \* the reader of the timerfd: "out", "running", "queued", "awake"
    fired,      \* ghost: expirations of the present setting, delivered or counted
    first       \* ghost: the first deadline of the present setting

timerVars == <<kind, now, timer, heap, adding, cpu0, nap, napping, reader, fired, first>>

Unset == [used |-> FALSE, interval |-> 0, next |-> 0, gen |-> 0, exp |-> 0]
NoEvent == [at |-> 0]
NoNap == [op |-> "none", until |-> 0]

TimersInit ==
    /\ kind \in TimerKinds /\ now = 1
    /\ timer = [i \in Slots |-> [Unset EXCEPT !.used = (kind # "posix")]]
    /\ heap = {} /\ adding = [t \in Setter |-> NoEvent] /\ cpu0 = 0
    /\ nap = [t \in Setter |-> NoNap] /\ napping = [t \in Setter |-> FALSE]
    /\ reader = "out"
    /\ fired = [i \in Slots |-> 0] /\ first = [i \in Slots |-> 0]

RoomFor == Cardinality(heap) + Cardinality({t \in Setter : adding[t] # NoEvent}) < MaxHeap

Tick ==
    /\ now < MaxNow /\ now' = now + 1
    /\ UNCHANGED <<kind, timer, heap, adding, cpu0, nap, napping, reader, fired, first>>

-----------------------------------------------------------------------------
(* nanosleep, and any wait with a time limit (futex, poll, semtimedop).    *)

\* sleep_until_ms up to the context switch: the thread blocks, then adds its timer.
Nap(t) ==
    /\ kind = "sleep" /\ nap[t].op = "none" /\ RoomFor
    /\ \E op \in {"sleep", "wait"}, d \in Delays :
        nap' = [nap EXCEPT ![t] = [op |-> op, until |-> now + d]]
    /\ napping' = [napping EXCEPT ![t] = TRUE]
    /\ adding' = [adding EXCEPT ![t] = [at |-> nap'[t].until, task |-> t]]
    /\ UNCHANGED <<kind, now, timer, heap, cpu0, reader, fired, first>>

\* What a timed wait waits for happens: the thread returns, its timer stays.
WaitOver(t) ==
    /\ nap[t].op = "wait" /\ napping[t] /\ adding[t] = NoEvent
    /\ napping' = [napping EXCEPT ![t] = FALSE]
    /\ UNCHANGED <<kind, now, timer, heap, adding, cpu0, nap, reader, fired, first>>

\* The thread runs again and the call returns; nobody looks at the clock.
NapReturn(t) ==
    /\ nap[t].op # "none" /\ ~napping[t] /\ adding[t] = NoEvent
    /\ nap' = [nap EXCEPT ![t] = NoNap]
    /\ UNCHANGED <<kind, now, timer, heap, adding, cpu0, napping, reader, fired, first>>

-----------------------------------------------------------------------------
(* Setting a timer: the setting under the lock, the event after it.        *)

\* sys_setitimer, set_posix_timer and TimerFd::set_time.
Setting(old, d, interval) ==
    [used |-> TRUE, interval |-> interval, next |-> IF d = 0 THEN 0 ELSE now + d,
     gen |-> old.gen + 1, exp |-> 0]

SetTimer(t, i) ==
    /\ kind # "sleep" /\ timer[i].used /\ adding[t] = NoEvent /\ timer[i].gen < MaxGen /\ RoomFor
    /\ \E d \in Delays \cup {0}, interval \in Intervals :
        LET s == Setting(timer[i], d, interval) IN
        /\ timer' = [timer EXCEPT ![i] = s]
        /\ first' = [first EXCEPT ![i] = s.next]
        /\ adding' = IF s.next = 0 THEN adding
                     ELSE [adding EXCEPT ![t] = [at |-> s.next, gen |-> s.gen, slot |-> i]]
    /\ fired' = [fired EXCEPT ![i] = 0]
    /\ reader' = IF kind = "fd" /\ reader = "queued" THEN "awake" ELSE reader
    /\ UNCHANGED <<kind, now, heap, cpu0, nap, napping>>

\* add_timer, add_real_timer, add_posix_timer, add_timerfd_timer.
AddEvent(t) ==
    /\ adding[t] # NoEvent
    /\ heap' = heap \cup {adding[t]}
    /\ adding' = [adding EXCEPT ![t] = NoEvent]
    /\ UNCHANGED <<kind, now, timer, cpu0, nap, napping, reader, fired, first>>

\* create_posix_timer takes the first free id; its generation starts again at 0.
CreatePosix ==
    /\ kind = "posix"
    /\ \E i \in Slots :
        /\ ~timer[i].used /\ \A j \in Slots : j < i => timer[j].used
        /\ timer' = [timer EXCEPT ![i] = [Unset EXCEPT !.used = TRUE]]
        /\ first' = [first EXCEPT ![i] = 0]
        /\ fired' = [fired EXCEPT ![i] = 0]
    /\ UNCHANGED <<kind, now, heap, adding, cpu0, nap, napping, reader>>

\* delete_posix_timer.
DeletePosix(i) ==
    /\ kind = "posix" /\ timer[i].used
    /\ timer' = [timer EXCEPT ![i] = Unset]
    /\ fired' = [fired EXCEPT ![i] = 0] /\ first' = [first EXCEPT ![i] = 0]
    /\ UNCHANGED <<kind, now, heap, adding, cpu0, nap, napping, reader>>

-----------------------------------------------------------------------------
(* timerfd.                                                                *)

\* refresh_expirations: how many deadlines have passed, and the next one.
Refresh(s, at) ==
    IF s.next = 0 \/ at < s.next THEN s
    ELSE IF s.interval = 0 THEN [s EXCEPT !.exp = @ + 1, !.next = 0]
    ELSE LET n == 1 + (at - s.next) \div s.interval IN
         [s EXCEPT !.exp = @ + n, !.next = @ + n * s.interval]

Counted(i, s) == fired' = [fired EXCEPT ![i] = @ + s.exp - timer[i].exp]

\* timerfd_gettime and poll bring the count up to date and wake nobody.
LookFd(i) ==
    /\ kind = "fd" /\ Refresh(timer[i], now) # timer[i]
    /\ timer' = [timer EXCEPT ![i] = Refresh(@, now)]
    /\ Counted(i, timer'[i])
    /\ UNCHANGED <<kind, now, heap, adding, cpu0, nap, napping, reader, first>>

\* TimerFd::read: one pass of its loop, atomic under the lock.
ReadFd(i) ==
    LET s == Refresh(timer[i], now) IN
    /\ kind = "fd" /\ reader \in {"out", "awake"}
    /\ timer' = [timer EXCEPT ![i] = [s EXCEPT !.exp = 0]]
    /\ Counted(i, s)
    /\ reader' = IF s.exp > 0 THEN "out" ELSE "queued"
    /\ UNCHANGED <<kind, now, heap, adding, cpu0, nap, napping, first>>

-----------------------------------------------------------------------------
(* check_timer on CPU 0, in the timer interrupt.                           *)

CheckTimer ==
    /\ cpu0 = 0 /\ cpu0' = now
    /\ UNCHANGED <<kind, now, timer, heap, adding, nap, napping, reader, fired, first>>

\* The earliest event that is due.
Due(e) == e.at <= cpu0 /\ \A f \in heap : e.at <= f.at

PopSleeper ==
    /\ kind = "sleep" /\ cpu0 # 0
    /\ \E e \in heap : Due(e) /\ heap' = heap \ {e} /\ napping' = [napping EXCEPT ![e.task] = FALSE]
    /\ UNCHANGED <<kind, now, timer, adding, cpu0, nap, reader, fired, first>>

\* The event of the next period.
Again(i, s) == IF s.next = 0 THEN {} ELSE {[at |-> s.next, gen |-> s.gen, slot |-> i]}

\* Mutant: an event only has to be of this generation.
MutLive(e, s) == s.used /\ s.gen = e.gen /\ s.next # 0

\* The checks of expire_real_timer and expire_posix_timer.
Live(e, s) == s.used /\ s.gen = e.gen /\ s.next # 0 /\ s.next <= cpu0

\* expire_real_timer, expire_posix_timer: the next period counts from now.
Expired(s) == [s EXCEPT !.next = IF s.interval = 0 THEN 0 ELSE cpu0 + s.interval]

\* check_real_timers, check_posix_timers: a signal, unless the event is a stale one.
PopSignal ==
    /\ kind \in {"real", "posix"} /\ cpu0 # 0
    /\ \E e \in heap :
        LET s == timer[e.slot]  n == Expired(s) IN
        /\ Due(e)
        /\ IF Live(e, s)
           THEN /\ timer' = [timer EXCEPT ![e.slot] = n]
                /\ fired' = [fired EXCEPT ![e.slot] = @ + 1]
                /\ heap' = (heap \ {e}) \cup Again(e.slot, n)
           ELSE heap' = heap \ {e} /\ UNCHANGED <<timer, fired>>
    /\ UNCHANGED <<kind, now, adding, cpu0, nap, napping, reader, first>>

ReadersDue(i, s) == s.exp > 0

\* TimerFdState::expire.
PopFd ==
    /\ kind = "fd" /\ cpu0 # 0
    /\ \E e \in heap :
        LET s == Refresh(timer[e.slot], cpu0) IN
        /\ Due(e)
        /\ IF timer[e.slot].gen = e.gen
           THEN /\ timer' = [timer EXCEPT ![e.slot] = s]
                /\ Counted(e.slot, s)
                /\ heap' = (heap \ {e}) \cup Again(e.slot, s)
                /\ reader' = IF ReadersDue(e.slot, s) /\ reader = "queued" THEN "awake" ELSE reader
           ELSE heap' = heap \ {e} /\ UNCHANGED <<timer, fired, reader>>
    /\ UNCHANGED <<kind, now, adding, cpu0, nap, napping, first>>

CheckDone ==
    /\ cpu0 # 0 /\ \A e \in heap : e.at > cpu0
    /\ cpu0' = 0
    /\ UNCHANGED <<kind, now, timer, heap, adding, nap, napping, reader, fired, first>>

TimersNext ==
    \/ Tick \/ CheckTimer \/ PopSleeper \/ PopSignal \/ PopFd \/ CheckDone \/ CreatePosix
    \/ \E t \in Setter : Nap(t) \/ WaitOver(t) \/ NapReturn(t) \/ AddEvent(t) \/ \E i \in Slots : SetTimer(t, i)
    \/ \E i \in Slots : DeletePosix(i) \/ LookFd(i) \/ ReadFd(i)

TimersSpec == TimersInit /\ [][TimersNext]_timerVars

-----------------------------------------------------------------------------
Pending(e) == e \in heap \/ \E t \in Setter : adding[t] = e

\* Whoever waits for a time has it in a heap: a napping thread, and an armed timer
\* with the generation it has now, at its deadline or (timerfd) before.
DeadlinesKept ==
    /\ \A t \in Setter : napping[t] => Pending([at |-> nap[t].until, task |-> t])
    /\ kind # "sleep" => \A i \in Slots : timer[i].next # 0 =>
         \E at \in 1 .. timer[i].next : Pending([at |-> at, gen |-> timer[i].gen, slot |-> i])

\* A timer expires at most once per period of its present setting: no event of an
\* earlier setting, nor of an earlier timer with the same id, counts for it.
NotTooOften ==
    \A i \in Slots : fired[i] > 0 =>
        /\ first[i] # 0 /\ first[i] <= now
        /\ fired[i] <= IF timer[i].interval = 0 THEN 1 ELSE 1 + (now - first[i]) \div timer[i].interval

\* A timerfd counts every period: what was read and what is pending are the deadlines
\* up to the next one, whoever brought the count up to date.
FdCountsAll ==
    kind = "fd" => \A i \in Slots : timer[i].next # 0 /\ timer[i].interval # 0 =>
        first[i] + fired[i] * timer[i].interval = timer[i].next

\* A reader does not sleep on a timerfd that has expired, unless the event that will
\* wake it is still in the heap.
FdReaderServed ==
    kind = "fd" /\ reader = "queued" => \A i \in Slots :
        timer[i].exp > 0 => \E at \in 1 .. now : Pending([at |-> at, gen |-> timer[i].gen, slot |-> i])

\* nanosleep sleeps until its deadline: the tick is fast enough for it to
\* "wake on time", neither late nor early.
SleepIsFull == \A t \in Setter : nap[t].op = "sleep" /\ ~napping[t] => now >= nap[t].until
=============================================================================
