----------------------------- MODULE EventPoll -----------------------------
(***************************************************************************)
(* Readiness: eventfd (fs/eventfd.rs), the poll waiters of fs/mod.rs, and  *)
(* the two callers that sleep on them, ppoll/pselect6 (syscall/fs/poll.rs) *)
(* and epoll (syscall/fs/epoll.rs).  A waiter registers with each file     *)
(* while the file is locked; a producer takes the registrations with the   *)
(* file locked and delivers them later in two steps, the triggered flag    *)
(* and the wake of the task.  An epoll scan locks the interest list and    *)
(* each file in turn.                                                      *)
(***************************************************************************)
EXTENDS Integers, Sequences, SequencesExt, FiniteSets

CONSTANTS Poller, PollOps,       \* threads that poll, and how: "poll", "epoll"
          PollTimed,             \* those that pass a time limit
          EvReader, EvWriter,    \* threads that read and write eventfds
          CtlThread,             \* threads that call epoll_ctl
          Fds, FileOf,           \* descriptors, as numbers, and the eventfd of each
          CounterMax,            \* EVENTFD_COUNTER_MAX
          Semaphore,             \* EFD_SEMAPHORE
          WantSets, TriggerModes,\* event masks; "level", "edge", "oneshot"
          MaxEvents,             \* maxevents of epoll_wait
          MaxPollSignals, MaxCtl \* bounds: signals, epoll_ctl calls

EvThread == Poller \cup EvReader \cup EvWriter \cup CtlThread
EvFile == {FileOf[f] : f \in Fds}

VARIABLES
    counter, rq, wq,     \* an eventfd: counter, read_wait_queue, write_wait_queue
    regs,                \* its poll waiters: task, side, fd (the epoll source)
    waiter,              \* the PollWaiter of a polling call: triggered, sources, count
    evWakes,             \* taken registrations not yet delivered: task, phase, cur
    evCall,              \* the call a thread is in
    evAsleep, evSignal, evSignals,
    interests,           \* EpollFile::interests: want, trigger, last, disabled
    eplock,              \* the thread that holds it
    scanned,             \* ghost: interests a waiter saw and nobody changed since
    reports,             \* ghost: reports of each interest since it was armed, up to 2
    ctls                 \* calls of epoll_ctl so far

eventVars == <<counter, rq, wq, regs, waiter, evWakes, evCall, evAsleep, evSignal, evSignals,
               interests, eplock, scanned, reports, ctls>>
fileVars == <<counter, rq, wq>>
epVars == <<interests, eplock, reports, ctls>>

Out == [op |-> "none"]
NoWaiter == [triggered |-> FALSE, sources |-> <<>>, count |-> 0]
NoInterest == [want |-> {}, trigger |-> "none", last |-> {}, disabled |-> FALSE]
NoHolder == "nobody"

EventInit ==
    /\ counter = [e \in EvFile |-> 0]
    /\ rq = [e \in EvFile |-> <<>>] /\ wq = [e \in EvFile |-> <<>>] /\ regs = [e \in EvFile |-> {}]
    /\ waiter = [t \in Poller |-> NoWaiter] /\ evWakes = {}
    /\ evCall = [t \in EvThread |-> Out] /\ evAsleep = [t \in EvThread |-> FALSE]
    /\ evSignal = [t \in EvThread |-> FALSE] /\ evSignals = 0
    /\ interests = [f \in Fds |-> NoInterest] /\ eplock = NoHolder
    /\ scanned = [t \in Poller |-> {}] /\ reports = [f \in Fds |-> 0] /\ ctls = 0

EvReturn(t) == evCall' = [evCall EXCEPT ![t] = Out]
EvPut(t, c) == evCall' = [evCall EXCEPT ![t] = c]

-----------------------------------------------------------------------------
(* PollWaitQueue and PollWaiter.                                           *)

\* drain: the ready source is recorded, the waiter is woken after the unlock.
Drain(e, side) ==
    LET taken == {r \in regs[e] : r.side = side} IN
    /\ regs' = [regs EXCEPT ![e] = @ \ taken]
    /\ waiter' = [t \in Poller |->
           LET fds == {r.fd : r \in {x \in taken : x.task = t}} \ ToSet(waiter[t].sources) IN
           [waiter[t] EXCEPT !.sources = @ \o SetToSortSeq(fds, <)]]
    /\ evWakes' = evWakes \cup {[task |-> r.task, phase |-> "store", cur |-> TRUE] : r \in taken}

\* Dropping a waiter: its registrations are dead, wakes on the way keep only the task.
DropWaiter(t) ==
    /\ regs' = [e \in EvFile |-> {r \in regs[e] : r.task # t}]
    /\ waiter' = [waiter EXCEPT ![t] = NoWaiter]
    /\ evWakes' = {IF w.task = t THEN [w EXCEPT !.cur = FALSE] ELSE w : w \in evWakes}
    /\ scanned' = [scanned EXCEPT ![t] = {}]

\* PollWaiter::wake: the flag, ...
WakeStore ==
    /\ \E w \in evWakes :
        /\ w.phase = "store"
        /\ evWakes' = (evWakes \ {w}) \cup {[w EXCEPT !.phase = "wake"]}
        /\ waiter' = IF w.cur THEN [waiter EXCEPT ![w.task].triggered = TRUE] ELSE waiter
    /\ UNCHANGED <<fileVars, regs, evCall, evAsleep, evSignal, evSignals, epVars, scanned>>

\* ... then wakeup_task, which only a blocked task notices.
WakeTask ==
    /\ \E w \in evWakes :
        /\ w.phase = "wake"
        /\ evWakes' = evWakes \ {w}
        /\ evAsleep' = [evAsleep EXCEPT ![w.task] = FALSE]
    /\ UNCHANGED <<fileVars, regs, waiter, evCall, evSignal, evSignals, epVars, scanned>>

\* A signal whose delivery interrupts the call.
EvInterrupt(t) ==
    /\ evCall[t].op # "none" /\ ~evSignal[t] /\ evSignals < MaxPollSignals
    /\ evSignals' = evSignals + 1
    /\ evSignal' = [evSignal EXCEPT ![t] = TRUE] /\ evAsleep' = [evAsleep EXCEPT ![t] = FALSE]
    /\ UNCHANGED <<fileVars, regs, waiter, evWakes, evCall, epVars, scanned>>

-----------------------------------------------------------------------------
(* eventfd.                                                                *)

PopWake(q) == evAsleep' = IF q = <<>> THEN evAsleep ELSE [evAsleep EXCEPT ![q[1]] = FALSE]
Popped(q) == IF q = <<>> THEN q ELSE Tail(q)

EnterRead(t) ==
    /\ evCall[t].op = "none" /\ \E e \in EvFile : EvPut(t, [op |-> "read", file |-> e])
    /\ UNCHANGED <<fileVars, regs, waiter, evWakes, evAsleep, evSignal, evSignals, epVars, scanned>>

\* One pass of EventFd::read.
EvRead(t) ==
    LET e == evCall[t].file  n == counter[e] IN
    /\ evCall[t].op = "read" /\ ~evAsleep[t]
    /\ IF n > 0
       THEN /\ counter' = [counter EXCEPT ![e] = IF Semaphore THEN n - 1 ELSE 0]
            /\ wq' = [wq EXCEPT ![e] = Popped(@)] /\ PopWake(wq[e])
            /\ Drain(e, "OUT") /\ EvReturn(t)
            /\ UNCHANGED <<rq, evSignal>>
       ELSE /\ IF evSignal[t]
               THEN /\ rq' = [rq EXCEPT ![e] = RemoveFirst(@, t)] /\ EvReturn(t)
                    /\ evSignal' = [evSignal EXCEPT ![t] = FALSE] /\ UNCHANGED evAsleep
               ELSE /\ rq' = [rq EXCEPT ![e] = Append(@, t)]
                    /\ evAsleep' = [evAsleep EXCEPT ![t] = TRUE] /\ UNCHANGED <<evCall, evSignal>>
            /\ UNCHANGED <<counter, wq, regs, waiter, evWakes>>
    /\ UNCHANGED <<evSignals, epVars, scanned>>

EnterWrite(t) ==
    /\ evCall[t].op = "none"
    /\ \E e \in EvFile, v \in 0 .. CounterMax : EvPut(t, [op |-> "write", file |-> e, value |-> v])
    /\ UNCHANGED <<fileVars, regs, waiter, evWakes, evAsleep, evSignal, evSignals, epVars, scanned>>

DrainIn(e, v) == IF v = 0 THEN UNCHANGED <<regs, waiter, evWakes>> ELSE Drain(e, "IN")

ReadersOf(e, v) == IF v = 0 THEN <<>> ELSE rq[e]

\* One pass of EventFd::write.
EvWrite(t) ==
    LET e == evCall[t].file  v == evCall[t].value IN
    /\ evCall[t].op = "write" /\ ~evAsleep[t]
    /\ IF v <= CounterMax - counter[e]
       THEN /\ counter' = [counter EXCEPT ![e] = @ + v]
            /\ PopWake(ReadersOf(e, v)) /\ rq' = [rq EXCEPT ![e] = IF ReadersOf(e, v) = <<>> THEN @ ELSE Tail(@)]
            /\ DrainIn(e, v) /\ EvReturn(t)
            /\ UNCHANGED <<wq, evSignal>>
       ELSE /\ IF evSignal[t]
               THEN /\ wq' = [wq EXCEPT ![e] = RemoveFirst(@, t)] /\ EvReturn(t)
                    /\ evSignal' = [evSignal EXCEPT ![t] = FALSE] /\ UNCHANGED evAsleep
               ELSE /\ wq' = [wq EXCEPT ![e] = Append(@, t)]
                    /\ evAsleep' = [evAsleep EXCEPT ![t] = TRUE] /\ UNCHANGED <<evCall, evSignal>>
            /\ UNCHANGED <<counter, rq, regs, waiter, evWakes>>
    /\ UNCHANGED <<evSignals, epVars, scanned>>

\* EventFd::poll_with_wait.
PollReady(e, want) ==
    {x \in want : (x = "IN" /\ counter[e] > 0) \/ (x = "OUT" /\ counter[e] < CounterMax)}
Register(t, f, want) ==
    /\ regs' = [regs EXCEPT ![FileOf[f]] = @ \cup {[task |-> t, side |-> x, fd |-> f] : x \in want}]
    /\ waiter' = [waiter EXCEPT ![t].count = @ + Cardinality(want)]

-----------------------------------------------------------------------------
(* ppoll and pselect6: a scan without a waiter, one with, a sleep.         *)

SortedFds(S) == SetToSortSeq(S, <)

EnterPoll(t) ==
    /\ evCall[t].op = "none" /\ "poll" \in PollOps
    /\ \E want \in WantSets :
        EvPut(t, [op |-> "poll", at |-> "look", want |-> want, todo |-> SortedFds(Fds), found |-> FALSE,
                  late |-> FALSE])
    /\ UNCHANGED <<fileVars, regs, waiter, evWakes, evAsleep, evSignal, evSignals, epVars, scanned>>

\* scan_pollfds, one descriptor at a time.
PollScan(t) ==
    LET c == evCall[t] f == Head(c.todo) IN
    /\ c.op = "poll" /\ c.at \in {"look", "wait"} /\ c.todo # <<>>
    /\ EvPut(t, [c EXCEPT !.todo = Tail(@), !.found = @ \/ PollReady(FileOf[f], c.want) # {}])
    /\ IF c.at = "wait" THEN Register(t, f, c.want) /\ scanned' = [scanned EXCEPT ![t] = @ \cup {f}]
       ELSE UNCHANGED <<regs, waiter, scanned>>
    /\ UNCHANGED <<fileVars, evWakes, evAsleep, evSignal, evSignals, epVars>>

\* After a scan: return, fail with EINTR, scan with a waiter, or go to sleep.
PollDecide(t) ==
    LET c == evCall[t] IN
    /\ c.op = "poll" /\ c.at \in {"look", "wait"} /\ c.todo = <<>>
    /\ IF c.found \/ c.late \/ evSignal[t]
       THEN /\ EvReturn(t) /\ DropWaiter(t)
            /\ evSignal' = IF c.found \/ c.late THEN evSignal ELSE [evSignal EXCEPT ![t] = FALSE]
       ELSE /\ IF c.at = "look" THEN EvPut(t, [c EXCEPT !.at = "wait", !.todo = SortedFds(Fds)])
               ELSE EvPut(t, [c EXCEPT !.at = "check"])
            /\ UNCHANGED <<regs, waiter, evWakes, scanned, evSignal>>
    /\ UNCHANGED <<fileVars, evAsleep, evSignals, epVars>>

-----------------------------------------------------------------------------
(* Sleeping on a waiter: sleep_until_poll_event, sleep_until_epoll_event.  *)

Again(t, c) ==
    IF c.op = "poll" THEN EvPut(t, [c EXCEPT !.at = "look", !.todo = SortedFds(Fds)])
    ELSE EvPut(t, [c EXCEPT !.at = "lock", !.todo = waiter[t].sources])

\* was_triggered, ...
WaitCheck(t) ==
    LET c == evCall[t] IN
    /\ c.op \in {"poll", "epoll"} /\ c.at = "check"
    /\ IF waiter[t].triggered THEN Again(t, c) /\ DropWaiter(t)
       ELSE EvPut(t, [c EXCEPT !.at = "block"]) /\ UNCHANGED <<regs, waiter, evWakes, scanned>>
    /\ UNCHANGED <<fileVars, evAsleep, evSignal, evSignals, epVars>>

\* ... then the task becomes Blocked, unless a signal interrupts.
WaitBlock(t) ==
    LET c == evCall[t] IN
    /\ c.op \in {"poll", "epoll"} /\ c.at = "block"
    /\ IF evSignal[t]
       THEN /\ EvReturn(t) /\ DropWaiter(t)
            /\ evSignal' = [evSignal EXCEPT ![t] = FALSE] /\ UNCHANGED evAsleep
       ELSE /\ EvPut(t, [c EXCEPT !.at = "handoff"]) /\ evAsleep' = [evAsleep EXCEPT ![t] = TRUE]
            /\ UNCHANGED <<regs, waiter, evWakes, scanned, evSignal>>
    /\ UNCHANGED <<fileVars, evSignals, epVars>>

\* complete_block_handoff.
Handoff(t) ==
    /\ evCall[t].op \in {"poll", "epoll"} /\ evCall[t].at = "handoff"
    /\ EvPut(t, [evCall[t] EXCEPT !.at = "asleep"])
    /\ evAsleep' = [evAsleep EXCEPT ![t] = @ /\ ~waiter[t].triggered]
    /\ UNCHANGED <<fileVars, regs, waiter, evWakes, evSignal, evSignals, epVars, scanned>>

\* The task runs again; epoll keeps the ready sources of the waiter it drops.
Woken(t) ==
    LET c == evCall[t] IN
    /\ c.op \in {"poll", "epoll"} /\ c.at = "asleep" /\ ~evAsleep[t]
    /\ Again(t, c) /\ DropWaiter(t)
    /\ UNCHANGED <<fileVars, evAsleep, evSignal, evSignals, epVars>>

\* The timer of a call with a time limit.
PollTimeout(t) ==
    /\ evCall[t].op \in {"poll", "epoll"} /\ evCall[t].at = "asleep" /\ t \in PollTimed /\ evAsleep[t]
    /\ evAsleep' = [evAsleep EXCEPT ![t] = FALSE]
    /\ EvPut(t, [evCall[t] EXCEPT !.late = TRUE])
    /\ UNCHANGED <<fileVars, regs, waiter, evWakes, evSignal, evSignals, epVars, scanned>>

\* EPOLL_POLL_BACKOFF_US: the timer of a probe.
ProbeTimer(t) ==
    /\ evCall[t].op = "epoll" /\ evCall[t].at = "asleep" /\ evCall[t].probe /\ evAsleep[t]
    /\ evAsleep' = [evAsleep EXCEPT ![t] = FALSE]
    /\ UNCHANGED <<fileVars, regs, waiter, evWakes, evCall, evSignal, evSignals, epVars, scanned>>

-----------------------------------------------------------------------------
(* epoll.                                                                  *)

Interested == {f \in Fds : interests[f] # NoInterest}

EnterEpoll(t) ==
    /\ evCall[t].op = "none" /\ "epoll" \in PollOps
    /\ EvPut(t, [op |-> "epoll", at |-> "lock", todo |-> <<>>, found |-> 0, probe |-> FALSE, late |-> FALSE])
    /\ UNCHANGED <<fileVars, regs, waiter, evWakes, evAsleep, evSignal, evSignals, epVars, scanned>>

\* collect_ready_sources when there are sources, scan_ready_with_waiter otherwise.
EpollLock(t) ==
    LET c == evCall[t] IN
    /\ c.op = "epoll" /\ c.at = "lock" /\ eplock = NoHolder
    /\ eplock' = t
    /\ EvPut(t, [c EXCEPT !.at = IF c.todo # <<>> THEN "collect" ELSE "scan",
                          !.todo = IF c.todo # <<>> THEN @ ELSE SortedFds(Interested),
                          !.found = 0, !.probe = FALSE])
    /\ UNCHANGED <<fileVars, regs, waiter, evWakes, evAsleep, evSignal, evSignals, interests, reports, ctls, scanned>>

Reported(i, ready, woken) == [i EXCEPT !.last = ready, !.disabled = i.trigger = "oneshot"]

\* epoll_ready_event_from_poll: whether the interest is reported, and what it remembers.
ReadyEvent(i, ready, woken) ==
    IF ready = {} THEN <<FALSE, IF i.trigger = "edge" THEN [i EXCEPT !.last = {}] ELSE i>>
    ELSE IF i.trigger = "edge" /\ ready = i.last /\ ~woken THEN <<FALSE, i>>
    ELSE <<TRUE, Reported(i, ready, woken)>>

\* One interest of either pass.
EpollVisit(t) ==
    LET c == evCall[t]  f == Head(c.todo)  i == interests[f]
        woken == c.at = "collect"
        skip == i = NoInterest \/ i.disabled \/ c.found >= MaxEvents
        r == ReadyEvent(i, PollReady(FileOf[f], i.want), woken) IN
    /\ c.op = "epoll" /\ c.at \in {"collect", "scan"} /\ c.todo # <<>>
    /\ IF skip THEN EvPut(t, [c EXCEPT !.todo = Tail(@)]) /\ UNCHANGED <<interests, reports>>
       ELSE /\ EvPut(t, [c EXCEPT !.todo = Tail(@), !.found = IF r[1] THEN @ + 1 ELSE @,
                                  !.probe = @ \/ (~woken /\ ~r[1] /\ i.want = {})])
            /\ interests' = [interests EXCEPT ![f] = r[2]]
            /\ reports' = IF r[1] /\ reports[f] < 2 THEN [reports EXCEPT ![f] = @ + 1] ELSE reports
    /\ IF skip \/ woken THEN UNCHANGED <<regs, waiter, scanned>>
       ELSE Register(t, f, i.want) /\ scanned' = [scanned EXCEPT ![t] = @ \cup {f}]
    /\ UNCHANGED <<fileVars, evWakes, evAsleep, evSignal, evSignals, eplock, ctls>>

\* The end of a pass: return, scan after collecting nothing, or sleep.
EpollDecide(t) ==
    LET c == evCall[t] IN
    /\ c.op = "epoll" /\ c.at \in {"collect", "scan"} /\ c.todo = <<>>
    /\ eplock' = NoHolder
    /\ IF c.found > 0 \/ (c.at = "scan" /\ (c.late \/ evSignal[t]))
       THEN /\ EvReturn(t) /\ DropWaiter(t)
            /\ evSignal' = IF c.found > 0 \/ c.late THEN evSignal ELSE [evSignal EXCEPT ![t] = FALSE]
            /\ UNCHANGED evAsleep
       ELSE /\ IF c.at = "collect" THEN EvPut(t, [c EXCEPT !.at = "lock"]) /\ UNCHANGED evAsleep
               ELSE IF waiter[t].count > 0 /\ ~c.probe
               THEN EvPut(t, [c EXCEPT !.at = "check"]) /\ UNCHANGED evAsleep
               ELSE /\ EvPut(t, [c EXCEPT !.at = "asleep", !.probe = TRUE])
                    /\ evAsleep' = [evAsleep EXCEPT ![t] = TRUE]
            /\ UNCHANGED <<regs, waiter, evWakes, scanned, evSignal>>
    /\ UNCHANGED <<fileVars, evSignals, interests, reports, ctls>>

\* sys_epoll_ctl: ADD, MOD and DEL.
EpollCtl(t) ==
    /\ eplock = NoHolder /\ ctls < MaxCtl /\ ctls' = ctls + 1
    /\ \E f \in Fds :
        /\ \/ \E want \in WantSets, trigger \in TriggerModes :
                interests' = [interests EXCEPT ![f] =
                    [want |-> want, trigger |-> trigger, last |-> {}, disabled |-> FALSE]]
           \/ interests[f] # NoInterest /\ interests' = [interests EXCEPT ![f] = NoInterest]
        /\ scanned' = [u \in Poller |-> scanned[u] \ {f}]
        /\ reports' = [reports EXCEPT ![f] = 0]
    /\ UNCHANGED <<fileVars, regs, waiter, evWakes, evCall, evAsleep, evSignal, evSignals, eplock>>

EventNext ==
    \/ WakeStore \/ WakeTask
    \/ \E t \in EvReader : EnterRead(t) \/ EvRead(t)
    \/ \E t \in EvWriter : EnterWrite(t) \/ EvWrite(t)
    \/ \E t \in CtlThread : EpollCtl(t)
    \/ \E t \in EvThread : EvInterrupt(t)
    \/ \E t \in Poller :
        \/ EnterPoll(t) \/ PollScan(t) \/ PollDecide(t)
        \/ WaitCheck(t) \/ WaitBlock(t) \/ Handoff(t) \/ Woken(t) \/ PollTimeout(t) \/ ProbeTimer(t)
        \/ EnterEpoll(t) \/ EpollLock(t) \/ EpollVisit(t) \/ EpollDecide(t)

EventSpec == EventInit /\ [][EventNext]_eventVars

-----------------------------------------------------------------------------
Sleeping(t) == evCall[t].op \in {"poll", "epoll"} /\ evCall[t].at = "asleep" /\ evAsleep[t]
Coming(t) == \E w \in evWakes : w.task = t

\* A poller does not sleep past an event: unless a wake is on its way, no file it polls
\* is ready, and no interest of its epoll scan that is still in force is ready unreported
\* (the timer of a probe stands in for the wake).
PollerServed ==
    \A t \in Poller : Sleeping(t) /\ ~Coming(t) => \A f \in scanned[t] :
        IF evCall[t].op = "poll" THEN PollReady(FileOf[f], evCall[t].want) = {}
        ELSE LET i == interests[f]  ready == PollReady(FileOf[f], i.want) IN
             evCall[t].probe \/ i.disabled \/ ready = {} \/ (i.trigger = "edge" /\ i.last # {})

\* A reader does not sleep while the counter is positive, nor a writer while its
\* value fits.
EventFdServed ==
    \A t \in EvReader \cup EvWriter : evAsleep[t] =>
        LET c == evCall[t] IN
        IF c.op = "read" THEN counter[c.file] = 0 ELSE c.value > CounterMax - counter[c.file]

\* However many threads wait on an epoll instance, a one-shot interest is reported once
\* between two epoll_ctl calls on it.
OneShotOnce == \A f \in Fds : interests[f].trigger = "oneshot" => reports[f] <= 1

\* "This kernel polls readiness cooperatively instead of parking epoll waiters on every
\* monitored file": a thread in epoll_wait finds out about every enabled level-triggered
\* interest that is ready, one added while it waits included.
EpollSeesAll ==
    \A t \in Poller : Sleeping(t) /\ ~Coming(t) /\ evCall[t].op = "epoll" /\ ~evCall[t].probe =>
        \A f \in Interested :
            interests[f].trigger = "level" => PollReady(FileOf[f], interests[f].want) = {}
=============================================================================
