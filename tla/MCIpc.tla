------------------------------- MODULE MCIpc --------------------------------
(* Processes and what they talk through, on small instances: pipes and FIFOs,*)
(* System V semaphores and messages, file locks, timers, eventfds and epoll, *)
(* sockets, terminals, fork, wait and exit, and a sleeping lock that signals *)
(* disturb.  `on' names the one that runs; the variables of the others keep  *)
(* their initial values.                                                     *)
EXTENDS Integers, Sequences, FiniteSets, TLC

CONSTANT Running          \* the instances of this run

VARIABLES
    ring, ends, looking, readq, writeq, pollq, outq, call, blocked, interrupt, wakes, content,
    stamp, signals, pipeFault,                                           \* Pipe
    sets, keyed, nextId, semCall, semStep, semAsleep, semLate, semTimers,
    semSignal,                                                           \* SysvSem
    mqueues, mkeyed, mNextId, requested, msgCall, msgStep, msgAsleep, msgSignal,
    lastId,                                                              \* SysvMsg
    locks, lwaiters, flocks, fwaiters, refs, lcall, lasleep, bytes,      \* FileLock
    kind, now, timer, heap, adding, cpu0, nap, napping, reader, fired, first, \* Timers
    counter, rq, wq, regs, waiter, evWakes, evCall, evAsleep, evSignal, evSignals,
    interests, eplock, scanned, reports, ctls,                           \* EventPoll
    sock, tcpListeners, connectWaiters, udpBound, unixBound, nextEphemeral, scall,
    sAsleep, notified, sSignal, sSignals, sTimers, overdue, earlyEof,    \* Socket
    slots, slotHint, pairs, settings, sessions, held, detached, con, tcall, tAsleep,
    tNotified, tSignal, tCalls, tSignals, typed,                         \* Tty
    pcb, registered, th, forks, lifeFault,                               \* ProcessLife
    locked, waitQueue, pc, status, waking, signalled,                    \* SleepLock
    on

\* A writer, a splicer and a reader on two pipes.
Chain == INSTANCE Pipe WITH
    PipeId <- {1, 2}, WriterOf <- {<<"w", 1>>}, SpliceBy <- {<<"s", 1, 2>>},
    ReaderOf <- {<<"r", 2>>}, PollerOf <- {}, OutPollerOf <- {}, MaxWrite <- 1, Capacity <- 2,
    Capacities <- {}, Fifo <- {}, PipeBuf <- 2, PipeNonBlock <- {}, PipeSignalled <- {},
    MaxSignals <- 0
\* A reader, a writer and a poller of one pipe, with signals.
OnePipe == INSTANCE Pipe WITH
    PipeId <- {1}, WriterOf <- {<<"w", 1>>}, SpliceBy <- {}, ReaderOf <- {<<"r", 1>>},
    PollerOf <- {<<"p", 1>>}, OutPollerOf <- {}, MaxWrite <- 2, Capacity <- 2,
    Capacities <- {}, Fifo <- {}, PipeBuf <- 1, PipeNonBlock <- {}, PipeSignalled <- {"r"},
    MaxSignals <- 1
\* The same with a poller for POLLOUT, O_NONBLOCK and F_SETPIPE_SZ.
OutPipe == INSTANCE Pipe WITH
    PipeId <- {1}, WriterOf <- {<<"w", 1>>}, SpliceBy <- {}, ReaderOf <- {<<"r", 1>>},
    PollerOf <- {}, OutPollerOf <- {<<"p", 1>>}, MaxWrite <- 2, Capacity <- 2,
    Capacities <- {1}, Fifo <- {}, PipeBuf <- 1, PipeNonBlock <- {"w"}, PipeSignalled <- {},
    MaxSignals <- 0
\* A named FIFO that is opened, closed and opened again.
NamedFifo == INSTANCE Pipe WITH
    PipeId <- {1}, WriterOf <- {<<"w", 1>>}, SpliceBy <- {}, ReaderOf <- {<<"r", 1>>},
    PollerOf <- {<<"p", 1>>}, OutPollerOf <- {}, MaxWrite <- 2, Capacity <- 2,
    Capacities <- {1}, Fifo <- {1}, PipeBuf <- 1, PipeNonBlock <- {}, PipeSignalled <- {},
    MaxSignals <- 0

\* Two callers with different uids, one of them timed, one signalled.
OwnerMode == [owner |-> {"read", "alter"}, other |-> {}]
SemLists == {<< <<1, -1, FALSE>> >>, << <<1, 0, FALSE>>, <<2, 1, FALSE>> >>,
             << <<2, -1, FALSE>>, <<1, 1, TRUE>> >>}
Sem == INSTANCE SysvSem WITH
    SemTask <- {"a", "b"}, SemKey <- {"k"}, SemUid <- [t \in {"a", "b"} |-> IF t = "a" THEN 1 ELSE 2],
    Modes <- {OwnerMode}, NSems <- {2}, OpLists <- SemLists, SEMVMX <- 1,
    SEMMNI <- 2, SEMMNS <- 2, MaxSemId <- 2, SemTimed <- {"a"}, SemSignalled <- {"b"}

\* Two callers of one queue, then of its successor under the same identifier.
Select(typ, size, noerror, except, copy) ==
    [typ |-> typ, size |-> size, noerror |-> noerror, except |-> except, copy |-> copy]
Msg == INSTANCE SysvMsg WITH
    MsgTask <- {"a", "b"}, MsgKey <- {"k"}, Limits <- {2}, MsgTypes <- {1, 2}, MsgLens <- {2},
    Selectors <- {Select(1, 2, FALSE, FALSE, FALSE), Select(-2, 1, TRUE, FALSE, FALSE),
                  Select(0, 2, FALSE, FALSE, TRUE)},
    MSGMNI <- 1, NextIds <- {0, 1}, MaxMsgId <- 2, MsgSignalled <- {"b"}

\* Two processes that lock ranges of one file.
Ranges == INSTANCE FileLock WITH
    LockThread <- {"t1", "t3"}, ProcOf <- "t1" :> 1 @@ "t3" :> 2, Desc <- {"d1", "d2"},
    KeyOf <- [d \in {"d1", "d2"} |-> "k"], SharedBy <- "d1" :> {1} @@ "d2" :> {2},
    Starts <- {0, 1}, Lens <- {0, 1, -1}, EOF <- 1, Kinds <- {"posix"}, WaitOnly <- FALSE
\* A process and the one it forked, which share an open file description: locks of
\* descriptions, and flock.
Descriptions == INSTANCE FileLock WITH
    LockThread <- {"t1", "t3"}, ProcOf <- "t1" :> 1 @@ "t3" :> 2,
    Desc <- {"d1", "d2"}, KeyOf <- [d \in {"d1", "d2"} |-> "k"],
    SharedBy <- "d1" :> {1, 2} @@ "d2" :> {2},
    Starts <- {0}, Lens <- {0}, EOF <- 0, Kinds <- {"ofd"}, WaitOnly <- FALSE
Whole == INSTANCE FileLock WITH
    LockThread <- {"t1", "t3"}, ProcOf <- "t1" :> 1 @@ "t3" :> 2,
    Desc <- {"d1", "d2"}, KeyOf <- [d \in {"d1", "d2"} |-> "k"],
    SharedBy <- "d1" :> {1, 2} @@ "d2" :> {2},
    Starts <- {0}, Lens <- {0}, EOF <- 0, Kinds <- {"flock"}, WaitOnly <- FALSE

\* Sleeps, interval timers, POSIX timers and timerfds, one kind at a time.
Time == INSTANCE Timers WITH
    TimerKinds <- {"sleep", "real", "posix", "fd"}, Setter <- {"a", "b"}, Slots <- {1},
    Delays <- {1, 2}, Intervals <- {0, 2}, MaxNow <- 4, MaxGen <- 2, MaxHeap <- 2

\* poll() of two eventfds with a time limit.
Polling == INSTANCE EventPoll WITH
    Poller <- {"p"}, PollOps <- {"poll"}, PollTimed <- {"p"}, EvReader <- {"r"},
    EvWriter <- {"w"}, CtlThread <- {}, Fds <- {1, 2}, FileOf <- [f \in {1, 2} |-> f],
    CounterMax <- 1, Semaphore <- TRUE, WantSets <- {{"IN"}}, TriggerModes <- {"level"},
    MaxEvents <- 1, MaxPollSignals <- 0, MaxCtl <- 0
\* A semaphore eventfd whose counter can reach its limit.
EventFd == INSTANCE EventPoll WITH
    Poller <- {"p"}, PollOps <- {"poll"}, PollTimed <- {"p"}, EvReader <- {"r"},
    EvWriter <- {"w"}, CtlThread <- {}, Fds <- {1}, FileOf <- [f \in {1} |-> f],
    CounterMax <- 2, Semaphore <- TRUE, WantSets <- {{"IN"}}, TriggerModes <- {"level"},
    MaxEvents <- 1, MaxPollSignals <- 0, MaxCtl <- 0
\* epoll of two descriptors of one eventfd.
Epoll == INSTANCE EventPoll WITH
    Poller <- {"p"}, PollOps <- {"epoll"}, PollTimed <- {}, EvReader <- {},
    EvWriter <- {"w"}, CtlThread <- {"c"}, Fds <- {1, 2}, FileOf <- [f \in {1, 2} |-> 1],
    CounterMax <- 1, Semaphore <- FALSE, WantSets <- {{"IN"}, {}},
    TriggerModes <- {"level", "edge"}, MaxEvents <- 1, MaxPollSignals <- 1, MaxCtl <- 2
\* Two waiters of one EPOLLONESHOT interest.
OneShot == INSTANCE EventPoll WITH
    Poller <- {"p", "q"}, PollOps <- {"epoll"}, PollTimed <- {}, EvReader <- {},
    EvWriter <- {"w"}, CtlThread <- {"c"}, Fds <- {1}, FileOf <- [f \in {1} |-> 1],
    CounterMax <- 1, Semaphore <- TRUE, WantSets <- {{"IN"}}, TriggerModes <- {"oneshot"},
    MaxEvents <- 1, MaxPollSignals <- 0, MaxCtl <- 1

\* A stream pair on two CPUs: bytes, half-closes, closes.
StreamPair == INSTANCE Socket WITH
    SockThread <- {"a", "b"},
    SockOps <- "a" :> {"pair", "send", "recv", "shutdown", "close"} @@ "b" :> {"recv", "close"},
    UseOf <- "a" :> {1} @@ "b" :> {2}, Sock <- {1, 2}, Port <- {1, 2},
    Ephemeral <- <<2>>, SockName <- {"n"}, RcvBuf <- 1, MaxSend <- 2, Backlog <- 1,
    SockCpus <- 2, SockSignalled <- {}, MaxSockSignals <- 0
\* The same on one CPU with a poller for room.
StreamPolled == INSTANCE Socket WITH
    SockThread <- {"a", "b", "p"},
    SockOps <- "a" :> {"pair", "send", "recv", "shutdown", "close"} @@ "b" :> {"recv", "close"}
               @@ "p" :> {"pollout"},
    UseOf <- "a" :> {1} @@ "b" :> {2} @@ "p" :> {1}, Sock <- {1, 2}, Port <- {1, 2},
    Ephemeral <- <<2>>, SockName <- {"n"}, RcvBuf <- 1, MaxSend <- 2, Backlog <- 1,
    SockCpus <- 1, SockSignalled <- {}, MaxSockSignals <- 0
\* Connections to a listener that appears late or goes away.
Connecting == INSTANCE Socket WITH
    SockThread <- {"a", "b"},
    SockOps <- "a" :> {"inet", "listen", "accept", "close"} @@ "b" :> {"inet", "connect"},
    UseOf <- "a" :> {1, 3} @@ "b" :> {2}, Sock <- {1, 2, 3}, Port <- {2, 3},
    Ephemeral <- <<2, 3>>, SockName <- {"n"}, RcvBuf <- 1, MaxSend <- 2, Backlog <- 1,
    SockCpus <- 2, SockSignalled <- {}, MaxSockSignals <- 0
\* A datagram pair with a poller and signals.
DatagramPair == INSTANCE Socket WITH
    SockThread <- {"a", "b", "p"},
    SockOps <- "a" :> {"dgrampair", "send", "shutdown", "close"} @@ "b" :> {"recv", "recvmsg", "close"}
               @@ "p" :> {"pollin"},
    UseOf <- "a" :> {1} @@ "b" :> {2} @@ "p" :> {2}, Sock <- {1, 2}, Port <- {1, 2},
    Ephemeral <- <<2>>, SockName <- {"n"}, RcvBuf <- 2, MaxSend <- 2, Backlog <- 1,
    SockCpus <- 1, SockSignalled <- {"b"}, MaxSockSignals <- 1
\* UDP between bound ports, and netlink.
Udp == INSTANCE Socket WITH
    SockThread <- {"a", "b"},
    SockOps <- "a" :> {"udp", "bind", "recv"}
               @@ "b" :> {"udp", "netlink", "connect", "send", "route", "close"},
    UseOf <- "a" :> {1} @@ "b" :> {2}, Sock <- {1, 2}, Port <- {1, 2, 3},
    Ephemeral <- <<2, 3>>, SockName <- {"n"}, RcvBuf <- 1, MaxSend <- 1, Backlog <- 1,
    SockCpus <- 1, SockSignalled <- {}, MaxSockSignals <- 0
\* Unix sockets with names.
UnixNames == INSTANCE Socket WITH
    SockThread <- {"a", "b"},
    SockOps <- "a" :> {"unix", "bindname", "listen", "accept"} @@ "b" :> {"unix", "connect", "bindname"},
    UseOf <- "a" :> {1, 3} @@ "b" :> {2}, Sock <- {1, 2, 3}, Port <- {2, 3},
    Ephemeral <- <<2, 3>>, SockName <- {"n"}, RcvBuf <- 1, MaxSend <- 1, Backlog <- 1,
    SockCpus <- 1, SockSignalled <- {}, MaxSockSignals <- 0

\* Two sessions that contend for two ptys.
PtyOwners == INSTANCE Tty WITH
    TtyProc <- {1, 2}, SessionOf <- 1 :> 1 @@ 2 :> 2,
    TtyOps <- 1 :> {"ptmx", "unlock", "close", "sctty", "exit"}
              @@ 2 :> {"slave", "sctty", "notty", "close"},
    PTY_TABLE_SIZE <- 2, PTY_BUFFER_CAPACITY <- 1, TtyWrites <- {}, TtyKeys <- {},
    MaxPairs <- 2, MaxTtyCalls <- 6, MaxTtySignals <- 0, MaxTyped <- 0
\* One session whose leader gives its terminal up.
PtySession == INSTANCE Tty WITH
    TtyProc <- {1, 2}, SessionOf <- 1 :> 1 @@ 2 :> 1,
    TtyOps <- 1 :> {"ptmx", "unlock", "slave", "notty", "sctty", "vhangup"} @@ 2 :> {"notty", "devtty"},
    PTY_TABLE_SIZE <- 1, PTY_BUFFER_CAPACITY <- 1, TtyWrites <- {}, TtyKeys <- {},
    MaxPairs <- 1, MaxTtyCalls <- 7, MaxTtySignals <- 0, MaxTyped <- 0
\* One process that sets its terminal's foreground group.
PtyForeground == INSTANCE Tty WITH
    TtyProc <- {1, 2}, SessionOf <- 1 :> 1 @@ 2 :> 2,
    TtyOps <- 1 :> {"ptmx", "unlock", "slave", "notty", "spgrp", "vhangup", "sctty"} @@ 2 :> {},
    PTY_TABLE_SIZE <- 1, PTY_BUFFER_CAPACITY <- 1, TtyWrites <- {}, TtyKeys <- {},
    MaxPairs <- 1, MaxTtyCalls <- 7, MaxTtySignals <- 0, MaxTyped <- 0
\* Bytes through a pty, with signals and hangups.
PtyData == INSTANCE Tty WITH
    TtyProc <- {1, 2}, SessionOf <- 1 :> 1 @@ 2 :> 2,
    TtyOps <- 1 :> {"ptmx", "unlock", "write", "read", "close"}
              @@ 2 :> {"slave", "read", "write", "close"},
    PTY_TABLE_SIZE <- 1, PTY_BUFFER_CAPACITY <- 1, TtyWrites <- {<<"x", "x">>, <<"x", "c">>},
    TtyKeys <- {}, MaxPairs <- 1, MaxTtyCalls <- 7, MaxTtySignals <- 1, MaxTyped <- 0
\* Pollers of both ends of a pty.
PtyPolls == INSTANCE Tty WITH
    TtyProc <- {1, 2}, SessionOf <- 1 :> 1 @@ 2 :> 2,
    TtyOps <- 1 :> {"ptmx", "unlock", "write", "poll"} @@ 2 :> {"slave", "read", "poll", "write"},
    PTY_TABLE_SIZE <- 1, PTY_BUFFER_CAPACITY <- 1, TtyWrites <- {<<"x", "x">>, <<"x", "c">>},
    TtyKeys <- {}, MaxPairs <- 1, MaxTtyCalls <- 6, MaxTtySignals <- 1, MaxTyped <- 0
\* The console: the keys that edit a line, and a reader against a poller.
ConsoleKeys == INSTANCE Tty WITH
    TtyProc <- {1, 2}, SessionOf <- 1 :> 1 @@ 2 :> 2,
    TtyOps <- 1 :> {"conread"} @@ 2 :> {},
    PTY_TABLE_SIZE <- 1, PTY_BUFFER_CAPACITY <- 1, TtyWrites <- {},
    TtyKeys <- {"x", "nl", "eof", "erase", "kill", "intr"},
    MaxPairs <- 1, MaxTtyCalls <- 2, MaxTtySignals <- 1, MaxTyped <- 2
ConsolePolls == INSTANCE Tty WITH
    TtyProc <- {1, 2}, SessionOf <- 1 :> 1 @@ 2 :> 2,
    TtyOps <- 1 :> {"conread"} @@ 2 :> {"conpoll"},
    PTY_TABLE_SIZE <- 1, PTY_BUFFER_CAPACITY <- 1, TtyWrites <- {},
    TtyKeys <- {"x", "nl", "eof"},
    MaxPairs <- 1, MaxTtyCalls <- 2, MaxTtySignals <- 0, MaxTyped <- 2

\* Three generations of processes: orphans, zombies, a parent that waits.
Family == INSTANCE ProcessLife WITH
    Pid <- {1, 2, 3}, InitPid <- 1, Nobody <- 0, SmpCpus <- FALSE, MaxForks <- 2,
    LifeOps <- 1 :> {"fork", "wait"} @@ 2 :> {"fork", "exit"} @@ 3 :> {"exit"},
    Dispositions <- 1 :> {"default"} @@ 2 :> {} @@ 3 :> {}
\* A parent that vforks, a child that execs or exits.
Vfork == INSTANCE ProcessLife WITH
    Pid <- {1, 2}, InitPid <- 1, Nobody <- 0, SmpCpus <- FALSE, MaxForks <- 2,
    LifeOps <- 1 :> {"vfork", "fork", "wait"} @@ 2 :> {"exit", "exec"},
    Dispositions <- 1 :> {"handler"} @@ 2 :> {}
\* A child with two threads and a parent that ignores SIGCHLD.
Threads == INSTANCE ProcessLife WITH
    Pid <- {1, 2}, InitPid <- 1, Nobody <- 0, SmpCpus <- FALSE, MaxForks <- 2,
    LifeOps <- 1 :> {"fork", "wait"} @@ 2 :> {"thread", "exit", "exec"},
    Dispositions <- 1 :> {"ignore"} @@ 2 :> {}
\* Two CPUs, a sibling by CLONE_PARENT and a subreaper.
Siblings == INSTANCE ProcessLife WITH
    Pid <- {1, 2, 3}, InitPid <- 1, Nobody <- 0, SmpCpus <- TRUE, MaxForks <- 2,
    LifeOps <- 1 :> {"fork", "vfork", "wait"} @@ 2 :> {"sibling", "exit", "subreaper"}
               @@ 3 :> {"exit"},
    Dispositions <- 1 :> {} @@ 2 :> {} @@ 3 :> {}

\* Threads that signals wake and group exits terminate while they wait for a lock.
Disturbed == INSTANCE SleepLock WITH
    Thread <- {"a", "b", "c"}, NoThread <- "none", Signals <- TRUE, GroupExits <- TRUE

pipeVars == <<ring, ends, looking, readq, writeq, pollq, outq, call, blocked, interrupt, wakes, content,
             stamp, signals, pipeFault>>
semVars == <<sets, keyed, nextId, semCall, semStep, semAsleep, semLate, semTimers, semSignal>>
msgVars == <<mqueues, mkeyed, mNextId, requested, msgCall, msgStep, msgAsleep, msgSignal, lastId>>
lockVars == <<locks, lwaiters, flocks, fwaiters, refs, lcall, lasleep, bytes>>
timerVars == <<kind, now, timer, heap, adding, cpu0, nap, napping, reader, fired, first>>
eventVars == <<counter, rq, wq, regs, waiter, evWakes, evCall, evAsleep, evSignal, evSignals,
              interests, eplock, scanned, reports, ctls>>
sockVars == <<sock, tcpListeners, connectWaiters, udpBound, unixBound, nextEphemeral, scall,
             sAsleep, notified, sSignal, sSignals, sTimers, overdue, earlyEof>>
ttyVars == <<slots, slotHint, pairs, settings, sessions, held, detached, con, tcall, tAsleep,
            tNotified, tSignal, tCalls, tSignals, typed>>
lifeVars == <<pcb, registered, th, forks, lifeFault>>
sleepVars == <<locked, waitQueue, pc, status, waking, signalled>>
vars == <<pipeVars, semVars, msgVars, lockVars, timerVars, eventVars, sockVars, ttyVars, lifeVars, sleepVars, on>>

All == {"chain", "pipe", "pipe out", "fifo", "sem", "msg", "ranges", "ofd", "flock",
        "timers", "poll", "eventfd", "epoll", "oneshot", "stream", "polled", "connect",
        "datagram", "udp", "unix", "owners", "session", "foreground", "pty data",
        "pty polls", "keys", "console", "family", "vfork", "threads", "siblings",
        "disturbed"}
PipeAlone == {"pipe"}

Init ==
    /\ on \in Running
    /\ CASE on = "pipe" -> OnePipe!PipeInit
         [] on = "pipe out" -> OutPipe!PipeInit
         [] on = "fifo" -> NamedFifo!PipeInit
         [] OTHER -> Chain!PipeInit
    /\ Sem!SemInit
    /\ Msg!MsgInit
    /\ CASE on = "ofd" -> Descriptions!LockInit
         [] on = "flock" -> Whole!LockInit
         [] OTHER -> Ranges!LockInit
    /\ Time!TimersInit /\ (on # "timers" => kind = "sleep")
    /\ CASE on = "eventfd" -> EventFd!EventInit
         [] on = "epoll" -> Epoll!EventInit
         [] on = "oneshot" -> OneShot!EventInit
         [] OTHER -> Polling!EventInit
    /\ CASE on = "polled" -> StreamPolled!SockInit
         [] on = "connect" -> Connecting!SockInit
         [] on = "datagram" -> DatagramPair!SockInit
         [] on = "udp" -> Udp!SockInit
         [] on = "unix" -> UnixNames!SockInit
         [] OTHER -> StreamPair!SockInit
    /\ CASE on = "session" -> PtySession!TtyInit
         [] on = "foreground" -> PtyForeground!TtyInit
         [] on = "pty data" -> PtyData!TtyInit
         [] on = "pty polls" -> PtyPolls!TtyInit
         [] on = "keys" -> ConsoleKeys!TtyInit
         [] on = "console" -> ConsolePolls!TtyInit
         [] OTHER -> PtyOwners!TtyInit
    /\ CASE on = "vfork" -> Vfork!LifeInit
         [] on = "threads" -> Threads!LifeInit
         [] on = "siblings" -> Siblings!LifeInit
         [] OTHER -> Family!LifeInit
    /\ Disturbed!Init

Next ==
    /\ UNCHANGED on
    /\ \/ /\ \/ on = "chain" /\ Chain!PipeNext
             \/ on = "pipe" /\ OnePipe!PipeNext
             \/ on = "pipe out" /\ OutPipe!PipeNext
             \/ on = "fifo" /\ NamedFifo!PipeNext
          /\ UNCHANGED <<semVars, msgVars, lockVars, timerVars, eventVars, sockVars,
                         ttyVars, lifeVars, sleepVars>>
       \/ /\ on = "sem" /\ Sem!SemNext
          /\ UNCHANGED <<pipeVars, msgVars, lockVars, timerVars, eventVars, sockVars,
                         ttyVars, lifeVars, sleepVars>>
       \/ /\ on = "msg" /\ Msg!MsgNext
          /\ UNCHANGED <<pipeVars, semVars, lockVars, timerVars, eventVars, sockVars,
                         ttyVars, lifeVars, sleepVars>>
       \/ /\ \/ on = "ranges" /\ Ranges!LockNext
             \/ on = "ofd" /\ Descriptions!LockNext
             \/ on = "flock" /\ Whole!LockNext
          /\ UNCHANGED <<pipeVars, semVars, msgVars, timerVars, eventVars, sockVars,
                         ttyVars, lifeVars, sleepVars>>
       \/ /\ on = "timers" /\ Time!TimersNext
          /\ UNCHANGED <<pipeVars, semVars, msgVars, lockVars, eventVars, sockVars,
                         ttyVars, lifeVars, sleepVars>>
       \/ /\ \/ on = "poll" /\ Polling!EventNext
             \/ on = "eventfd" /\ EventFd!EventNext
             \/ on = "epoll" /\ Epoll!EventNext
             \/ on = "oneshot" /\ OneShot!EventNext
          /\ UNCHANGED <<pipeVars, semVars, msgVars, lockVars, timerVars, sockVars,
                         ttyVars, lifeVars, sleepVars>>
       \/ /\ \/ on = "stream" /\ StreamPair!SockNext
             \/ on = "polled" /\ StreamPolled!SockNext
             \/ on = "connect" /\ Connecting!SockNext
             \/ on = "datagram" /\ DatagramPair!SockNext
             \/ on = "udp" /\ Udp!SockNext
             \/ on = "unix" /\ UnixNames!SockNext
          /\ UNCHANGED <<pipeVars, semVars, msgVars, lockVars, timerVars, eventVars,
                         ttyVars, lifeVars, sleepVars>>
       \/ /\ \/ on = "owners" /\ PtyOwners!TtyNext
             \/ on = "session" /\ PtySession!TtyNext
             \/ on = "foreground" /\ PtyForeground!TtyNext
             \/ on = "pty data" /\ PtyData!TtyNext
             \/ on = "pty polls" /\ PtyPolls!TtyNext
             \/ on = "keys" /\ ConsoleKeys!TtyNext
             \/ on = "console" /\ ConsolePolls!TtyNext
          /\ UNCHANGED <<pipeVars, semVars, msgVars, lockVars, timerVars, eventVars,
                         sockVars, lifeVars, sleepVars>>
       \/ /\ \/ on = "family" /\ Family!LifeNext
             \/ on = "vfork" /\ Vfork!LifeNext
             \/ on = "threads" /\ Threads!LifeNext
             \/ on = "siblings" /\ Siblings!LifeNext
          /\ UNCHANGED <<pipeVars, semVars, msgVars, lockVars, timerVars, eventVars,
                         sockVars, ttyVars, sleepVars>>
       \/ /\ on = "disturbed" /\ Disturbed!Next
          /\ UNCHANGED <<pipeVars, semVars, msgVars, lockVars, timerVars, eventVars,
                         sockVars, ttyVars, lifeVars>>

Spec == Init /\ [][Next]_vars

-----------------------------------------------------------------------------
(* What the components promise; the conjuncts are explained where they are   *)
(* defined.                                                                  *)

\* Nobody sleeps through what it waits for: a blocked reader, writer, poller,
\* connector, semop, msgsnd, msgrcv, lock, timerfd, terminal or wait4 caller has not
\* got what it asked for yet, or its waker is on its way (pipe.rs, sem.rs, msg.rs,
\* fd_lock.rs, timerfd.rs, eventfd.rs, poll.rs, socket.rs, devfs.rs, console_tty.rs,
\* wait.rs, clone.rs).  One reader to a pipe's ring, so that a queue entry a signal
\* left behind is its own; a pipe until a CPU has stopped in its ring lock; datagram
\* sockets and vfork on one CPU: on several the wakeup of either can be lost.
SleepersMustWait ==
    /\ on = "chain" => Chain!ReaderServed /\ Chain!WriterServed
    /\ on = "pipe" => OnePipe!ReaderServed /\ OnePipe!WriterServed
    /\ on = "pipe out" => OutPipe!ReaderServed /\ OutPipe!WriterServed
    /\ on = "fifo" => NamedFifo!ReaderServed /\ NamedFifo!WriterServed
    /\ on = "sem" => Sem!SleepersMustWait
    /\ on = "msg" => Msg!MsgSleepersMustWait
    /\ on = "ranges" => Ranges!LockSleepersMustWait
    /\ on = "ofd" => Descriptions!LockSleepersMustWait
    /\ on = "flock" => Whole!LockSleepersMustWait
    /\ on = "timers" => Time!FdReaderServed
    /\ on = "poll" => Polling!PollerServed /\ Polling!EventFdServed
    /\ on = "eventfd" => EventFd!PollerServed /\ EventFd!EventFdServed
    /\ on = "epoll" => Epoll!PollerServed
    /\ on = "stream" => StreamPair!ReadersMustWait /\ StreamPair!WritersMustWait
    /\ on = "polled" => StreamPolled!ReadersMustWait /\ StreamPolled!WritersMustWait
                        /\ StreamPolled!PollersMustWait
    /\ on = "connect" => Connecting!ConnectorsMustWait /\ Connecting!ReadersMustWait
    /\ on = "datagram" => DatagramPair!ReadersMustWait /\ DatagramPair!WritersMustWait
                          /\ DatagramPair!PollersMustWait
    /\ on = "udp" => Udp!ReadersMustWait
    /\ on = "unix" => UnixNames!ConnectorsMustWait /\ UnixNames!ReadersMustWait
    /\ on \in {"owners", "session", "foreground", "pty data", "pty polls"}
          => PtyData!PtySleepersMustWait
    /\ on \in {"keys", "console"} => ConsolePolls!ConsoleSleepersMustWait
    /\ on = "family" => Family!WaitersServed
    /\ on = "vfork" => Vfork!WaitersServed /\ Vfork!VforkServed
    /\ on = "threads" => Threads!WaitersServed
    /\ on = "siblings" => Siblings!WaitersServed

\* What was sent is what is received, and no more: a pipe's ring holds the bytes
\* written and not read, in order; msg_cbytes is the length of a queue's messages;
\* a socket reports end of file after its last byte; GETNCNT and GETZCNT count the
\* callers that wait (pipe.rs, msg.rs, socket.rs, sem.rs).
TrafficExact ==
    /\ on = "chain" => Chain!RingIsFifo
    /\ on = "pipe" => OnePipe!RingIsFifo
    /\ on = "pipe out" => OutPipe!RingIsFifo
    /\ on = "fifo" => NamedFifo!RingIsFifo
    /\ on = "msg" => Msg!BytesExact
    /\ on = "stream" => StreamPair!EofIsLast
    /\ on = "polled" => StreamPolled!EofIsLast
    /\ on = "datagram" => DatagramPair!EofIsLast
    /\ on = "sem" => Sem!WaitCountsExact

\* Two tables that describe one relation agree: record locks and the bytes they
\* cover, conflicting locks never together (fd_lock.rs); keys and semaphore sets
\* (sem.rs); terminals and sessions, ptys and their table (console_tty.rs, devfs.rs);
\* parents and children, on one CPU (process.rs, mod.rs).
TablesAgree ==
    /\ on = "ranges" => Ranges!RangesExact /\ Ranges!LocksExclude /\ Ranges!NoPairDeadlock
    /\ on = "ofd" => Descriptions!RangesExact /\ Descriptions!LocksExclude
    /\ on = "flock" => Whole!LocksExclude
    /\ on = "sem" => Sem!KeysNameSets
    /\ on = "owners" => PtyOwners!OwnersAgree /\ PtyOwners!OpenPtyIsRegistered
    /\ on = "session" => PtySession!OwnersAgree /\ PtySession!OpenPtyIsRegistered
    /\ on = "foreground" => PtyForeground!OwnersAgree /\ PtyForeground!OpenPtyIsRegistered
    /\ on = "family" => Family!FamilyExact
    /\ on = "vfork" => Vfork!FamilyExact
    /\ on = "threads" => Threads!FamilyExact

\* Each event is delivered when it is due and not more often than asked for: the
\* expirations of timers and timerfds, the reports of an EPOLLONESHOT interest
\* (time.rs, process.rs, timerfd.rs, timer.rs, epoll.rs).  That a nanosleep() lasts as
\* long as asked is not claimed: a stale timer ends it early.
EventsCounted ==
    /\ on = "timers" => Time!DeadlinesKept /\ Time!NotTooOften /\ Time!FdCountsAll
    /\ on = "oneshot" => OneShot!OneShotOnce

\* What stays true of a sleeping lock whose waiters are woken by signals and ended
\* by exec or exit_group: the assertion that an owner unlocks it never fails
\* (raw_sleep_lock.rs).
LocksReleasable == on = "disturbed" => Disturbed!ReleasedWithOwnership

\* "recursive spin-lock acquisition" (sync/spin.rs): no CPU takes the ring lock of a
\* pipe while it holds it (pipe.rs).
NoSelfDeadlock == on = "pipe" => OnePipe!NoSelfDeadlock
=============================================================================
