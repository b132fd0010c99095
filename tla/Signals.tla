------------------------------ MODULE Signals ------------------------------
(* Signals of one process: queueing to a thread or to the process, the wake  *)
(* of a sleeper, dispositions, masks, delivery to a handler on the way back  *)
(* to user mode, ppoll, sigsuspend and sigtimedwait (task/mod.rs,            *)
(* task/signal.rs, syscall/signal.rs, arch/*/signal.rs).                     *)
(*                                                                           *)
(* One action is one critical section of the task lock (`inner') or of the   *)
(* process lock.  The stop and continue signals are JobControl's.            *)
EXTENDS Integers, Sequences, FiniteSets

CONSTANTS
    TaskCount,      \* the threads are 1..TaskCount in tasks_snapshot()'s order
    Sender,         \* other processes and threads that send
    Sig,            \* the signal numbers in use
    Deliverable,    \* those a user handler can be run for, see can_deliver_user_signal
    Action,         \* the dispositions sigaction() installs
    Dispositions,   \* and the ones the process starts with, per signal
    MaskChoices,    \* the sets user code passes to sigprocmask, ppoll and sigsuspend
    WantChoices,    \* and to sigtimedwait
    Calls,          \* the calls a thread makes: [1..TaskCount -> SUBSET STRING]
    Sends,          \* the calls a sender makes: [Sender -> SUBSET STRING]
    MaxSends,       \* how many signals are sent in all
    MaxActions,     \* how many sigaction() calls are made in all
    IsInit,         \* whether the process is the init of its namespace
    FrameFaults,    \* whether a signal frame may hit an unmapped stack
    Smp             \* more than one CPU: others run between a check and the block after it

Task == 1 .. TaskCount

SIGKILL == 9
SIGSEGV == 11
SIGCHLD == 17
SIGRTMIN == 32

ASSUME SignalsAssumption ==
    /\ TaskCount \in Nat \ {0}
    /\ Sig \subseteq 1 .. 64
    /\ Action \subseteq [h : {"default", "ignore", "user"}, reset : BOOLEAN,
                         defer : BOOLEAN, mask : SUBSET Sig]
    /\ Dispositions \in [Sig -> Action]
    /\ MaskChoices \subseteq SUBSET Sig
    /\ WantChoices \subseteq SUBSET Sig
    /\ Smp \in BOOLEAN
    /\ FrameFaults \/ (\E t \in Task : "fault" \in Calls[t]) => SIGSEGV \in Sig
    /\ (\E k \in Sender : "exit" \in Sends[k]) => SIGCHLD \in Sig

VARIABLES
    sigPending,     \* pending_signals of each task
    sigFast,        \* signal_pending, its summary outside the lock
    sigMask,        \* signal_mask
    sigRestore,     \* sigsuspend_restore_mask
    sigAsleep,      \* the task is Blocked
    sigFrames,      \* the signal frames on the user stack: signal, action and saved mask
    sigPlace,       \* where the thread is
    sigAt,          \* its local variables: sig, act, old (mask), want, scan, wake (mask)
    sigAction,      \* signal_actions of the process
    wakeMask,       \* signal_wake_mask, derived from them
    sigZombie,      \* a child has exited and was not waited for
    sigEnded,       \* the process has exited
    sigSender,      \* where a sender is: step, sig, target, index, whole
    sigSends,       \* the signals sent so far
    sigActions,     \* the sigaction() calls made so far
    sigWant         \* the mask the thread asked for outside of handlers

queueVars == <<sigPending, sigFast>>
maskVars == <<sigMask, sigRestore, sigFrames, sigWant>>
actionVars == <<sigAction, wakeMask, sigActions>>
processVars == <<actionVars, sigZombie, sigEnded, sigSender, sigSends>>
sigVars == <<queueVars, maskVars, sigAsleep, sigPlace, sigAt, processVars>>

NoMask == {0}       \* sigsuspend_restore_mask is None

DefaultAct == [h |-> "default", reset |-> FALSE, defer |-> TRUE, mask |-> {}]
Locals == [sig |-> 0, act |-> DefaultAct, old |-> {}, want |-> {}, scan |-> 1, wake |-> {}]

-----------------------------------------------------------------------------
(* The table of task/signal.rs.                                              *)

\* default_signal_action(): SIGCHLD, SIGURG, SIGWINCH.
DefaultIgnored(s) == s \in {17, 23, 28}

\* SignalFlags::check_error(): the signals with a fatal description.
CheckError(s) == s \in (1 .. 16) \cup (24 .. 27) \cup (29 .. 31)

\* default_signal_error(), default_signal_exit_code().
DefaultFatal(s) == ~DefaultIgnored(s) /\ (s >= SIGRTMIN \/ CheckError(s))

\* arch::signal::can_deliver_user_signal().
CanDeliver(s) == s \in Deliverable

Handled(act) == act.h = "user"

\* signal_action_masks(): what interrupts a wait.
WakeMask(acts) ==
    {s \in Sig : \/ Handled(acts[s]) /\ CanDeliver(s)
                 \/ acts[s].h = "default" /\ ~IsInit /\ DefaultFatal(s)}

\* lowest_signal(): trailing_zeros().
Lowest(S) == CHOOSE s \in S : \A r \in S : s <= r

-----------------------------------------------------------------------------
(* Helpers on the state of a task.                                           *)

Unmasked(t) == sigPending[t] \ sigMask[t]

\* current_has_interrupting_signal().
Interrupting(t) == Unmasked(t) \cap wakeMask # {}

\* clear_pending() and publish_signal_pending_locked(), in one critical section.
Clear(t, s) ==
    /\ sigPending' = [sigPending EXCEPT ![t] = @ \ {s}]
    /\ sigFast' = [sigFast EXCEPT ![t] = sigPending[t] \ {s} # {}]

\* The insertion of queue_signal_to_task().
Enqueue(t, s) ==
    /\ sigPending' = [sigPending EXCEPT ![t] = @ \cup {s}]
    /\ sigFast' = [sigFast EXCEPT ![t] = TRUE]

Go(t, p) == sigPlace' = [sigPlace EXCEPT ![t] = p]

\* Leaving a function, with its local variables.
Back(t, p) == Go(t, p) /\ sigAt' = [sigAt EXCEPT ![t] = Locals]

\* A task sits between its last look and the block of sigsuspend or sigtimedwait.
\* On one CPU nothing else runs there.
InWindow(t) == sigPlace[t] \in {"suspend block", "wait block"}
SigRuns(t) == ~sigEnded /\ (Smp \/ \A u \in Task \ {t} : ~InWindow(u))
SenderRuns == ~sigEnded /\ (Smp \/ \A u \in Task : ~InWindow(u))

Idle == [step |-> "idle", sig |-> 0, target |-> 1, index |-> 1, whole |-> FALSE]

SigInit ==
    /\ sigPending = [t \in Task |-> {}]
    /\ sigFast = [t \in Task |-> FALSE]
    /\ sigMask = [t \in Task |-> {}]
    /\ sigRestore = [t \in Task |-> NoMask]
    /\ sigAsleep = [t \in Task |-> FALSE]
    /\ sigFrames = [t \in Task |-> <<>>]
    /\ sigPlace = [t \in Task |-> "user"]
    /\ sigAt = [t \in Task |-> Locals]
    /\ sigAction = Dispositions
    /\ wakeMask = WakeMask(Dispositions)
    /\ sigZombie = FALSE
    /\ sigEnded = FALSE
    /\ sigSender = [k \in Sender |-> Idle]
    /\ sigSends = 0 /\ sigActions = 0
    /\ sigWant = [t \in Task |-> {}]

-----------------------------------------------------------------------------
(* Senders.                                                                  *)

Begin(k, s, whole, target, step) ==
    /\ SenderRuns /\ sigSender[k].step = "idle" /\ sigSends < MaxSends
    /\ sigSends' = sigSends + 1
    /\ sigSender' = [sigSender EXCEPT ![k] = [step |-> step, sig |-> s, target |-> target,
                                        index |-> 1, whole |-> whole]]
    /\ UNCHANGED <<queueVars, maskVars, actionVars, sigAsleep, sigPlace, sigAt, sigZombie,
                   sigEnded>>

\* sys_kill(), which leaves the init of a namespace alone.
Kill(k, s) ==
    /\ "kill" \in Sends[k]
    /\ ~(IsInit /\ CheckError(s))
    /\ Begin(k, s, TRUE, 1, "scan")

\* rt_sigqueueinfo(), pidfd_send_signal().
SigQueueInfo(k, s) ==
    /\ "sigqueue" \in Sends[k]
    /\ Begin(k, s, TRUE, 1, "scan")

\* tkill(), tgkill(), rt_tgsigqueueinfo().
Tkill(k, t, s) ==
    /\ "tkill" \in Sends[k]
    /\ Begin(k, s, FALSE, t, "queue")

\* queue_signal_to_process() looks for a task that does not mask the signal,
\* one task lock at a time.
ScanTarget(k) ==
    LET d == sigSender[k] IN
    /\ SenderRuns /\ d.step = "scan"
    /\ sigSender' = [sigSender EXCEPT ![k] =
           IF d.sig \notin sigMask[d.index] THEN [d EXCEPT !.step = "queue", !.target = d.index]
           ELSE IF d.index = TaskCount THEN [d EXCEPT !.step = "queue", !.target = 1]
           ELSE [d EXCEPT !.index = @ + 1]]
    /\ UNCHANGED <<queueVars, maskVars, actionVars, sigAsleep, sigPlace, sigAt, sigZombie,
                   sigEnded, sigSends>>

\* What follows the queueing: the wake of every task, for a signal sent to the process.
AfterQueue(d) ==
    IF d.whole /\ CheckError(d.sig) THEN [d EXCEPT !.step = "wake all", !.index = 1] ELSE Idle

\* The critical section of queue_signal_to_task().
Queue(k) ==
    LET d == sigSender[k] IN
    /\ SenderRuns /\ d.step = "queue"
    /\ Enqueue(d.target, d.sig)
    /\ sigSender' = [sigSender EXCEPT ![k] =
           IF d.sig \in wakeMask \ sigMask[d.target] THEN [d EXCEPT !.step = "wake"]
           ELSE AfterQueue(d)]
    /\ UNCHANGED <<maskVars, actionVars, sigAsleep, sigPlace, sigAt, sigZombie,
                   sigEnded, sigSends>>

\* publish_process_exit() of a child, queue_exit_signal_with_wake_mask(): SIGCHLD goes
\* to the first task of the parent.
ChildExit(k) ==
    /\ SenderRuns /\ "exit" \in Sends[k] /\ sigSender[k].step = "idle" /\ sigSends < MaxSends
    /\ sigAction[SIGCHLD].h # "ignore"
    /\ sigSends' = sigSends + 1
    /\ sigZombie' = TRUE
    /\ Enqueue(1, SIGCHLD)
    /\ sigSender' = [sigSender EXCEPT ![k] =
           IF SIGCHLD \in wakeMask \ sigMask[1] THEN [Idle EXCEPT !.sig = SIGCHLD, !.step = "wake"]
           ELSE Idle]
    /\ UNCHANGED <<maskVars, actionVars, sigAsleep, sigPlace, sigAt, sigEnded>>

\* wakeup_task(): makes a Blocked task Ready, and is lost on any other.
Wake(k) ==
    LET d == sigSender[k] IN
    /\ SenderRuns /\ d.step = "wake"
    /\ sigAsleep' = [sigAsleep EXCEPT ![d.target] = FALSE]
    /\ sigSender' = [sigSender EXCEPT ![k] = AfterQueue(d)]
    /\ UNCHANGED <<queueVars, maskVars, actionVars, sigPlace, sigAt, sigZombie, sigEnded,
                   sigSends>>

\* The last loop of queue_signal_to_process(): wakes every task.
WakeAll(k) ==
    LET d == sigSender[k] IN
    /\ SenderRuns /\ d.step = "wake all"
    /\ sigAsleep' = [sigAsleep EXCEPT ![d.index] = FALSE]
    /\ sigSender' = [sigSender EXCEPT ![k] =
           IF d.index = TaskCount THEN Idle ELSE [d EXCEPT !.index = @ + 1]]
    /\ UNCHANGED <<queueVars, maskVars, actionVars, sigPlace, sigAt, sigZombie, sigEnded,
                   sigSends>>

-----------------------------------------------------------------------------
(* System calls of the threads.  A call ends on the way back to user mode,   *)
(* where signals are delivered: "deliver".                                   *)

SysEnter(t, call) == SigRuns(t) /\ sigPlace[t] = "user" /\ call \in Calls[t]

\* A timer interrupt, or a call of no interest here.  With nothing pending the way
\* back does nothing.
Trap(t) ==
    /\ SigRuns(t) /\ sigPlace[t] = "user"
    /\ sigPending[t] # {}
    /\ Go(t, "deliver")
    /\ UNCHANGED <<queueVars, maskVars, processVars, sigAsleep, sigAt>>

\* The user code faults: the trap handler queues SIGSEGV to the task that runs,
\* current_add_signal().
Fault(t) ==
    /\ SysEnter(t, "fault") /\ sigSends < MaxSends
    /\ sigSends' = sigSends + 1
    /\ Enqueue(t, SIGSEGV)
    /\ Go(t, "deliver")
    /\ UNCHANGED <<maskVars, actionVars, sigAsleep, sigAt, sigZombie, sigEnded, sigSender>>

\* rt_sigprocmask() with SIG_SETMASK, outside of handlers.
SigProcMask(t, m) ==
    /\ SysEnter(t, "sigprocmask") /\ sigFrames[t] = <<>>
    /\ sigMask' = [sigMask EXCEPT ![t] = m]
    /\ sigWant' = [sigWant EXCEPT ![t] = m]
    /\ Go(t, "deliver")
    /\ UNCHANGED <<queueVars, processVars, sigRestore, sigAsleep, sigFrames, sigAt>>

\* rt_sigaction(): installs and publishes under the process lock.
SigAction(t, s, act) ==
    /\ SysEnter(t, "sigaction") /\ sigActions < MaxActions
    /\ s # SIGKILL
    /\ sigActions' = sigActions + 1
    /\ sigAction' = [sigAction EXCEPT ![s] = act]
    /\ wakeMask' = WakeMask(sigAction')
    /\ Go(t, "published")
    /\ UNCHANGED <<queueVars, maskVars, sigAsleep, sigAt, sigZombie, sigEnded, sigSender,
                   sigSends>>

\* It reads the published mask once ...
ReadPublished(t) ==
    /\ SigRuns(t) /\ sigPlace[t] = "published"
    /\ sigAt' = [sigAt EXCEPT ![t].wake = wakeMask, ![t].scan = 1]
    /\ Go(t, "rescan")
    /\ UNCHANGED <<queueVars, maskVars, processVars, sigAsleep>>

MutRescanned(u, wake) == FALSE

\* (whether the loop of rt_sigaction() wakes task u)
Rescanned(u, wake) == Unmasked(u) \cap wake # {}

\* ... and wakes the tasks for which a signal already pending has become one that
\* interrupts.
Rescan(t) ==
    LET u == sigAt[t].scan IN
    /\ SigRuns(t) /\ sigPlace[t] = "rescan"
    /\ sigAsleep' = [sigAsleep EXCEPT ![u] = @ /\ ~Rescanned(u, sigAt[t].wake)]
    /\ IF u = TaskCount THEN Back(t, "deliver")
       ELSE sigAt' = [sigAt EXCEPT ![t].scan = u + 1] /\ UNCHANGED sigPlace
    /\ UNCHANGED <<queueVars, maskVars, processVars>>

\* ppoll(), pselect6(), epoll_pwait(): TemporarySignalMask::install().
PollEnter(t, m) ==
    /\ SysEnter(t, "ppoll")
    /\ sigAt' = [sigAt EXCEPT ![t].old = sigMask[t]]
    /\ sigMask' = [sigMask EXCEPT ![t] = m]
    /\ Go(t, "poll")
    /\ UNCHANGED <<queueVars, processVars, sigRestore, sigAsleep, sigFrames, sigWant>>

\* The call returns, an event, the deadline or a signal having ended it: the drop of
\* TemporarySignalMask puts the mask back.
PollLeave(t) ==
    /\ SigRuns(t) /\ sigPlace[t] = "poll"
    /\ sigMask' = [sigMask EXCEPT ![t] = sigAt[t].old]
    /\ Back(t, "deliver")
    /\ UNCHANGED <<queueVars, processVars, sigRestore, sigAsleep, sigFrames, sigWant>>

\* The test prepare_current_switch_inner() makes under the task lock.
MayPark(t) == ~Interrupting(t)

\* block_current_task_no_schedule_unless_interrupting_signal(): Blocked only if no
\* signal interrupts, under the task lock.
PollBlock(t) ==
    /\ SigRuns(t) /\ sigPlace[t] = "poll"
    /\ MayPark(t)
    /\ sigAsleep' = [sigAsleep EXCEPT ![t] = TRUE]
    /\ Go(t, "polling")
    /\ UNCHANGED <<queueVars, maskVars, processVars, sigAt>>

\* An event of the files polled wakes the task (PollWaiter, a timer).
PollEvent(t) ==
    /\ SigRuns(t) /\ sigPlace[t] = "polling"
    /\ sigAsleep' = [sigAsleep EXCEPT ![t] = FALSE]
    /\ Go(t, "poll")
    /\ UNCHANGED <<queueVars, maskVars, processVars, sigAt>>

\* The task runs again after a wake.
Resume(t) ==
    /\ SigRuns(t) /\ ~sigAsleep[t]
    /\ \/ sigPlace[t] = "polling" /\ Go(t, "poll")
       \/ sigPlace[t] = "suspended" /\ Go(t, "suspend")
       \/ sigPlace[t] = "waiting" /\ Go(t, "wait")
    /\ UNCHANGED <<queueVars, maskVars, processVars, sigAsleep, sigAt>>

\* rt_sigsuspend(): the mask for the wait, outside of handlers.
SuspendEnter(t, m) ==
    /\ SysEnter(t, "sigsuspend") /\ sigFrames[t] = <<>>
    /\ sigAt' = [sigAt EXCEPT ![t].old = sigMask[t]]
    /\ sigMask' = [sigMask EXCEPT ![t] = m]
    /\ Go(t, "suspend")
    /\ UNCHANGED <<queueVars, processVars, sigRestore, sigAsleep, sigFrames, sigWant>>

\* The loop: an interrupting signal ends the wait and leaves the old mask to the
\* delivery; otherwise the task goes on to block.
SuspendLook(t) ==
    /\ SigRuns(t) /\ sigPlace[t] = "suspend"
    /\ IF Interrupting(t)
       THEN sigRestore' = [sigRestore EXCEPT ![t] = sigAt[t].old] /\ Back(t, "deliver")
       ELSE Go(t, "suspend block") /\ UNCHANGED <<sigRestore, sigAt>>
    /\ UNCHANGED <<queueVars, processVars, sigMask, sigAsleep, sigFrames, sigWant>>

\* block_current_task_no_schedule().
Block(t) ==
    /\ SigRuns(t) /\ InWindow(t)
    /\ sigAsleep' = [sigAsleep EXCEPT ![t] = TRUE]
    /\ Go(t, IF sigPlace[t] = "suspend block" THEN "suspended" ELSE "waiting")
    /\ UNCHANGED <<queueVars, maskVars, processVars, sigAt>>

\* rt_sigtimedwait().
WaitEnter(t, w) ==
    /\ SysEnter(t, "sigtimedwait")
    /\ sigAt' = [sigAt EXCEPT ![t].want = w]
    /\ Go(t, "wait")
    /\ UNCHANGED <<queueVars, maskVars, processVars, sigAsleep>>

\* try_return_waitable_sigchld(): a child not waited for counts as a SIGCHLD.
ChildWaitable(t) ==
    SIGCHLD \in sigAt[t].want /\ sigZombie /\ Handled(sigAction[SIGCHLD])

\* The second look of the loop, with interrupts off.
WaitRetries(t) == sigPending[t] \cap sigAt[t].want # {} \/ Interrupting(t)

\* One turn of the loop: peek_pending_signal(); then a waitable child, an interrupting
\* signal or the deadline end the wait; else the task looks again.
WaitLook(t) ==
    LET found == sigPending[t] \cap sigAt[t].want IN
    /\ SigRuns(t) /\ sigPlace[t] = "wait"
    /\ \/ /\ found # {}
          /\ sigAt' = [sigAt EXCEPT ![t].sig = Lowest(found)]
          /\ Go(t, "consume")
       \/ found = {} /\ Back(t, "deliver")
       \/ /\ found = {} /\ ~ChildWaitable(t) /\ ~Interrupting(t)
          /\ Go(t, "wait again")
          /\ UNCHANGED sigAt
    /\ UNCHANGED <<queueVars, maskVars, processVars, sigAsleep>>

\* The second look.
WaitAgain(t) ==
    /\ SigRuns(t) /\ sigPlace[t] = "wait again"
    /\ Go(t, IF WaitRetries(t) THEN "wait" ELSE "wait block")
    /\ UNCHANGED <<queueVars, maskVars, processVars, sigAsleep, sigAt>>

\* The timer of the deadline wakes the task.
WaitExpires(t) ==
    /\ SigRuns(t) /\ sigPlace[t] = "waiting"
    /\ sigAsleep' = [sigAsleep EXCEPT ![t] = FALSE]
    /\ Go(t, "wait")
    /\ UNCHANGED <<queueVars, maskVars, processVars, sigAt>>

\* consume_pending_signal(), after the copy to user memory.
Consume(t) ==
    /\ SigRuns(t) /\ sigPlace[t] = "consume"
    /\ Clear(t, sigAt[t].sig)
    /\ Back(t, "deliver")
    /\ UNCHANGED <<maskVars, processVars, sigAsleep>>

\* The mask of the last frame; SIGKILL cannot be in it.
FrameMask(t) == sigFrames[t][Len(sigFrames[t])].mask \ {SIGKILL}

\* rt_sigreturn() puts back the mask its frame saved.
SigReturn(t) ==
    /\ SigRuns(t) /\ sigPlace[t] = "user" /\ sigFrames[t] # <<>>
    /\ sigMask' = [sigMask EXCEPT ![t] = FrameMask(t)]
    /\ sigFrames' = [sigFrames EXCEPT ![t] = SubSeq(@, 1, Len(@) - 1)]
    /\ Go(t, "deliver")
    /\ UNCHANGED <<queueVars, processVars, sigRestore, sigAsleep, sigAt, sigWant>>

-----------------------------------------------------------------------------
(* The way back to user mode: deliver_pending_signal(), then                 *)
(* check_signals_of_task().                                                  *)

\* The signals take_pending_user_signal_for_task() chooses from.
Ready(t) == {s \in Unmasked(t) : CanDeliver(s)}

\* Its first lock: the lowest one.
Select(t) ==
    LET ready == Ready(t) IN
    /\ SigRuns(t) /\ sigPlace[t] = "deliver"
    /\ IF sigFast[t] /\ ready # {}
       THEN sigAt' = [sigAt EXCEPT ![t].sig = Lowest(ready)] /\ Go(t, "act")
       ELSE UNCHANGED sigAt /\ Go(t, "check")
    /\ UNCHANGED <<queueVars, maskVars, processVars, sigAsleep>>

\* Second, the process lock: the disposition, reset if it asks for it (SA_RESETHAND).
ReadAction(t) ==
    LET s == sigAt[t].sig
        act == sigAction[s] IN
    /\ SigRuns(t) /\ sigPlace[t] = "act"
    /\ sigAction' = [sigAction EXCEPT ![s] = IF Handled(act) /\ act.reset THEN DefaultAct ELSE @]
    /\ wakeMask' = IF Handled(act) /\ act.reset THEN WakeMask(sigAction') ELSE wakeMask
    /\ IF act.h = "default" THEN Back(t, "check")
       ELSE /\ sigAt' = [sigAt EXCEPT ![t].act = act]
            /\ Go(t, IF act.h = "ignore" THEN "discard" ELSE "build")
    /\ UNCHANGED <<queueVars, maskVars, sigAsleep, sigZombie, sigEnded, sigSender, sigSends,
                   sigActions>>

\* remove_pending_signal_for_task().
Discard(t) ==
    LET s == sigAt[t].sig IN
    /\ SigRuns(t) /\ sigPlace[t] = "discard"
    /\ IF s \in sigPending[t] THEN Clear(t, s) ELSE UNCHANGED queueVars
    /\ Back(t, "check")
    /\ UNCHANGED <<maskVars, processVars, sigAsleep>>

MutSavedMask(t) == sigMask[t]

\* The mask the frame saves: the one sigsuspend() left behind, if it did.
SavedMask(t) == IF sigRestore[t] # NoMask THEN sigRestore[t] ELSE sigMask[t]

\* The mask the handler runs with.
HandlerMask(t, s, act) ==
    sigMask[t] \cup act.mask \cup (IF act.defer THEN {s} ELSE {})

\* Third, the task lock again: the signal is taken and masked.
TakeSignal(t, s) ==
    /\ Clear(t, s)
    /\ sigRestore' = [sigRestore EXCEPT ![t] = NoMask]
    /\ sigMask' = [sigMask EXCEPT ![t] = HandlerMask(t, s, sigAt[t].act)]

\* deliver_pending_signal() writes the frame, and the handler runs.
PushFrame(t, s) ==
    /\ sigFrames' = [sigFrames EXCEPT ![t] = Append(@, [sig |-> s, defer |-> sigAt[t].act.defer,
                                                   mask |-> SavedMask(t)])]
    /\ Back(t, "user")
    /\ UNCHANGED sigWant

\* The frame is written, or the stack cannot hold it.
Build(t) ==
    LET s == sigAt[t].sig IN
    /\ SigRuns(t) /\ sigPlace[t] = "build"
    /\ IF s \notin Unmasked(t)
       THEN Back(t, "check") /\ UNCHANGED <<maskVars, queueVars>>
       ELSE /\ TakeSignal(t, s)
            /\ \/ PushFrame(t, s)
               \/ /\ FrameFaults
                  /\ Back(t, "force")
                  /\ sigWant' = [sigWant EXCEPT ![t] = IF sigFrames[t] = <<>> THEN sigMask'[t] ELSE @]
                  /\ UNCHANGED sigFrames
    /\ UNCHANGED <<processVars, sigAsleep>>

\* force_default_sigsegv(): the disposition of SIGSEGV becomes the default one ...
ForceDefault(t) ==
    /\ SigRuns(t) /\ sigPlace[t] = "force"
    /\ sigAction' = [sigAction EXCEPT ![SIGSEGV] = DefaultAct]
    /\ wakeMask' = WakeMask(sigAction')
    /\ Go(t, "segv")
    /\ UNCHANGED <<queueVars, maskVars, sigAsleep, sigAt, sigZombie, sigEnded, sigSender,
                   sigSends, sigActions>>

\* ... and SIGSEGV is unmasked and queued to the current task.
ForceQueue(t) ==
    /\ SigRuns(t) /\ sigPlace[t] = "segv"
    /\ sigMask' = [sigMask EXCEPT ![t] = @ \ {SIGSEGV}]
    /\ sigWant' = [sigWant EXCEPT ![t] = IF sigFrames[t] = <<>> THEN sigMask'[t] ELSE @]
    /\ Enqueue(t, SIGSEGV)
    /\ Go(t, "check")
    /\ UNCHANGED <<processVars, sigRestore, sigAsleep, sigFrames, sigAt>>

\* Whether check_signals_of_task() drops the signal.
Dropped(s) ==
    \/ sigAction[s].h = "ignore"
    \/ sigAction[s].h = "default" /\ (DefaultIgnored(s) \/ IsInit)

\* check_signals_of_task() looks at the lowest unmasked signal only: one that is
\* ignored is dropped, a fatal one ends the process, else the task returns to user mode.
CheckSignals(t) ==
    LET s == Lowest(Unmasked(t))
        found == sigFast[t] /\ Unmasked(t) # {} IN
    /\ SigRuns(t) /\ sigPlace[t] = "check"
    /\ sigAt' = [sigAt EXCEPT ![t].sig = IF found /\ Dropped(s) THEN s ELSE @]
    /\ Go(t, IF found /\ Dropped(s) THEN "drop" ELSE "user")
    /\ sigEnded' = (found /\ ~Dropped(s) /\ sigAction[s].h = "default" /\ DefaultFatal(s))
    /\ UNCHANGED <<queueVars, maskVars, actionVars, sigAsleep, sigZombie, sigSender,
                   sigSends>>

\* It drops it under the task lock.
Drop(t) ==
    /\ SigRuns(t) /\ sigPlace[t] = "drop"
    /\ Clear(t, sigAt[t].sig)
    /\ Back(t, "user")
    /\ UNCHANGED <<maskVars, processVars, sigAsleep>>

TaskStep(t) ==
    \/ Trap(t) \/ Fault(t)
    \/ \E m \in MaskChoices : SigProcMask(t, m) \/ PollEnter(t, m) \/ SuspendEnter(t, m)
    \/ \E s \in Sig, act \in Action : SigAction(t, s, act)
    \/ ReadPublished(t) \/ Rescan(t)
    \/ PollLeave(t) \/ PollBlock(t) \/ PollEvent(t) \/ Resume(t)
    \/ SuspendLook(t) \/ Block(t)
    \/ \E w \in WantChoices : WaitEnter(t, w)
    \/ WaitLook(t) \/ WaitAgain(t) \/ WaitExpires(t) \/ Consume(t)
    \/ SigReturn(t) \/ Select(t) \/ ReadAction(t) \/ Discard(t) \/ Build(t)
    \/ ForceDefault(t) \/ ForceQueue(t) \/ CheckSignals(t) \/ Drop(t)

SenderStep(k) ==
    \/ \E s \in Sig : Kill(k, s) \/ SigQueueInfo(k, s)
    \/ \E s \in Sig, t \in Task : Tkill(k, t, s)
    \/ ScanTarget(k) \/ Queue(k) \/ ChildExit(k) \/ Wake(k) \/ WakeAll(k)

SigNext == (\E t \in Task : TaskStep(t)) \/ (\E k \in Sender : SenderStep(k))

SigSpec == SigInit /\ [][SigNext]_sigVars

-----------------------------------------------------------------------------
(* What the code promises.                                                   *)

SigTypeOK ==
    /\ sigPending \in [Task -> SUBSET Sig]
    /\ sigFast \in [Task -> BOOLEAN]
    /\ sigMask \in [Task -> SUBSET Sig]
    /\ sigRestore \in [Task -> (SUBSET Sig) \cup {NoMask}]
    /\ sigAsleep \in [Task -> BOOLEAN]
    /\ wakeMask \in SUBSET Sig

\* The places in which a task sleeps until a signal interrupts it.  Only the first
\* blocks under the task lock; the others count on having the CPU to themselves.
SignalWaits == IF Smp THEN {"polling"} ELSE {"polling", "suspended", "waiting"}

\* A task that is about to be woken for signal s: by the sender that queued it, or by
\* the loop of a sigaction() that has not reached it yet.
WillWake(t, s) ==
    \/ \E k \in Sender : sigSender[k].step = "wake" /\ sigSender[k].target = t
    \/ \E u \in Task : sigPlace[u] = "published"
    \/ \E u \in Task : sigPlace[u] = "rescan" /\ sigAt[u].scan <= t /\ s \in sigAt[u].wake

\* No signal is slept through: while a task is Blocked in an interruptible wait, every
\* pending signal that it does not mask and that interrupts has somebody about to wake
\* it, whatever order queue_signal_to_task(), the block and rt_sigaction() run in.
\* On several CPUs this is said of ppoll() only: between the check and the block of
\* sigsuspend() and sigtimedwait() a sender on another CPU is slept through.
\* (SIGSEGV is left out: force_default_sigsegv() publishes a disposition without looking
\* at the other tasks, and ends the process.)
SignalsInterrupt ==
    \A t \in Task : sigAsleep[t] /\ sigPlace[t] \in SignalWaits =>
        \A s \in (Unmasked(t) \cap wakeMask) \ {SIGSEGV} : WillWake(t, s)

\* A task in sigtimedwait() does not sleep on a signal it waits for and that was sent to
\* the process: the last loop of queue_signal_to_process() is still to come.
WaitedSignalsArrive ==
    \A t \in Task : sigAsleep[t] /\ sigPlace[t] = "waiting" /\ sigPending[t] \cap sigAt[t].want # {} =>
        \E k \in Sender : \/ sigSender[k].step = "wake"
                          \/ sigSender[k].step = "wake all" /\ sigSender[k].index <= t

\* signal_pending says exactly whether something is pending, so that the fast path of
\* the way back to user mode misses nothing (tcb.rs).
FastExact == \A t \in Task : sigFast[t] = (sigPending[t] # {})

\* User code outside of handlers runs with the mask it asked for, however many signals
\* interrupted it and whether or not sigsuspend() or ppoll() had another one installed.
MasksReturn ==
    \A t \in Task : sigPlace[t] = "user" /\ sigFrames[t] = <<>> /\ ~sigEnded => sigMask[t] = sigWant[t]

\* A handler that does not ask for it (SA_NODEFER) is not entered again before it has
\* returned.
HandlersNotReentered ==
    \A t \in Task : \A i, j \in DOMAIN sigFrames[t] :
        i < j /\ sigFrames[t][i].defer => sigFrames[t][i].sig # sigFrames[t][j].sig

\* A signal is taken once: what sigtimedwait() has copied to its caller, or the check on
\* the way back has found to be ignored, is still pending when the lock is taken again to
\* remove it.
TakenOnce ==
    \A t \in Task : sigPlace[t] \in {"consume", "drop"} => sigAt[t].sig \in sigPending[t]

=============================================================================
