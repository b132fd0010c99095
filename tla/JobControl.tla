----------------------------- MODULE JobControl -----------------------------
(***************************************************************************)
(* Job control of one process (task/mod.rs) on top of the scheduler: the   *)
(* process-wide stop flag, the task-local gates the scheduler looks at,    *)
(* the acknowledgements of the tasks that were running, and SIGCONT.       *)
(*                                                                         *)
(* Senders run on CPUs other than the modelled ones; each carries out one  *)
(* stop or continue at a time, step by step, while the tasks of the        *)
(* process are scheduled.  What a sender's add_task does to the target CPU *)
(* (enqueue, signal, interrupt) is one step here; module Scheduler has the *)
(* steps in between.  The pending signals that a stop and a continue clear *)
(* and the wakeup of the parent are left out; what wait4 reads is kept.    *)
(***************************************************************************)
EXTENDS Scheduler

CONSTANTS Sender,       \* who sends SIGSTOP and SIGCONT
          MaxSignals    \* bound on how many are sent

ASSUME MaxSignalsAssumption == MaxSignals \in Nat

VARIABLES
    procStopped,        \* ProcessControlBlockInner::job_control_stopped
    stopSignal,         \* job_control_stop_signal is Some
    reported,           \* job_control_stop_reported
    waitStopped,        \* wait_stop_status is Some
    waitContinued,      \* wait_continued
    generation,         \* job_control_stop_generation
    stopPending,        \* job_control_stop_pending
    ackGeneration,      \* job_control_stop_ack_generation of each task
    acking,             \* the generation a CPU is acknowledging
    step, todo,         \* where each sender is, and its tasks still to visit
    removing, source,   \* the task a sender has gated and not yet dequeued, and
                        \* the queue it has found it on
    stopGeneration,     \* the generation of the sender's stop
    changed,            \* the sender's SIGCONT found the process stopped
    ready,              \* the tasks it is going to publish
    sent                \* how many signals were sent

stateVars == <<procStopped, stopSignal, reported, waitStopped, waitContinued>>
ackVars == <<generation, stopPending, ackGeneration, acking>>
processVars == <<stateVars, ackVars>>
senderVars == <<step, todo, removing, source, stopGeneration, changed, ready, sent>>
schedVars == vars
\* All of the scheduler but the gates; all of it but pc.
ungatedVars == <<taskVars, groupVars, rq, remote, cpuVars, signalVars, workVars, fault>>
offPcVars == <<taskVars, stopped, groupVars, rq, remote, current, reason, victim, idle,
               signalVars, workVars, fault>>
jobVars == <<schedVars, processVars, senderVars>>

JInit ==
    /\ Init
    /\ \A t \in Task : status[t] = "Ready"
    /\ procStopped = FALSE /\ stopSignal = FALSE /\ reported = FALSE
    /\ waitStopped = FALSE /\ waitContinued = FALSE
    /\ generation = 0 /\ stopPending = 0
    /\ ackGeneration = [t \in Task |-> 0]
    /\ acking = [c \in CPU |-> 0]
    /\ step = [s \in Sender |-> "idle"]
    /\ todo = [s \in Sender |-> {}]
    /\ removing = [s \in Sender |-> NoTask]
    /\ source = [s \in Sender |-> NoCpu]
    /\ stopGeneration = [s \in Sender |-> 0]
    /\ changed = [s \in Sender |-> FALSE]
    /\ ready = [s \in Sender |-> {}]
    /\ sent = 0

-----------------------------------------------------------------------------
(* request_process_job_control_stop *)

\* complete_process_job_control_stop, under the process lock.
CompleteStop ==
    LET done == procStopped /\ stopPending = 0 /\ ~reported /\ stopSignal IN
    /\ reported' = (reported \/ done)
    /\ stopSignal' = (stopSignal /\ ~done)
    /\ waitStopped' = (waitStopped \/ done)

\* A stopped process and a zombie (here: one whose tasks all exited) stay as
\* they are.
StopProcess(s) ==
    /\ step[s] = "idle" /\ sent < MaxSignals
    /\ sent' = sent + 1
    /\ IF procStopped \/ \A t \in Task : status[t] = "Exited"
       THEN UNCHANGED <<procStopped, stopSignal, reported, waitContinued, step>>
       ELSE /\ procStopped' = TRUE /\ stopSignal' = TRUE
            /\ reported' = FALSE /\ waitContinued' = FALSE
            /\ step' = [step EXCEPT ![s] = "generation"]
    /\ UNCHANGED <<schedVars, waitStopped, ackVars, todo, removing, source,
                   stopGeneration, changed, ready>>

StopGeneration(s) ==
    /\ step[s] = "generation"
    /\ generation' = generation + 1
    /\ stopGeneration' = [stopGeneration EXCEPT ![s] = generation + 1]
    /\ step' = [step EXCEPT ![s] = "reset"]
    /\ UNCHANGED <<schedVars, stateVars, stopPending, ackGeneration, acking, todo,
                   removing, source, changed, ready, sent>>

StopReset(s) ==
    /\ step[s] = "reset"
    /\ stopPending' = 0
    /\ todo' = [todo EXCEPT ![s] = Task]
    /\ step' = [step EXCEPT ![s] = "gate"]
    /\ UNCHANGED <<schedVars, stateVars, generation, ackGeneration, acking, removing,
                   source, stopGeneration, changed, ready, sent>>

\* The gate is closed under the task lock; a running task owes an
\* acknowledgement.
StopGate(s) ==
    /\ step[s] = "gate" /\ removing[s] = NoTask
    /\ \E t \in todo[s] :
          /\ stopped' = [stopped EXCEPT ![t] = @ \/ status[t] # "Exited"]
          /\ IF status[t] # "Exited" /\ onCpu[t] # NoCpu
             THEN /\ ackGeneration' = [ackGeneration EXCEPT ![t] = stopGeneration[s]]
                  /\ stopPending' = stopPending + 1
             ELSE UNCHANGED <<ackGeneration, stopPending>>
          /\ todo' = [todo EXCEPT ![s] = @ \ {t}]
          /\ removing' = [removing EXCEPT ![s] = t]
    /\ UNCHANGED <<ungatedVars, stateVars, generation, acking, step, source,
                   stopGeneration, changed, ready, sent>>

\* remove_ready_task_for_job_stop reads where the task is queued,
StopFind(s) ==
    LET t == removing[s] IN
    /\ t # NoTask /\ source[s] = NoCpu
    /\ source' = [source EXCEPT ![s] = queuedCpu[t]]
    /\ removing' = [removing EXCEPT ![s] = IF queuedCpu[t] = NoCpu THEN NoTask ELSE t]
    /\ UNCHANGED <<schedVars, processVars, step, todo, stopGeneration, changed, ready,
                   sent>>

\* then locks that queue and takes the task off it if it is still there.
StopRemove(s) ==
    LET t == removing[s]  q == source[s]  found == t \in rq[q] IN
    /\ t # NoTask /\ q # NoCpu
    /\ rq' = [rq EXCEPT ![q] = @ \ {t}]
    /\ queuedCpu' = [queuedCpu EXCEPT ![t] = IF found THEN NoCpu ELSE @]
    /\ fault' = IF found /\ queuedCpu[t] = NoCpu
                THEN "removed task was not marked on a run queue" ELSE "none"
    /\ removing' = [removing EXCEPT ![s] = NoTask]
    /\ source' = [source EXCEPT ![s] = NoCpu]
    /\ UNCHANGED <<status, onCpu, wakePending, allowed, call, stopped, groupVars,
                   remote, cpuVars, signalVars, workVars, processVars, step, todo,
                   stopGeneration, changed, ready, sent>>

\* request_scheduler_preemption of every CPU,
StopPreempt(s) ==
    /\ step[s] = "gate" /\ todo[s] = {} /\ removing[s] = NoTask
    /\ wakeSignal' = [c \in CPU |-> TRUE]
    /\ ipi' = [c \in CPU |-> TRUE]
    /\ step' = [step EXCEPT ![s] = "complete"]
    /\ UNCHANGED <<taskVars, stopped, groupVars, rq, remote, cpuVars, irqs, workVars, fault,
                   processVars, todo, removing, source, stopGeneration, changed, ready,
                   sent>>

\* Mutant: only the last acknowledgement may complete a stop.
MutStopNeverCompletes(s) ==
    /\ step[s] = "complete"
    /\ step' = [step EXCEPT ![s] = "idle"]
    /\ UNCHANGED <<schedVars, processVars, todo, removing, source, stopGeneration,
                   changed, ready, sent>>

\* then the stop is complete if nobody owes an acknowledgement.
StopComplete(s) ==
    /\ step[s] = "complete"
    /\ CompleteStop
    /\ step' = [step EXCEPT ![s] = "idle"]
    /\ UNCHANGED <<schedVars, procStopped, waitContinued, ackVars, todo, removing,
                   source, stopGeneration, changed, ready, sent>>

-----------------------------------------------------------------------------
(* acknowledge_task_job_control_stop, in finish_current_switch *)

\* The task's debt is cleared under its lock.
Acknowledge(c) ==
    LET t == current[c]  owed == ackGeneration[t] IN
    /\ pc[c] = "ack" /\ stopped[t]
    /\ acking' = [acking EXCEPT ![c] = owed]
    /\ ackGeneration' = [ackGeneration EXCEPT ![t] = 0]
    /\ pc' = [pc EXCEPT ![c] = IF owed = 0 THEN "release" ELSE "match"]
    /\ UNCHANGED <<offPcVars, stateVars, generation, stopPending, senderVars>>

\* An acknowledgement of an older stop is dropped.
AckMatch(c) ==
    /\ pc[c] = "match"
    /\ pc' = [pc EXCEPT ![c] = IF generation = acking[c] THEN "count" ELSE "release"]
    /\ acking' = [acking EXCEPT ![c] = IF generation = @ THEN @ ELSE 0]
    /\ UNCHANGED <<offPcVars, stateVars, generation, stopPending, ackGeneration,
                   senderVars>>

\* The last one completes the stop.
AckCount(c) ==
    /\ pc[c] = "count"
    /\ stopPending' = IF stopPending > 0 THEN stopPending - 1 ELSE 0
    /\ pc' = [pc EXCEPT ![c] = IF stopPending = 1 THEN "report" ELSE "release"]
    /\ acking' = [acking EXCEPT ![c] = 0]
    /\ UNCHANGED <<offPcVars, stateVars, generation, ackGeneration, senderVars>>

AckReport(c) ==
    /\ pc[c] = "report"
    /\ CompleteStop
    /\ pc' = [pc EXCEPT ![c] = "release"]
    /\ UNCHANGED <<offPcVars, procStopped, waitContinued, ackVars, senderVars>>

-----------------------------------------------------------------------------
(* resume_process_from_job_control_stop *)

\* SIGCONT reports the continuation, SIGKILL does not.
ContProcess(s, report) ==
    /\ step[s] = "idle" /\ sent < MaxSignals
    /\ sent' = sent + 1
    /\ changed' = [changed EXCEPT ![s] = procStopped]
    /\ procStopped' = FALSE
    /\ stopSignal' = (stopSignal /\ ~procStopped)
    /\ reported' = (reported /\ ~procStopped)
    /\ waitContinued' = (waitContinued \/ (procStopped /\ report /\ reported))
    /\ step' = [step EXCEPT ![s] = "bump"]
    /\ UNCHANGED <<schedVars, waitStopped, ackVars, todo, removing, source,
                   stopGeneration, ready>>

ContGeneration(s) ==
    /\ step[s] = "bump"
    /\ generation' = generation + 1
    /\ step' = [step EXCEPT ![s] = "zero"]
    /\ UNCHANGED <<schedVars, stateVars, stopPending, ackGeneration, acking, todo,
                   removing, source, stopGeneration, changed, ready, sent>>

ContReset(s) ==
    /\ step[s] = "zero"
    /\ stopPending' = 0
    /\ todo' = [todo EXCEPT ![s] = Task]
    /\ step' = [step EXCEPT ![s] = "open"]
    /\ UNCHANGED <<schedVars, stateVars, generation, ackGeneration, acking, removing,
                   source, stopGeneration, changed, ready, sent>>

\* Mutant: a Ready task that was gated is not collected.
MutOpenOnly(s) ==
    /\ step[s] = "open"
    /\ \E t \in todo[s] :
          /\ stopped' = [stopped EXCEPT ![t] = FALSE]
          /\ ackGeneration' = [ackGeneration EXCEPT ![t] = 0]
          /\ todo' = [todo EXCEPT ![s] = @ \ {t}]
    /\ UNCHANGED <<ungatedVars, stateVars, generation, stopPending, acking, step,
                   removing, source, stopGeneration, changed, ready, sent>>

\* The gate is opened; a Ready task that is nowhere is going to be published.
ContOpen(s) ==
    /\ step[s] = "open"
    /\ \E t \in todo[s] :
          /\ stopped' = [stopped EXCEPT ![t] = FALSE]
          /\ ackGeneration' = [ackGeneration EXCEPT ![t] = 0]
          /\ ready' = [ready EXCEPT ![s] =
                IF changed[s] /\ status[t] = "Ready" /\ queuedCpu[t] = NoCpu
                              /\ onCpu[t] = NoCpu
                THEN @ \cup {t} ELSE @]
          /\ todo' = [todo EXCEPT ![s] = @ \ {t}]
    /\ UNCHANGED <<ungatedVars, stateVars, generation, stopPending, acking, step,
                   removing, source, stopGeneration, changed, sent>>

\* add_task.
ContAdd(s) ==
    /\ step[s] = "open" /\ todo[s] = {}
    /\ \E t \in ready[s] : \E d \in IdleOrAny(allowed[t]) :
          LET ok == fault' = "none" /\ ~stopped[t] IN
          /\ fault' = QueueFault(t)
          /\ Insert(t, d, ok)
          /\ wakeSignal' = [wakeSignal EXCEPT ![d] = TRUE]
          /\ ipi' = [ipi EXCEPT ![d] = @ \/ (idle[d] /\ ~wakeSignal[d])]
          /\ ready' = [ready EXCEPT ![s] = @ \ {t}]
    /\ UNCHANGED <<status, onCpu, wakePending, allowed, call, stopped, groupVars,
                   remote, cpuVars, irqs, workVars, processVars, step, todo, removing, source,
                   stopGeneration, changed, sent>>

ContDone(s) ==
    /\ step[s] = "open" /\ todo[s] = {} /\ ready[s] = {}
    /\ step' = [step EXCEPT ![s] = "idle"]
    /\ changed' = [changed EXCEPT ![s] = FALSE]
    /\ UNCHANGED <<schedVars, processVars, todo, removing, source, stopGeneration,
                   ready, sent>>

-----------------------------------------------------------------------------
\* What a sender does once it has started.
Continue(s) ==
    \/ StopGeneration(s) \/ StopReset(s) \/ StopGate(s) \/ StopFind(s) \/ StopRemove(s)
    \/ StopPreempt(s) \/ StopComplete(s)
    \/ ContGeneration(s) \/ ContReset(s) \/ ContOpen(s) \/ ContAdd(s) \/ ContDone(s)

Send(s) == StopProcess(s) \/ \E report \in BOOLEAN : ContProcess(s, report)

AckStep(c) == Acknowledge(c) \/ AckMatch(c) \/ AckCount(c) \/ AckReport(c)

SchedStep(c) == CpuStep(c) \/ SkipAck(c)

JNext ==
    /\ fault = "none"
    /\ \/ \E c \in CPU : /\ SchedStep(c) \/ Request(c) \/ Interrupt(c)
                         /\ UNCHANGED <<processVars, senderVars>>
       \/ \E c \in CPU : AckStep(c)
       \/ \E s \in Sender : Continue(s) \/ Send(s)

JSpec == JInit /\ [][JNext]_jobVars

\* Senders and CPUs keep executing; a task that keeps its CPU busy is made to
\* yield by the tick, and an interrupt handler ends.
JFairness ==
    /\ \A s \in Sender : WF_jobVars(fault = "none" /\ Continue(s))
    /\ \A c \in CPU :
          /\ WF_jobVars(/\ fault = "none"
                        /\ \/ SchedStep(c) /\ UNCHANGED <<processVars, senderVars>>
                           \/ AckStep(c))
          /\ SF_jobVars(fault = "none" /\ (LeaveIrq(c) \/ Leave(c, "Yield"))
                           /\ UNCHANGED <<processVars, senderVars>>)

JFairSpec == JSpec /\ JFairness

-----------------------------------------------------------------------------
\* The type invariant; with one sender at a time, no more acknowledgements are
\* counted than there are tasks, and never fewer than none.
JTypeOK ==
    /\ pc \in [CPU -> Place \cup {"match", "count", "report"}]
    /\ procStopped \in BOOLEAN /\ stopSignal \in BOOLEAN /\ reported \in BOOLEAN
    /\ waitStopped \in BOOLEAN /\ waitContinued \in BOOLEAN
    /\ generation \in 0 .. MaxSignals
    /\ stopPending \in 0 .. Cardinality(Task)
    /\ ackGeneration \in [Task -> 0 .. MaxSignals]
    /\ acking \in [CPU -> 0 .. MaxSignals]
    /\ step \in [Sender -> {"idle", "generation", "reset", "gate", "complete", "bump",
                            "zero", "open"}]
    /\ todo \in [Sender -> SUBSET Task] /\ ready \in [Sender -> SUBSET Task]
    /\ removing \in [Sender -> Task \cup {NoTask}]
    /\ source \in [Sender -> CPU \cup {NoCpu}]
    /\ stopGeneration \in [Sender -> 0 .. MaxSignals]
    /\ changed \in [Sender -> BOOLEAN]
    /\ sent \in 0 .. MaxSignals

SendersIdle == \A s \in Sender : step[s] = "idle"

\* "This running task still owes the process-wide group-stop generation an
\* acknowledgement at switch completion": a gated task that runs has its debt,
\* which no CPU but the one it runs on settles.  It fails with one task, one
\* sender and three signals: a CPU the task has left settles the debt it has
\* on the next one.
GatedRunnerOwes ==
    \A t \in Task : stopped[t] /\ onCpu[t] # NoCpu /\ status[t] # "Exited" =>
                        ackGeneration[t] # 0

\* A Ready task whose gate is open is on its way to a CPU, or a continue that is
\* still going on will publish it: stops and continues that follow one another
\* lose no task, wherever the scheduler had it.
ContinuedIsHeld ==
    fault = "none" =>
        \A t \in Task : status[t] = "Ready" /\ ~stopped[t] =>
            Holders(t) # {} \/ \E s \in Sender : t \in ready[s]

\* "Each task also carries a scheduler gate so ordinary wakeups cannot publish it
\* while this flag is set": when every sender is done, a stopped process has all
\* its tasks gated.  It holds for one sender, and fails for two: a continue that
\* overlaps a stop opens the gates of a process that stays stopped.
GatedWhileStopped ==
    procStopped /\ SendersIdle => \A t \in Task : status[t] # "Exited" => stopped[t]

\* A task that "still owes the process-wide group-stop generation an
\* acknowledgement": the stop has not been reported as complete.  It fails with
\* two tasks: the first settles its debt before the second has been counted.
ReportedIsComplete ==
    reported => \A t \in Task : ~(ackGeneration[t] = generation /\ onCpu[t] # NoCpu
                                  /\ status[t] # "Exited")

\* A stop that is not undone is reported to the parent in the end, although the
\* tasks it waits for are running, blocking or being woken.
StopReported ==
    procStopped ~> (reported \/ ~procStopped \/ fault # "none")

=============================================================================
