----------------------------- MODULE Scheduler -----------------------------
(***************************************************************************)
(* The SMP scheduler: per-CPU run queues and remote wake lists             *)
(* (task/sched.rs), the run loop with its deferred switch and its idle     *)
(* handshake (task/processor.rs) and the wake signals (cpu.rs).            *)
(*                                                                         *)
(* A task's on_rq and queued_cpu fields are always written together, so    *)
(* queuedCpu alone stands for both; remote-wake membership (`linked') is   *)
(* membership in some CPU's remote list.  Queue order (priority, vruntime) *)
(* is left open: a fetch may take any claimable task.  So are last_cpu and *)
(* the two CPUs a placement samples when no CPU is idle.                   *)
(*                                                                         *)
(* A failed assertion of the source panics the kernel; here it sets        *)
(* `fault' and nothing happens after it.                                   *)
(***************************************************************************)
EXTENDS Integers, FiniteSets, TLC

CONSTANTS CPU,          \* online CPUs
          Task,         \* tasks, all of one process
          Masks,        \* masks sched_setaffinity may install
          TimerCpu,     \* the CPU whose tick is never suppressed
          Interrupted,  \* CPUs that other parts of the kernel interrupt too
          LeaveIrqs,    \* interrupt states tasks leave the CPU in: BOOLEAN on
                        \* RISC-V; {TRUE} stands for LoongArch, whose idle
                        \* instruction enables interrupts whatever they were
          NoCpu, NoTask \* None

ASSUME CpuAssumption == CPU # {} /\ IsFiniteSet(CPU) /\ TimerCpu \in CPU
ASSUME InterruptedAssumption == Interrupted \subseteq CPU
ASSUME LeaveIrqsAssumption == LeaveIrqs \subseteq BOOLEAN /\ LeaveIrqs # {}
ASSUME TaskAssumption == IsFiniteSet(Task)
ASSUME MasksAssumption == Masks \subseteq (SUBSET CPU) \ {{}}

ASSUME NoneAssumption == NoCpu \notin CPU /\ NoTask \notin Task

VARIABLES
    status,         \* TaskStatus
    queuedCpu,      \* on_rq and queued_cpu
    onCpu,          \* the CPU whose kernel stack switch still owns the task
    wakePending,    \* a wakeup that arrived before the switch completed
    allowed,        \* allowed_cpus
    stopped,        \* the task-local job_control_stopped gate
    exclusive,      \* the process's exclusive_task
    running,        \* the process's running_tasks
    switching,      \* the process's switching_tasks
    rq,             \* RUN_QUEUES
    remote,         \* REMOTE_WAKE_LISTS
    pc,             \* where each CPU is in run_tasks
    current,        \* Processor::current
    reason,         \* Processor::pending_switch
    victim,         \* the queue a steal has chosen
    idle,           \* PROCESSOR_IDLE
    wakeSignal,     \* SCHEDULER_SIGNALS[cpu].wake_pending
    ipi,            \* a pending inter-processor interrupt
    irqs,           \* interrupts are enabled in the run loop
    place,          \* placements this CPU has decided and not yet made
    notify,         \* the CPU this CPU still has to signal
    swapped,        \* that CPU had no wakeup pending: check whether it is idle
    call,           \* the sched_setaffinity call each task is in
    fault           \* the assertion that failed, "none" otherwise

taskVars == <<status, queuedCpu, onCpu, wakePending, allowed, call>>
groupVars == <<exclusive, running, switching>>
cpuVars == <<pc, current, reason, victim, idle>>
signalVars == <<wakeSignal, ipi, irqs>>
workVars == <<place, notify, swapped>>
vars == <<taskVars, stopped, groupVars, rq, remote, cpuVars, signalVars,
          workVars, fault>>

NoCall == [step |-> "none", task |-> NoTask, mask |-> {}, ran |-> NoCpu,
           src |-> NoCpu, dst |-> NoCpu]
Call == [step : {"none", "choose", "move", "preempt", "wake"},
         task : Task \cup {NoTask}, mask : SUBSET CPU, ran : CPU \cup {NoCpu},
         src : CPU \cup {NoCpu}, dst : CPU \cup {NoCpu}]
Placement == [task : Task, target : CPU, via : {"wake", "direct"}]
Place == {"drain", "fetch", "steal", "pull", "run", "switch", "ack", "release",
          "requeue", "publish", "check1", "check2", "wfi", "irq"}

Linked(t) == \E c \in CPU : t \in remote[c]
\* claim_for_cpu drops these from the queue instead of running them.
Gone(t) == status[t] = "Exited" \/ stopped[t]
\* The placements and the notifications the CPU owes are made before anything
\* else happens on it.
Quiet(c) == place[c] = {} /\ notify[c] = NoCpu
\* A task runs on c and is not inside a system call of this model.
InTask(c) == pc[c] = "run" /\ Quiet(c) /\ call[current[c]].step = "none"

\* Some tasks have been published by add_task, the others are still to be
\* cloned; the CPUs enter run_tasks.
Init ==
    /\ \E born \in (SUBSET Task) \ {{}} : \E home \in [born -> CPU] :
          /\ status = [t \in Task |-> IF t \in born THEN "Ready" ELSE "New"]
          /\ queuedCpu = [t \in Task |-> IF t \in born THEN home[t] ELSE NoCpu]
          /\ rq = [c \in CPU |-> {t \in born : home[t] = c}]
    /\ onCpu = [t \in Task |-> NoCpu]
    /\ wakePending = [t \in Task |-> FALSE]
    /\ allowed = [t \in Task |-> CPU]
    /\ call = [t \in Task |-> NoCall]
    /\ stopped = [t \in Task |-> FALSE]
    /\ exclusive = NoTask /\ running = 0 /\ switching = 0
    /\ remote = [c \in CPU |-> {}]
    /\ pc = [c \in CPU |-> "drain"]
    /\ current = [c \in CPU |-> NoTask]
    /\ reason = [c \in CPU |-> "none"]
    /\ victim = [c \in CPU |-> NoCpu]
    /\ idle = [c \in CPU |-> FALSE]
    /\ wakeSignal = [c \in CPU |-> FALSE]
    /\ ipi = [c \in CPU |-> FALSE]
    /\ irqs = [c \in CPU |-> TRUE]
    /\ place = [c \in CPU |-> {}]
    /\ notify = [c \in CPU |-> NoCpu]
    /\ swapped = [c \in CPU |-> FALSE]
    /\ fault = "none"

-----------------------------------------------------------------------------
(***************************************************************************)
(* Placement: a CPU that made tasks Ready puts each on the queue it chose, *)
(* its own or another's under that queue's lock, or pushes it on the       *)
(* remote wake list of the CPU; then it signals that CPU.                  *)
(***************************************************************************)
\* mark_queued_on: the assertions, in order.
QueueFault(t) ==
    CASE status[t] # "Ready"   -> "only Ready tasks may enter the run queue"
      [] queuedCpu[t] # NoCpu  -> "task is already on a run queue"
      [] onCpu[t] # NoCpu      -> "running task cannot enter a run queue"
      [] OTHER                 -> "none"

\* Mutant: the owner of the queue is not noted in the task.
MutInsert(t, d, ok) ==
    /\ rq' = [rq EXCEPT ![d] = IF ok THEN @ \cup {t} ELSE @]
    /\ queuedCpu' = queuedCpu

\* enqueue: the task is on d's queue, wherever its priority puts it.
Insert(t, d, ok) ==
    /\ rq' = [rq EXCEPT ![d] = IF ok THEN @ \cup {t} ELSE @]
    /\ queuedCpu' = [queuedCpu EXCEPT ![t] = IF ok THEN d ELSE @]

Enqueue(c) ==
    \E p \in place[c] :
        LET t == p.task  d == p.target  ok == fault' = "none" /\ ~stopped[t] IN
        /\ notify[c] = NoCpu
        /\ p.via = "direct" \/ d = c
        /\ fault' = QueueFault(t)
        /\ Insert(t, d, ok)
        /\ place' = [place EXCEPT ![c] = @ \ {p}]
        /\ notify' = [notify EXCEPT ![c] = IF d = c THEN @ ELSE d]
        /\ UNCHANGED <<status, onCpu, wakePending, allowed, call, stopped,
                       groupVars, remote, cpuVars, signalVars, swapped>>

PushRemote(c) ==
    \E p \in place[c] :
        /\ notify[c] = NoCpu
        /\ p.via = "wake" /\ p.target # c
        /\ fault' = IF Linked(p.task)
                    THEN "task already owns a linked remote-wake node" ELSE "none"
        /\ remote' = [remote EXCEPT ![p.target] = @ \cup {p.task}]
        /\ place' = [place EXCEPT ![c] = @ \ {p}]
        /\ notify' = [notify EXCEPT ![c] = p.target]
        /\ UNCHANGED <<taskVars, stopped, groupVars, rq, cpuVars, signalVars,
                       swapped>>

\* wake_scheduler_cpu_remote: publish wake_pending, then, when it was not
\* already set, interrupt the CPU if it has published itself idle.
NotifySwap(c) ==
    /\ notify[c] # NoCpu /\ ~swapped[c]
    /\ LET d == notify[c] IN
       /\ wakeSignal' = [wakeSignal EXCEPT ![d] = TRUE]
       /\ swapped' = [swapped EXCEPT ![c] = ~wakeSignal[d]]
       /\ notify' = [notify EXCEPT ![c] = IF wakeSignal[d] THEN NoCpu ELSE @]
    /\ UNCHANGED <<taskVars, stopped, groupVars, rq, remote, cpuVars, ipi, irqs,
                   place, fault>>

NotifyIpi(c) ==
    /\ notify[c] # NoCpu /\ swapped[c]
    /\ LET d == notify[c] IN
       ipi' = [ipi EXCEPT ![d] = @ \/ idle[d]]
    /\ swapped' = [swapped EXCEPT ![c] = FALSE]
    /\ notify' = [notify EXCEPT ![c] = NoCpu]
    /\ UNCHANGED <<taskVars, stopped, groupVars, rq, remote, cpuVars, wakeSignal,
                   irqs, place, fault>>

-----------------------------------------------------------------------------
(***************************************************************************)
(* fetch_task: drain the remote list, fetch from the own queue, else steal *)
(***************************************************************************)
\* choose_run_queue, of a task with the mask m.  An idle CPU of the mask is
\* preferred to a sample of the others,
IdleIn(m) == {d \in m : idle[d]}
IdleOrAny(m) == IF IdleIn(m) # {} THEN IdleIn(m) ELSE m

\* PlacementKind::New, on CPU c: here when nothing is queued here, or nobody is
\* idle.
NewHomes(c, m) ==
    IF c \notin m THEN IdleOrAny(m)
    ELSE IF rq[c] = {} \/ IdleIn(m) = {} THEN {c} ELSE IdleIn(m)

\* PlacementKind::Wake, on CPU c: where the task ran last if that CPU is idle, else
\* here when at most one task is queued here.
WakeHomes(c, m) ==
    IdleIn(m) \cup (IF c \in m /\ Cardinality(rq[c]) <= 1 THEN {c} ELSE IdleOrAny(m))

\* PlacementKind::Affinity: where it was, if it may stay there.
AffinityHomes(source, m) == IF source \in m THEN {source} ELSE IdleOrAny(m)

\* Mutant: an entry for another CPU is dropped like a stale one.
MutLive(c) ==
    {t \in remote[c] : /\ ~Gone(t) /\ queuedCpu[t] = NoCpu /\ onCpu[t] = NoCpu
                       /\ c \in allowed[t]}

\* add_remote: an entry whose task exited, is stopped, or is queued or running
\* already is stale.
Live(c) == {t \in remote[c] : ~Gone(t) /\ queuedCpu[t] = NoCpu /\ onCpu[t] = NoCpu}

\* drain_remote_wakes: a stale entry is dropped; one whose mask no longer has
\* this CPU is placed again.
Drain(c) ==
    LET live == Live(c)
        moved == {t \in live : c \notin allowed[t]}
        kept == live \ moved IN
    /\ pc[c] = "drain"
    /\ fault' = IF \A t \in live : status[t] = "Ready"
                THEN "none" ELSE "remote wake-list contained a non-ready task"
    /\ \E target \in [moved -> CPU] :
          /\ \A t \in moved : target[t] \in WakeHomes(c, allowed[t])
          /\ place' = [place EXCEPT ![c] =
                {[task |-> t, target |-> target[t], via |-> "wake"] : t \in moved}]
    /\ rq' = [rq EXCEPT ![c] = @ \cup kept]
    /\ queuedCpu' = [t \in Task |-> IF t \in kept THEN c ELSE queuedCpu[t]]
    /\ remote' = [remote EXCEPT ![c] = {}]
    /\ pc' = [pc EXCEPT ![c] = "fetch"]
    /\ UNCHANGED <<status, onCpu, wakePending, allowed, call, stopped, groupVars,
                   current, reason, victim, idle, signalVars, notify, swapped>>

\* claim_for_cpu: the mask and the process's exclusion make a task ineligible.
Claimable(t, c) ==
    ~Gone(t) /\ c \in allowed[t] /\ exclusive \in {NoTask, t}

ClaimFault(t, q) ==
    CASE status[t] # "Ready"   -> "run queue contained a non-ready task"
      [] queuedCpu[t] # q      -> "run-queue task has the wrong queue owner"
      [] onCpu[t] # NoCpu      -> "run-queue task is already running"
      [] OTHER                 -> "none"

\* run_tasks switches to the task it fetched, which runs with interrupts enabled.
Run(c, t) ==
    /\ current' = [current EXCEPT ![c] = t]
    /\ victim' = [victim EXCEPT ![c] = NoCpu]
    /\ irqs' = [irqs EXCEPT ![c] = TRUE]
    /\ pc' = [pc EXCEPT ![c] = "run"]

\* Claim t from queue q for CPU c, moving `batch' to c's own queue and dropping
\* the entries of `pruned' met on the way.
Take(c, q, t, batch, pruned) ==
    /\ fault' = ClaimFault(t, q)
    /\ rq' = [d \in CPU |-> IF d = q THEN rq[d] \ (pruned \cup batch \cup {t})
                            ELSE IF d = c THEN (rq[d] \cup batch) \ pruned
                            ELSE rq[d]]
    /\ queuedCpu' = [u \in Task |-> IF u \in pruned \cup {t} THEN NoCpu
                                    ELSE IF u \in batch THEN c ELSE queuedCpu[u]]
    /\ onCpu' = [onCpu EXCEPT ![t] = c]
    /\ status' = [status EXCEPT ![t] = "Running"]
    /\ running' = running + 1
    /\ Run(c, t)
    /\ UNCHANGED <<wakePending, allowed, call, stopped, exclusive, switching,
                   remote, reason, idle, wakeSignal, ipi, workVars>>

\* No task was claimed: the entries in `pruned' are dropped, and c goes on.
TakeNothing(c, pruned, next) ==
    /\ rq' = [d \in CPU |-> rq[d] \ pruned]
    /\ queuedCpu' = [u \in Task |-> IF u \in pruned THEN NoCpu ELSE queuedCpu[u]]
    /\ victim' = [victim EXCEPT ![c] = NoCpu]
    /\ pc' = [pc EXCEPT ![c] = next]
    /\ UNCHANGED <<status, onCpu, wakePending, allowed, call, stopped, groupVars,
                   remote, current, reason, idle, signalVars, workVars, fault>>

GoneIn(q) == {t \in rq[q] : Gone(t)}
ClaimableIn(q, c) == {t \in rq[q] : Claimable(t, c)}

Fetch(c) ==
    /\ pc[c] = "fetch" /\ Quiet(c)
    /\ \E t \in ClaimableIn(c, c) : \E pruned \in SUBSET GoneIn(c) :
          Take(c, c, t, {}, pruned)

FetchNothing(c) ==
    /\ pc[c] = "fetch" /\ Quiet(c)
    /\ ClaimableIn(c, c) = {}
    /\ TakeNothing(c, GoneIn(c), "steal")

\* publish_run_queue_state keeps the masks under the queue's lock:
\* RUNNABLE_QUEUES has the queues of one task, OVERLOADED_QUEUES those of two.
QueuesOf(n) == {d \in CPU : Cardinality(rq[d]) >= n}

\* The masks are read before any queue is locked.
ChooseVictim(c) ==
    LET overloaded == QueuesOf(2) \ {c}
        candidates == IF overloaded # {} THEN overloaded ELSE QueuesOf(1) \ {c} IN
    /\ pc[c] = "steal"
    /\ IF candidates = {}
       THEN pc' = [pc EXCEPT ![c] = "publish"] /\ UNCHANGED victim
       ELSE /\ \E d \in candidates : victim' = [victim EXCEPT ![c] = d]
            /\ pc' = [pc EXCEPT ![c] = "pull"]
    /\ UNCHANGED <<taskVars, stopped, groupVars, rq, remote, current, reason,
                   idle, signalVars, workVars, fault>>

STEAL_BATCH_MAX == 4
STEAL_TASK_SCAN_BUDGET == 8

\* steal_candidate_relevant, of a task that is still Ready.
Relevant(q, c) == {t \in rq[q] : ~Gone(t) /\ c \in allowed[t]}

\* steal_normal_batch_to: what may come along with the task t claimed from v's
\* queue, at most half of what v has more than c.
Batches(c, v, t) ==
    LET excess == Cardinality(rq[v]) - Cardinality(rq[c] \ GoneIn(c)) IN
    {b \in SUBSET (Relevant(v, c) \ {t}) :
        \/ b = {}
        \/ Cardinality(b) < STEAL_BATCH_MAX /\ Cardinality(b) < excess \div 2}

\* steal_batch_from, with both queues locked: the own queue is tried again,
PullOwn(c) ==
    /\ pc[c] = "pull"
    /\ \E t \in ClaimableIn(c, c) : \E pruned \in SUBSET GoneIn(c) :
          Take(c, c, t, {}, pruned)

\* then the victim's; with the claimed task come other Ready tasks c may run,
PullTask(c) ==
    LET v == victim[c] IN
    /\ pc[c] = "pull"
    /\ ClaimableIn(c, c) = {}
    /\ \E t \in ClaimableIn(v, c) : \E batch \in Batches(c, v, t) :
       \E pruned \in SUBSET GoneIn(v) :
          Take(c, v, t, batch, pruned \cup GoneIn(c))

\* but nothing when the victim is empty by now, when it is idle, has one task
\* and the load is low (scheduler_low_concurrency_mode is left open), when the
\* first task c may run is excluded by its process, or when the scan budget is
\* used up: each entry dropped starts the scan over the tasks c may not run again.
MayGiveUp(c, v) ==
    LET relevant == Relevant(v, c)
        dropped == Cardinality(GoneIn(v))
        skipped == Cardinality(rq[v] \ (relevant \cup GoneIn(v))) IN
    \/ relevant \ ClaimableIn(v, c) # {}
    \/ relevant = {}
    \/ Cardinality(rq[v]) = 1 /\ idle[v]
    \/ (skipped + 1) * dropped + skipped >= STEAL_TASK_SCAN_BUDGET

PullNothing(c) ==
    LET v == victim[c] IN
    /\ pc[c] = "pull"
    /\ ClaimableIn(c, c) = {}
    /\ MayGiveUp(c, v)
    /\ \E pruned \in SUBSET GoneIn(v) :
          TakeNothing(c, pruned \cup GoneIn(c), "publish")

-----------------------------------------------------------------------------
(***************************************************************************)
(* The idle branch of run_tasks, with interrupts disabled                  *)
(***************************************************************************)
PublishIdle(c) ==
    /\ pc[c] = "publish"
    /\ idle' = [idle EXCEPT ![c] = TRUE]
    /\ pc' = [pc EXCEPT ![c] = "check1"]
    /\ UNCHANGED <<taskVars, stopped, groupVars, rq, remote, current, reason,
                   victim, signalVars, workVars, fault>>

\* Mutant: only the signal is looked at, which an interrupt may have taken.
MutWakeWaiting(c) == wakeSignal[c]

\* A remote entry counts as a signal (remote_wake_pending).
WakeWaiting(c) == wakeSignal[c] \/ remote[c] # {}

\* take_scheduler_wake, before and after the idle timer is prepared.
CheckWake(c) ==
    /\ pc[c] \in {"check1", "check2"}
    /\ LET pending == WakeWaiting(c) IN
       /\ wakeSignal' = [wakeSignal EXCEPT ![c] = FALSE]
       /\ idle' = [idle EXCEPT ![c] = ~pending]
       /\ pc' = [pc EXCEPT ![c] = IF pending THEN "drain"
                                  ELSE IF @ = "check1" THEN "check2" ELSE "wfi"]
    /\ UNCHANGED <<taskVars, stopped, groupVars, rq, remote, current, reason,
                   victim, ipi, irqs, workVars, fault>>

\* The sleeping CPU resumes on a pending interrupt.  Only TimerCpu keeps its
\* tick while idle (prepare_idle_timer).  The handler runs once the guard gives
\* the loop its interrupts back, if it had them; that of an inter-processor
\* interrupt takes the wake signal (handle_ipi).
LeaveWfi(c) ==
    /\ pc[c] = "wfi"
    /\ ipi[c] \/ c = TimerCpu
    /\ idle' = [idle EXCEPT ![c] = FALSE]
    /\ ipi' = [ipi EXCEPT ![c] = @ /\ ~irqs[c]]
    /\ wakeSignal' = [wakeSignal EXCEPT ![c] = @ /\ ~(ipi[c] /\ irqs[c])]
    /\ pc' = [pc EXCEPT ![c] = IF irqs[c] THEN "irq" ELSE "drain"]
    /\ UNCHANGED <<taskVars, stopped, groupVars, rq, remote, current, reason,
                   victim, irqs, workVars, fault>>

\* The interrupt handler is done; so are the wakeups it made.
LeaveIrq(c) ==
    /\ pc[c] = "irq" /\ Quiet(c)
    /\ pc' = [pc EXCEPT ![c] = "drain"]
    /\ UNCHANGED <<taskVars, stopped, groupVars, rq, remote, current, reason,
                   victim, idle, signalVars, workVars, fault>>

\* handle_ipi on a CPU that is awake.  The processor lock masks interrupts while
\* the loop looks for a task, the guard of the idle branch from there on; in
\* between, at "publish", and everywhere else they are taken.
TakeIpi(c) ==
    /\ pc[c] \notin {"fetch", "steal", "pull", "check1", "check2", "wfi", "irq"}
    /\ ipi[c] /\ irqs[c]
    /\ ipi' = [ipi EXCEPT ![c] = FALSE]
    /\ wakeSignal' = [wakeSignal EXCEPT ![c] = FALSE]
    /\ UNCHANGED <<taskVars, stopped, groupVars, rq, remote, cpuVars, irqs, workVars,
                   fault>>

\* An interrupt that is not about a wakeup of this model: remote
\* synchronisation, a TLB shootdown, or a realtime wakee's need_resched.
OtherIpi(c) ==
    /\ c \in Interrupted /\ ~ipi[c]
    /\ ipi' = [ipi EXCEPT ![c] = TRUE]
    /\ UNCHANGED <<taskVars, stopped, groupVars, rq, remote, cpuVars, wakeSignal,
                   irqs, workVars, fault>>

-----------------------------------------------------------------------------
(***************************************************************************)
(* Leaving the CPU: prepare_current_switch on the task's stack, then       *)
(* finish_current_switch on the idle stack                                 *)
(***************************************************************************)
PrepareFault(t, c) ==
    CASE status[t] # "Running"  -> "only a Running task may prepare a switch"
      [] onCpu[t] # c           -> "current task is owned by another CPU"
      [] queuedCpu[t] # NoCpu   -> "current task is also on a run queue"
      [] wakePending[t]         -> "running task retained a wakeup"
      [] OTHER                  -> "none"

PrepareSwitch(c, why) ==
    LET t == current[c] IN
    /\ fault' = PrepareFault(t, c)
    /\ status' = [status EXCEPT ![t] = CASE why = "Block" -> "Blocked"
                                         [] why = "Exit"  -> "Exited"
                                         [] OTHER         -> @]
    /\ switching' = switching + 1
    /\ reason' = [reason EXCEPT ![c] = why]
    /\ pc' = [pc EXCEPT ![c] = "switch"]

\* __switch does not touch the interrupt state: a task that leaves from a system
\* call leaves interrupts enabled to the run loop, one that is preempted in an
\* interrupt handler leaves them disabled.
Leave(c, why) ==
    /\ InTask(c)
    /\ PrepareSwitch(c, why)
    /\ \E enabled \in LeaveIrqs : irqs' = [irqs EXCEPT ![c] = enabled]
    /\ UNCHANGED <<queuedCpu, onCpu, wakePending, allowed, call, stopped,
                   exclusive, running, rq, remote, current, victim, idle,
                   wakeSignal, ipi, workVars>>

SwitchFault(t, c, why) ==
    CASE onCpu[t] # c           -> "switch completion observed the wrong CPU owner"
      [] queuedCpu[t] # NoCpu   -> "switching task was queued before switch completion"
      [] why = "Yield" /\ (status[t] # "Running" \/ wakePending[t]) -> "yield"
      [] why = "Block" /\ status[t] # "Blocked"                     -> "block"
      [] why = "Exit" /\ (status[t] # "Exited" \/ wakePending[t])   -> "exit"
      [] OTHER                  -> "none"

\* The task gives up the CPU; a yielding task, and a blocked one that was woken
\* meanwhile, become Ready and are placed unless they are stopped.
FinishSwitch(c) ==
    LET t == current[c]
        why == reason[c]
        again == why = "Yield" \/ (why = "Block" /\ wakePending[t]) IN
    /\ pc[c] = "switch"
    /\ fault' = SwitchFault(t, c, why)
    /\ onCpu' = [onCpu EXCEPT ![t] = NoCpu]
    /\ status' = [status EXCEPT ![t] = IF again THEN "Ready" ELSE @]
    /\ wakePending' = [wakePending EXCEPT ![t] = FALSE]
    /\ reason' = [reason EXCEPT ![c] = IF again /\ ~stopped[t] THEN @ ELSE "none"]
    /\ pc' = [pc EXCEPT ![c] = "ack"]
    /\ UNCHANGED <<queuedCpu, allowed, call, stopped, groupVars, rq, remote,
                   current, victim, idle, signalVars, workVars>>

\* acknowledge_task_job_control_stop has nothing to do for a task that is not
\* stopped; module JobControl has the other case.
SkipAck(c) ==
    /\ pc[c] = "ack" /\ ~stopped[current[c]]
    /\ pc' = [pc EXCEPT ![c] = "release"]
    /\ UNCHANGED <<taskVars, stopped, groupVars, rq, remote, current, reason,
                   victim, idle, signalVars, workVars, fault>>

\* release_scheduler_task, then the queue for the task is chosen: a yielding
\* task stays here if its mask lets it.
ReleaseTask(c) ==
    LET t == current[c]
        homes == IF reason[c] = "Yield" THEN AffinityHomes(c, allowed[t])
                 ELSE WakeHomes(c, allowed[t])
        via == IF reason[c] = "Yield" THEN "direct" ELSE "wake" IN
    /\ pc[c] = "release"
    /\ running' = running - 1
    /\ \E d \in homes :
          place' = [place EXCEPT ![c] = IF reason[c] = "none" THEN {}
                       ELSE {[task |-> t, target |-> d, via |-> via]}]
    /\ current' = [current EXCEPT ![c] = NoTask]
    /\ reason' = [reason EXCEPT ![c] = "none"]
    /\ pc' = [pc EXCEPT ![c] = "requeue"]
    /\ UNCHANGED <<taskVars, stopped, exclusive, switching, rq, remote, victim,
                   idle, signalVars, notify, swapped, fault>>

\* finish_scheduler_switch, once the task is queued.
SwitchDone(c) ==
    /\ pc[c] = "requeue" /\ Quiet(c)
    /\ switching' = switching - 1
    /\ pc' = [pc EXCEPT ![c] = "drain"]
    /\ UNCHANGED <<taskVars, stopped, exclusive, running, rq, remote, current,
                   reason, victim, idle, signalVars, workVars, fault>>

-----------------------------------------------------------------------------
(***************************************************************************)
(* Waking a task, from a running task or from an interrupt handler         *)
(***************************************************************************)
WakeFault(u) ==
    CASE queuedCpu[u] # NoCpu                  -> "blocked task is still on a run queue"
      [] onCpu[u] = NoCpu /\ wakePending[u]    -> "off-CPU task retained a wakeup"
      [] OTHER                                 -> "none"

\* The task is still switching out: its CPU will requeue it.
WakeSwitching(c, u) ==
    /\ pc[c] = "irq" \/ pc[c] = "run"
    /\ Quiet(c)
    /\ status[u] = "Blocked" /\ onCpu[u] # NoCpu /\ ~wakePending[u]
    /\ fault' = WakeFault(u)
    /\ wakePending' = [wakePending EXCEPT ![u] = TRUE]
    /\ UNCHANGED <<status, queuedCpu, onCpu, allowed, call, stopped, groupVars,
                   rq, remote, cpuVars, signalVars, workVars>>

\* The task is off its CPU: it becomes Ready and, unless stopped, is placed.
WakeBlocked(c, u) ==
    /\ pc[c] = "irq" \/ pc[c] = "run"
    /\ Quiet(c)
    /\ status[u] = "Blocked" /\ onCpu[u] = NoCpu
    /\ fault' = WakeFault(u)
    /\ status' = [status EXCEPT ![u] = "Ready"]
    /\ \E d \in WakeHomes(c, allowed[u]) :
          place' = [place EXCEPT ![c] = IF stopped[u] THEN {}
                       ELSE {[task |-> u, target |-> d, via |-> "wake"]}]
    /\ UNCHANGED <<queuedCpu, onCpu, wakePending, allowed, call, stopped,
                   groupVars, rq, remote, cpuVars, signalVars, notify, swapped>>

\* clone: the new task has its parent's mask and is published by add_task.
Spawn(c, u) ==
    /\ InTask(c)
    /\ status[u] = "New"
    /\ status' = [status EXCEPT ![u] = "Ready"]
    /\ allowed' = [allowed EXCEPT ![u] = allowed[current[c]]]
    /\ \E d \in NewHomes(c, allowed[current[c]]) :
          place' = [place EXCEPT ![c] = {[task |-> u, target |-> d, via |-> "direct"]}]
    /\ UNCHANGED <<queuedCpu, onCpu, wakePending, call, stopped, groupVars, rq,
                   remote, cpuVars, signalVars, notify, swapped, fault>>

-----------------------------------------------------------------------------
(***************************************************************************)
(* sched_setaffinity of task u by the task running on c                    *)
(***************************************************************************)
\* The mask is stored under the task lock, together with where the task runs.
SetAffinity(c, u, mask) ==
    /\ InTask(c)
    /\ status[u] \notin {"New", "Exited"}
    /\ allowed' = [allowed EXCEPT ![u] = mask]
    /\ call' = [call EXCEPT ![current[c]] =
          [NoCall EXCEPT !.step = "choose", !.task = u, !.mask = mask,
                         !.ran = onCpu[u]]]
    /\ UNCHANGED <<status, queuedCpu, onCpu, wakePending, stopped, groupVars, rq,
                   remote, cpuVars, signalVars, workVars, fault>>

\* migrate_ready_task reads where the task is queued and chooses a queue,
ChooseHome(c) ==
    LET t == current[c]  u == call[t].task  src == queuedCpu[u] IN
    /\ pc[c] = "run" /\ Quiet(c) /\ call[t].step = "choose"
    /\ \E dst \in AffinityHomes(src, allowed[u]) :
          call' = [call EXCEPT ![t] =
             IF src = NoCpu \/ src = dst THEN [@ EXCEPT !.step = "preempt"]
             ELSE [@ EXCEPT !.step = "move", !.src = src, !.dst = dst]]
    /\ UNCHANGED <<status, queuedCpu, onCpu, wakePending, allowed, stopped,
                   groupVars, rq, remote, cpuVars, signalVars, workVars, fault>>

\* then locks both queues, and moves the task if it is still there.
MoveHome(c) ==
    LET t == current[c]  u == call[t].task
        src == call[t].src  dst == call[t].dst
        found == u \in rq[src]
        moved == found /\ status[u] # "Exited" IN
    /\ pc[c] = "run" /\ Quiet(c) /\ call[t].step = "move"
    /\ fault' = IF moved THEN ClaimFault(u, src) ELSE "none"
    /\ rq' = [d \in CPU |-> IF d = src THEN rq[d] \ {u}
                            ELSE IF d = dst /\ moved THEN rq[d] \cup {u}
                            ELSE rq[d]]
    /\ queuedCpu' = [queuedCpu EXCEPT ![u] = IF moved THEN dst
                                             ELSE IF found THEN NoCpu ELSE @]
    /\ notify' = [notify EXCEPT ![c] = IF moved /\ dst # c THEN dst ELSE @]
    /\ call' = [call EXCEPT ![t].step = "preempt"]
    /\ UNCHANGED <<status, onCpu, wakePending, allowed, stopped, groupVars,
                   remote, cpuVars, signalVars, place, swapped>>

\* A caller that may no longer run here yields; another task's CPU is
\* interrupted (request_scheduler_preemption).
PreemptMoved(c) ==
    LET t == current[c]  ran == call[t].ran IN
    /\ pc[c] = "run" /\ Quiet(c) /\ call[t].step = "preempt"
    /\ call' = [call EXCEPT ![t].step = "wake"]
    /\ IF ran # NoCpu /\ ran \notin call[t].mask /\ call[t].task = t
       THEN PrepareSwitch(c, "Yield") /\ UNCHANGED <<wakeSignal, ipi>>
       ELSE /\ LET hit == {ran} \cap (CPU \ (call[t].mask \cup {c})) IN
               /\ wakeSignal' = [d \in CPU |-> wakeSignal[d] \/ d \in hit]
               /\ ipi' = [d \in CPU |-> ipi[d] \/ d \in hit]
            /\ UNCHANGED <<status, switching, reason, pc, fault>>
    /\ UNCHANGED <<queuedCpu, onCpu, wakePending, allowed, stopped, exclusive,
                   running, rq, remote, current, victim, idle, irqs, workVars>>

\* wake_scheduler_cpu signals one other CPU of the mask.
WakeMask(c) ==
    LET t == current[c]  others == call[t].mask \ {c} IN
    /\ pc[c] = "run" /\ Quiet(c) /\ call[t].step = "wake"
    /\ \E d \in IF others = {} THEN {NoCpu} ELSE others :
          notify' = [notify EXCEPT ![c] = d]
    /\ call' = [call EXCEPT ![t] = NoCall]
    /\ UNCHANGED <<status, queuedCpu, onCpu, wakePending, allowed, stopped,
                   groupVars, rq, remote, cpuVars, signalVars, place, swapped,
                   fault>>

-----------------------------------------------------------------------------
\* Nothing tells one task from another.
TaskSymmetry == Permutations(Task)

\* What CPU c does by itself.
CpuStep(c) ==
    \/ Enqueue(c) \/ PushRemote(c) \/ NotifySwap(c) \/ NotifyIpi(c)
    \/ Drain(c) \/ Fetch(c) \/ FetchNothing(c)
    \/ ChooseVictim(c) \/ PullOwn(c) \/ PullTask(c) \/ PullNothing(c)
    \/ PublishIdle(c) \/ CheckWake(c) \/ LeaveWfi(c) \/ LeaveIrq(c)
    \/ FinishSwitch(c) \/ ReleaseTask(c) \/ SwitchDone(c)
    \/ ChooseHome(c) \/ MoveHome(c) \/ PreemptMoved(c) \/ WakeMask(c)

\* What the task on c, or an interrupt it takes, asks for.
Request(c) ==
    \/ \E why \in {"Yield", "Block", "Exit"} : Leave(c, why)
    \/ \E u \in Task : WakeSwitching(c, u) \/ WakeBlocked(c, u) \/ Spawn(c, u)
    \/ \E u \in Task, mask \in Masks : SetAffinity(c, u, mask)

\* The inter-processor interrupts of c.
Interrupt(c) == TakeIpi(c) \/ OtherIpi(c)

Next ==
    /\ fault = "none"
    /\ \E c \in CPU : CpuStep(c) \/ SkipAck(c) \/ Request(c) \/ Interrupt(c)

Spec == Init /\ [][Next]_vars

\* Each CPU keeps executing, however often it is interrupted; an interrupt
\* handler makes finitely many wakeups; and however busy a task keeps its CPU,
\* the tick makes it yield in the end.
Fairness ==
    \A c \in CPU : /\ WF_vars(fault = "none" /\ (CpuStep(c) \/ SkipAck(c)))
                   /\ SF_vars(fault = "none" /\ (LeaveIrq(c) \/ Leave(c, "Yield")))

FairSpec == Spec /\ Fairness

-----------------------------------------------------------------------------
\* The type invariant: the fields of the tasks, the queues and the run loops.
TypeOK ==
    /\ status \in [Task -> {"New", "Ready", "Running", "Blocked", "Exited"}]
    /\ queuedCpu \in [Task -> CPU \cup {NoCpu}]
    /\ onCpu \in [Task -> CPU \cup {NoCpu}]
    /\ wakePending \in [Task -> BOOLEAN]
    /\ allowed \in [Task -> (SUBSET CPU) \ {{}}]
    /\ call \in [Task -> Call]
    /\ stopped \in [Task -> BOOLEAN]
    /\ exclusive \in Task \cup {NoTask}
    /\ running \in 0 .. Cardinality(CPU) /\ switching \in 0 .. Cardinality(CPU)
    /\ rq \in [CPU -> SUBSET Task]
    /\ remote \in [CPU -> SUBSET Task]
    /\ pc \in [CPU -> Place]
    /\ current \in [CPU -> Task \cup {NoTask}]
    /\ reason \in [CPU -> {"none", "Yield", "Block", "Exit"}]
    /\ victim \in [CPU -> CPU \cup {NoCpu}]
    /\ idle \in [CPU -> BOOLEAN]
    /\ wakeSignal \in [CPU -> BOOLEAN]
    /\ ipi \in [CPU -> BOOLEAN]
    /\ irqs \in [CPU -> BOOLEAN]
    /\ place \in [CPU -> SUBSET Placement]
    /\ notify \in [CPU -> CPU \cup {NoCpu}]
    /\ swapped \in [CPU -> BOOLEAN]

\* Everyone who will run t or queue it: a CPU it is current on, a run queue, a
\* remote list, a placement.
Holders(t) ==
         {<<"cpu", c>> : c \in {d \in CPU : current[d] = t /\ onCpu[t] = d}}
    \cup {<<"leaving", c>> : c \in {d \in CPU : current[d] = t /\ pc[d] \in {"ack", "release"}
                                              /\ reason[d] # "none"}}
    \cup {<<"rq", c>> : c \in {d \in CPU : t \in rq[d]}}
    \cup {<<"remote", c>> : c \in {d \in CPU : t \in remote[d]}}
    \cup {<<"place", c>> : c \in {d \in CPU : \E p \in place[d] : p.task = t}}

\* A task that can run is in exactly one place of the scheduler, and one that
\* is blocked or exited is in none once it has left its CPU: wakeups, deferred
\* switches, steals, retargeted remote wakes and migrations neither lose a task
\* nor let two CPUs have it.
OneHolder ==
    \A t \in Task :
        Cardinality(Holders(t)) =
            IF status[t] \in {"Ready", "Running"} \/ onCpu[t] # NoCpu THEN 1 ELSE 0

\* No assertion of sched.rs, processor.rs or tcb.rs fails.
NoFault == fault = "none"

\* "If work arrived just before publication, do not cross into WFI": a CPU that
\* waits for an interrupt without its tick, and has a task on its run queue or its
\* remote list, has an interrupt pending, or a CPU that is still going to signal it.
NoLostWakeup ==
    \A c \in CPU \ {TimerCpu} :
        pc[c] = "wfi" /\ (rq[c] \cup remote[c]) # {} =>
            ipi[c] \/ \E d \in CPU : notify[d] = c

\* The same of remote lists alone, which the CPU looks at again once it has
\* published itself idle: no wakeup is slept through, whatever interrupts arrive.
NoLostRemoteWake ==
    \A c \in CPU :
        pc[c] = "wfi" /\ remote[c] # {} =>
            ipi[c] \/ \E d \in CPU : notify[d] = c

\* CPU 0 "must keep its 1 kHz tick so sleeping tasks and process timers still
\* expire on time": again and again it runs a task, which takes the tick, or
\* the idle loop's interrupt handler.
TicksHandled == []<>(pc[TimerCpu] \in {"run", "irq"} \/ fault # "none")

=============================================================================
