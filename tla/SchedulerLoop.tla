---------------------------- MODULE SchedulerLoop ----------------------------
(***************************************************************************)
(* The inductive invariant of the scheduler, for any CPUs, tasks and       *)
(* masks, and the steps of the run loops that keep it.                     *)
(*                                                                         *)
(* Every task is Located: one kind of place and one CPU describe all of    *)
(* rq, remote, place, current and on_cpu that mentions it.  Each action    *)
(* moves the tasks it handles and leaves the others where they were        *)
(* (StaysLocated).  The assertions of the code follow from where the tasks *)
(* are.  Handshake is the invariant of the idle protocol of cpu.rs.        *)
(***************************************************************************)
EXTENDS Scheduler, TLAPS

Status == {"New", "Ready", "Running", "Blocked", "Exited"}
Reason == {"none", "Yield", "Block", "Exit"}

\* The fields of the tasks, the queues and the run loops.
Typed ==
    /\ status \in [Task -> Status]
    /\ queuedCpu \in [Task -> CPU \cup {NoCpu}]
    /\ onCpu \in [Task -> CPU \cup {NoCpu}]
    /\ wakePending \in [Task -> BOOLEAN]
    /\ allowed \in [Task -> (SUBSET CPU) \ {{}}]
    /\ call \in [Task -> Call]
    /\ rq \in [CPU -> SUBSET Task]
    /\ remote \in [CPU -> SUBSET Task]
    /\ pc \in [CPU -> Place]
    /\ current \in [CPU -> Task \cup {NoTask}]
    /\ reason \in [CPU -> Reason]
    /\ victim \in [CPU -> CPU \cup {NoCpu}]
    /\ place \in [CPU -> SUBSET Placement]
    /\ notify \in [CPU -> CPU \cup {NoCpu}]

\* Nothing of this module stops a task or reserves the process for one.
Unstopped == stopped = [t \in Task |-> FALSE] /\ exclusive = NoTask

PlacedBy(t, c) == \E p \in place[c] : p.task = t
LeavingOn(t, c) ==
    current[c] = t /\ pc[c] \in {"ack", "release"} /\ reason[c] # "none"

Waiting == {"rq", "remote", "place", "leaving"}
Kind == Waiting \cup {"cpu", "off"}

\* All that the scheduler says of t is that it is at place k of CPU c.
Where(t, k, c) ==
    \A d \in CPU :
        /\ t \in rq[d] <=> k = "rq" /\ d = c
        /\ t \in remote[d] <=> k = "remote" /\ d = c
        /\ PlacedBy(t, d) <=> k = "place" /\ d = c
        /\ LeavingOn(t, d) <=> k = "leaving" /\ d = c
        /\ onCpu[t] = d <=> k = "cpu" /\ d = c

\* What the status of a task says about its place.
Suits(s, k) ==
    /\ k \in Waiting => s = "Ready"
    /\ k = "cpu" => s \in {"Running", "Blocked", "Exited"}
    /\ k = "off" => s \in {"New", "Blocked", "Exited"}

LocatedAt(t) == \E k \in Kind, c \in CPU : Where(t, k, c) /\ Suits(status[t], k)
Located == \A t \in Task : LocatedAt(t)

\* The fields of a task agree with the queues, and a wakeup is pending only of
\* a task that is switching out.
Fields ==
    \A t \in Task :
        /\ \A c \in CPU : queuedCpu[t] = c <=> t \in rq[c]
        /\ onCpu[t] # NoCpu => /\ current[onCpu[t]] = t
                               /\ pc[onCpu[t]] \in {"run", "switch"}
        /\ wakePending[t] => status[t] = "Blocked" /\ onCpu[t] # NoCpu

\* The run loop of a CPU: whose stack it is on and what it has decided.
LoopAt(c) ==
    /\ pc[c] \in {"run", "switch", "ack", "release"} <=> current[c] # NoTask
    /\ pc[c] \notin {"switch", "ack", "release"} => reason[c] = "none"
    /\ pc[c] = "run" => status[current[c]] = "Running" /\ onCpu[current[c]] = c
    /\ pc[c] = "switch" =>
          /\ onCpu[current[c]] = c
          /\ reason[c] # "none"
          /\ reason[c] = "Yield" => status[current[c]] = "Running"
          /\ reason[c] = "Block" => status[current[c]] = "Blocked"
          /\ reason[c] = "Exit" => status[current[c]] = "Exited"
    /\ place[c] # {} => pc[c] \in {"fetch", "run", "irq", "requeue"}
    /\ pc[c] = "pull" => victim[c] \in CPU \ {c}
    /\ \A p, q \in place[c] : p.task = q.task => p = q
Loops == \A c \in CPU : LoopAt(c)

\* What a call of sched_setaffinity remembers between its steps.
CallAt(t) ==
    /\ call[t].step # "none" => call[t].task \in Task
    /\ call[t].step = "move" => /\ call[t].src \in CPU
                                /\ call[t].dst \in CPU \ {call[t].src}
Calls == \A t \in Task : CallAt(t)

\* The inductive invariant.
SchedInv == Typed /\ Unstopped /\ Located /\ Fields /\ Loops /\ Calls /\ NoFault

\* The idle handshake: a sleeping CPU has published itself idle, and one whose
\* wake signal is set has an interrupt, or a CPU about to look at its idle flag.
Handshake ==
    /\ idle \in [CPU -> BOOLEAN]
    /\ wakeSignal \in [CPU -> BOOLEAN]
    /\ ipi \in [CPU -> BOOLEAN]
    /\ swapped \in [CPU -> BOOLEAN]
    /\ \A c \in CPU :
          /\ pc[c] \in {"check1", "check2", "wfi"} => idle[c]
          /\ pc[c] = "wfi" /\ wakeSignal[c] =>
                ipi[c] \/ \E d \in CPU : notify[d] = c /\ swapped[d]

-----------------------------------------------------------------------------
(***************************************************************************)
(* Where tasks are                                                         *)
(***************************************************************************)
\* The step says nothing new about t.
Untouched(t) ==
    /\ status'[t] = status[t]
    /\ onCpu'[t] = onCpu[t]
    /\ \A d \in CPU :
          /\ t \in rq'[d] <=> t \in rq[d]
          /\ t \in remote'[d] <=> t \in remote[d]
          /\ PlacedBy(t, d)' <=> PlacedBy(t, d)
          /\ LeavingOn(t, d)' <=> LeavingOn(t, d)

\* A task that a step does not handle stays where it is.
LEMMA StaysLocated ==
    ASSUME NEW t \in Task, LocatedAt(t), Untouched(t)
    PROVE  LocatedAt(t)'
  BY DEF LocatedAt, Where, Untouched, PlacedBy, LeavingOn

\* A Ready task has been put somewhere.
LEMMA ReadyAt ==
    ASSUME NEW t \in Task, NEW c \in CPU, status'[t] = "Ready",
           Where(t, "rq", c)' \/ Where(t, "remote", c)' \/ Where(t, "place", c)'
    PROVE  LocatedAt(t)'
  BY DEF LocatedAt, Suits, Kind, Waiting

\* The step writes no field that Fields is about.
LEMMA FieldsKept ==
    ASSUME Fields, UNCHANGED <<status, queuedCpu, onCpu, wakePending, rq, pc, current>>
    PROVE  Fields'
  BY DEF Fields

\* A task that mark_queued_on or the remote list is about to take is Ready and
\* nowhere else.
LEMMA PlacedIs ==
    ASSUME Typed, Located, Fields, NEW c \in CPU, NEW p \in place[c]
    PROVE  /\ p \in Placement /\ p.task \in Task /\ p.target \in CPU
           /\ Where(p.task, "place", c)
           /\ status[p.task] = "Ready"
           /\ onCpu[p.task] = NoCpu /\ queuedCpu[p.task] = NoCpu
  <1>1. p \in Placement /\ p.task \in Task /\ p.target \in CPU
    BY DEF Typed, Placement
  <1>2. PlacedBy(p.task, c)
    BY DEF PlacedBy
  <1>3. Where(p.task, "place", c) /\ status[p.task] = "Ready"
    BY <1>1, <1>2 DEF Located, LocatedAt, Where, Suits, Waiting, Kind
  <1>4. onCpu[p.task] = NoCpu /\ queuedCpu[p.task] = NoCpu
    BY <1>1, <1>3 DEF Where, Typed, Fields
  <1>. QED
    BY <1>1, <1>3, <1>4

\* A task on a run queue is Ready and nowhere else.
LEMMA QueuedIs ==
    ASSUME Typed, Located, Fields, NEW c \in CPU, NEW t \in rq[c]
    PROVE  /\ t \in Task
           /\ Where(t, "rq", c)
           /\ status[t] = "Ready"
           /\ onCpu[t] = NoCpu /\ queuedCpu[t] = c
  <1>1. t \in Task
    BY DEF Typed
  <1>2. Where(t, "rq", c) /\ status[t] = "Ready"
    BY <1>1 DEF Located, LocatedAt, Where, Suits, Waiting, Kind
  <1>. QED
    BY <1>1, <1>2 DEF Where, Typed, Fields

\* A task on a remote wake list is Ready and nowhere else.
LEMMA RemoteIs ==
    ASSUME Typed, Located, Fields, NEW c \in CPU, NEW t \in remote[c]
    PROVE  /\ t \in Task
           /\ Where(t, "remote", c)
           /\ status[t] = "Ready"
           /\ onCpu[t] = NoCpu /\ queuedCpu[t] = NoCpu
  <1>1. t \in Task
    BY DEF Typed
  <1>2. Where(t, "remote", c) /\ status[t] = "Ready"
    BY <1>1 DEF Located, LocatedAt, Where, Suits, Waiting, Kind
  <1>. QED
    BY <1>1, <1>2 DEF Where, Typed, Fields

\* A task that owns a CPU is on no queue.
LEMMA OwnerIs ==
    ASSUME Typed, Located, Fields, NEW t \in Task, onCpu[t] # NoCpu
    PROVE  Where(t, "cpu", onCpu[t]) /\ queuedCpu[t] = NoCpu
  <1>1. onCpu[t] \in CPU
    BY DEF Typed
  <1>2. Where(t, "cpu", onCpu[t])
    BY <1>1 DEF Located, LocatedAt, Where
  <1>. QED
    BY <1>1, <1>2 DEF Where, Typed, Fields

\* A Ready task is somewhere, and a blocked one that is off its CPU nowhere.
LEMMA OffIs ==
    ASSUME Typed, Located, Fields, NEW t \in Task, onCpu[t] = NoCpu,
           status[t] \in {"New", "Blocked", "Exited"}
    PROVE  queuedCpu[t] = NoCpu /\ \A c \in CPU : Where(t, "off", c)
  <1>1. PICK k \in Kind, c \in CPU : Where(t, k, c) /\ Suits(status[t], k)
    BY DEF Located, LocatedAt
  <1>2. k = "off"
    BY <1>1, NoneAssumption DEF Where, Suits, Kind, Waiting
  <1>. QED
    BY <1>1, <1>2 DEF Where, Typed, Fields

\* The step says nothing new about the loop of CPU d, but may have made one of
\* its placements.
SameLoop(d) ==
    /\ pc'[d] = pc[d] /\ current'[d] = current[d] /\ reason'[d] = reason[d]
    /\ victim'[d] = victim[d] /\ place'[d] \subseteq place[d]

\* Such a loop is where it was, if the task that owns the CPU is.
LEMMA LoopKept ==
    ASSUME NEW d \in CPU, LoopAt(d), SameLoop(d),
           pc[d] \in {"run", "switch"} => /\ status'[current[d]] = status[current[d]]
                                          /\ onCpu'[current[d]] = onCpu[current[d]]
    PROVE  LoopAt(d)'
  BY DEF LoopAt, SameLoop

\* A step of CPU c leaves the other loops alone, if it leaves alone the tasks that
\* own the other CPUs.
LEMMA OtherLoops ==
    ASSUME Typed, Loops, NEW c \in CPU, LoopAt(c)',
           \A d \in CPU \ {c} : SameLoop(d),
           \A t \in Task : onCpu[t] \in CPU \ {c} =>
              status'[t] = status[t] /\ onCpu'[t] = onCpu[t]
    PROVE  Loops'
  <1>1. ASSUME NEW d \in CPU \ {c}
        PROVE  LoopAt(d)'
    <2>1. LoopAt(d)
      BY DEF Loops
    <2>2. pc[d] \in {"run", "switch"} => current[d] \in Task /\ onCpu[current[d]] = d
      BY <2>1 DEF LoopAt, Typed
    <2>. QED
      BY <2>1, <2>2, LoopKept
  <1>. QED
    BY <1>1 DEF Loops

-----------------------------------------------------------------------------
(***************************************************************************)
(* Steps that move no task                                                 *)
(***************************************************************************)
Busy == {"run", "switch", "ack", "release"}

\* The CPU goes on in its loop without touching a task or a queue.
LoopStep(c) ==
    /\ UNCHANGED <<status, queuedCpu, onCpu, wakePending, stopped, exclusive, rq,
                   remote, current, reason, place, fault>>
    /\ pc'[c] \in Place
    /\ pc' = [pc EXCEPT ![c] = pc'[c]]
    /\ victim' \in [CPU -> CPU \cup {NoCpu}]
    /\ \A d \in CPU \ {c} : victim'[d] = victim[d]
    /\ \/ pc'[c] = pc[c] /\ victim'[c] = victim[c]
       \/ pc[c] = "ack" /\ pc'[c] = "release"
       \/ /\ pc[c] \notin Busy /\ pc'[c] \notin Busy
          /\ place[c] = {}
          /\ pc'[c] = "pull" => victim'[c] \in CPU \ {c}

\* Such a step keeps the tasks where they are.
LEMMA LoopStepKeeps ==
    ASSUME Typed, Unstopped, Located, Fields, Loops, NoFault, NEW c \in CPU, LoopStep(c)
    PROVE  Unstopped' /\ Located' /\ Fields' /\ Loops' /\ NoFault'
  <1>1. \A d \in CPU : pc'[d] = pc[d] \/ d = c
    BY DEF LoopStep, Typed
  <1>2. \A d \in CPU, t \in Task : LeavingOn(t, d)' <=> LeavingOn(t, d)
    BY <1>1 DEF LoopStep, LeavingOn, Busy
  <1>3. Located'
    <2>1. \A t \in Task : Untouched(t)
      BY <1>2 DEF LoopStep, Untouched, PlacedBy
    <2>. QED
      BY <2>1, StaysLocated DEF Located
  <1>4. Fields'
    <2>1. \A t \in Task : onCpu[t] # NoCpu => pc'[onCpu[t]] = pc[onCpu[t]]
      BY <1>1 DEF Fields, Typed, LoopStep, Busy
    <2>. QED
      BY <2>1 DEF Fields, LoopStep
  <1>5. Loops'
    <2>1. \A d \in CPU \ {c} : SameLoop(d)
      BY <1>1 DEF LoopStep, SameLoop
    <2>2. LoopAt(c)'
      BY DEF Loops, LoopAt, LoopStep, Busy
    <2>. QED
      BY <2>1, <2>2, OtherLoops DEF LoopStep
  <1>. QED
    BY <1>3, <1>4, <1>5 DEF LoopStep, Unstopped, NoFault

\* What the run loop, the signals and the interrupts do between two tasks.
LEMMA LoopSteps ==
    ASSUME SchedInv, NEW c \in CPU,
           \/ NotifySwap(c) \/ NotifyIpi(c) \/ ChooseVictim(c) \/ PublishIdle(c)
           \/ CheckWake(c) \/ LeaveWfi(c) \/ LeaveIrq(c) \/ SwitchDone(c)
           \/ SkipAck(c) \/ TakeIpi(c) \/ OtherIpi(c)
    PROVE  SchedInv'
  <1>. USE DEF SchedInv
  <1>0. place[c] # {} => pc[c] \in {"fetch", "run", "irq", "requeue"}
    BY DEF Loops, LoopAt
  <1>1. ASSUME NotifySwap(c) \/ NotifyIpi(c)
        PROVE  LoopStep(c) /\ Typed' /\ Calls'
    BY ZenonT(40), <1>1 DEF NotifySwap, NotifyIpi, LoopStep, Typed, Calls, CallAt, taskVars, groupVars, cpuVars
  <1>2. ASSUME TakeIpi(c) \/ OtherIpi(c)
        PROVE  LoopStep(c) /\ Typed' /\ Calls'
    BY Zenon, <1>2 DEF TakeIpi, OtherIpi, LoopStep, Typed, Calls, CallAt, taskVars, groupVars, cpuVars,
                workVars
  <1>3. ASSUME ChooseVictim(c)
        PROVE  LoopStep(c) /\ Typed' /\ Calls'
    <2>1. /\ pc[c] = "steal" /\ place[c] = {}
          /\ UNCHANGED <<taskVars, stopped, groupVars, rq, remote, current, reason,
                         workVars, fault>>
      BY Zenon, <1>3, <1>0 DEF ChooseVictim
    <2>2. \/ pc' = [pc EXCEPT ![c] = "publish"] /\ victim' = victim
          \/ /\ pc' = [pc EXCEPT ![c] = "pull"]
             /\ \E d \in CPU \ {c} : victim' = [victim EXCEPT ![c] = d]
      BY <1>3 DEF ChooseVictim, QueuesOf
    <2>3. CASE pc' = [pc EXCEPT ![c] = "publish"] /\ victim' = victim
      BY Zenon, <2>1, <2>3 DEF LoopStep, Typed, Calls, CallAt, taskVars, groupVars, workVars, Place, Busy
    <2>4. ASSUME NEW d \in CPU \ {c}, pc' = [pc EXCEPT ![c] = "pull"],
                 victim' = [victim EXCEPT ![c] = d]
          PROVE  LoopStep(c) /\ Typed' /\ Calls'
      <3>1. victim'[c] = d /\ victim' \in [CPU -> CPU \cup {NoCpu}]
        BY <2>4 DEF Typed
      <3>2. pc'[c] = "pull" /\ pc' \in [CPU -> Place] /\ "pull" \in Place \ Busy
        BY <2>4 DEF Typed, Place, Busy
      <3>3. LoopStep(c)
        BY Zenon, <2>1, <2>4, <3>1, <3>2 DEF LoopStep, Typed, taskVars, groupVars, workVars, Busy
      <3>. QED
        BY Zenon, <2>1, <3>1, <3>2, <3>3 DEF Typed, Calls, CallAt, taskVars, groupVars, workVars
    <2>. QED
      BY <2>2, <2>3, <2>4
  <1>4. ASSUME PublishIdle(c) \/ CheckWake(c) \/ LeaveWfi(c) \/ SkipAck(c)
        PROVE  LoopStep(c) /\ Typed' /\ Calls'
    <2>1. UNCHANGED <<taskVars, stopped, groupVars, rq, remote, current, reason,
                      victim, workVars, fault>>
      BY Zenon, <1>4 DEF PublishIdle, CheckWake, WakeWaiting, LeaveWfi, SkipAck
    <2>2. \/ /\ pc[c] \notin Busy /\ place[c] = {}
             /\ \E next \in {"check1", "check2", "wfi", "irq", "drain"} :
                   pc' = [pc EXCEPT ![c] = next]
          \/ pc[c] = "ack" /\ pc' = [pc EXCEPT ![c] = "release"]
      <3>1. CASE PublishIdle(c)
        BY Zenon, <3>1, <1>0 DEF PublishIdle, Busy
      <3>2. CASE CheckWake(c)
        BY Zenon, <3>2, <1>0 DEF CheckWake, WakeWaiting, Busy, Typed
      <3>3. CASE LeaveWfi(c)
        BY Zenon, <3>3, <1>0 DEF LeaveWfi, Busy
      <3>4. CASE SkipAck(c)
        BY Zenon, <3>4 DEF SkipAck
      <3>. QED
        BY Zenon, <1>4, <3>1, <3>2, <3>3, <3>4
    <2>3. LoopStep(c)
      BY <2>1, <2>2 DEF LoopStep, Typed, taskVars, groupVars, workVars, Place, Busy
    <2>4. pc' \in [CPU -> Place]
      BY ZenonT(40), <2>2 DEF Typed, Place
    <2>. QED
      BY Zenon, <2>1, <2>3, <2>4 DEF Typed, Calls, CallAt, taskVars, groupVars, workVars
  <1>5. ASSUME LeaveIrq(c) \/ SwitchDone(c)
        PROVE  LoopStep(c) /\ Typed' /\ Calls'
    BY ZenonT(40), <1>5, <1>0 DEF LeaveIrq, SwitchDone, Quiet, LoopStep, Typed, Calls, CallAt,
                taskVars, groupVars, workVars, Place, Busy
  <1>. QED
    BY <1>1, <1>2, <1>3, <1>4, <1>5, LoopStepKeeps

\* Nothing on a run queue has exited or is stopped.
LEMMA NoneGone ==
    ASSUME SchedInv
    PROVE  \A c \in CPU : GoneIn(c) = {}
  BY QueuedIs DEF SchedInv, Unstopped, GoneIn, Gone

\* A search that finds nothing leaves the queues as they are.
LEMMA TakeNothingKeeps ==
    ASSUME SchedInv, NEW c \in CPU, FetchNothing(c) \/ PullNothing(c)
    PROVE  SchedInv'
  <1>. USE DEF SchedInv
  <1>1. PICK next \in {"steal", "publish"} :
           TakeNothing(c, {}, next) /\ pc[c] \in {"fetch", "pull"} /\ place[c] = {}
    <2>1. CASE FetchNothing(c)
      BY <2>1, NoneGone DEF FetchNothing, Quiet
    <2>2. CASE PullNothing(c)
      <3>1. pc[c] = "pull" /\ place[c] = {} /\ victim[c] \in CPU
        BY Zenon, <2>2 DEF PullNothing, Loops, LoopAt
      <3>2. PICK pruned \in SUBSET GoneIn(victim[c]) :
                TakeNothing(c, pruned \cup GoneIn(c), "publish")
        BY Zenon, <2>2 DEF PullNothing
      <3>3. pruned \cup GoneIn(c) = {}
        BY <3>1, NoneGone
      <3>. QED
        BY <3>1, <3>2, <3>3
    <2>. QED
      BY <2>1, <2>2
  <1>2. rq' = rq /\ queuedCpu' = queuedCpu
    BY <1>1 DEF TakeNothing, Typed
  <1>3. LoopStep(c)
    BY <1>1, <1>2 DEF TakeNothing, LoopStep, Typed, groupVars, workVars, Place, Busy
  <1>4. Typed' /\ Calls'
    BY Zenon, <1>1, <1>2 DEF TakeNothing, Typed, Calls, CallAt, groupVars, workVars, Place
  <1>. QED
    BY <1>3, <1>4, LoopStepKeeps

-----------------------------------------------------------------------------
(***************************************************************************)
(* Placements                                                              *)
(***************************************************************************)
\* The CPU makes a placement: the loops do not notice.
LEMMA PlacementLoops ==
    ASSUME Typed, Loops, NEW c \in CPU, NEW p \in place[c],
           place' = [place EXCEPT ![c] = @ \ {p}],
           UNCHANGED <<status, onCpu, pc, current, reason, victim>>
    PROVE  Loops'
  <1>1. \A d \in CPU : SameLoop(d)
    BY DEF Typed, SameLoop
  <1>. QED
    BY Zenon, <1>1, LoopKept DEF Loops

\* It owes the task no other one.
LEMMA PlacementMade ==
    ASSUME Typed, Loops, NEW c \in CPU, NEW p \in place[c], Where(p.task, "place", c),
           place' = [place EXCEPT ![c] = @ \ {p}]
    PROVE  \A e \in CPU : ~PlacedBy(p.task, e)'
  <1>1. \A q \in place[c] : q.task = p.task => q = p
    BY DEF Loops, LoopAt
  <1>2. \A e \in CPU \ {c} : place'[e] = place[e] /\ ~PlacedBy(p.task, e)
    BY DEF Typed, Where
  <1>3. place'[c] = place[c] \ {p}
    BY DEF Typed
  <1>. QED
    BY <1>1, <1>2, <1>3 DEF PlacedBy

\* mark_queued_on's assertions hold, and the task is on the queue.
LEMMA EnqueueKeeps ==
    ASSUME SchedInv, NEW c \in CPU, Enqueue(c)
    PROVE  SchedInv'
  <1>. USE DEF SchedInv
  <1>1. PICK p \in place[c] :
          /\ fault' = QueueFault(p.task)
          /\ Insert(p.task, p.target, fault' = "none" /\ ~stopped[p.task])
          /\ place' = [place EXCEPT ![c] = @ \ {p}]
          /\ notify' = [notify EXCEPT ![c] = IF p.target = c THEN @ ELSE p.target]
          /\ UNCHANGED <<status, onCpu, wakePending, allowed, call, stopped,
                         groupVars, remote, cpuVars, signalVars, swapped>>
    BY Zenon DEF Enqueue
  <1>. DEFINE t == p.task  d == p.target
  <1>2. /\ p \in Placement /\ t \in Task /\ d \in CPU
        /\ Where(t, "place", c)
        /\ status[t] = "Ready"
        /\ onCpu[t] = NoCpu /\ queuedCpu[t] = NoCpu
    BY Zenon, PlacedIs
  <1>3. fault' = "none" /\ ~stopped[t]
    BY <1>1, <1>2 DEF QueueFault, Unstopped
  <1>4. /\ rq' = [rq EXCEPT ![d] = @ \cup {t}]
        /\ queuedCpu' = [queuedCpu EXCEPT ![t] = d]
    BY <1>1, <1>3 DEF Insert
  <1>5. Typed'
    <2>1. rq' \in [CPU -> SUBSET Task] /\ queuedCpu' \in [Task -> CPU \cup {NoCpu}]
      BY <1>2, <1>4 DEF Typed
    <2>2. place' \in [CPU -> SUBSET Placement] /\ notify' \in [CPU -> CPU \cup {NoCpu}]
      BY <1>1, <1>2 DEF Typed
    <2>. QED
      BY Zenon, <2>1, <2>2, <1>1 DEF Typed, cpuVars
  <1>6. Located'
    <2>1. ASSUME NEW u \in Task, u # t
          PROVE  LocatedAt(u)'
      <3>1. Untouched(u)
        BY Zenon, <1>1, <1>2, <1>4, <2>1 DEF Untouched, PlacedBy, LeavingOn, Typed, cpuVars
      <3>. QED
        BY <3>1, StaysLocated DEF Located
    <2>2. LocatedAt(t)'
      <3>1. \A e \in CPU : ~PlacedBy(t, e)'
        BY Zenon, <1>1, <1>2, PlacementMade
      <3>2. Where(t, "rq", d)'
        BY ZenonT(40), <1>1, <1>2, <1>4, <3>1, NoneAssumption DEF Where, LeavingOn, Typed, cpuVars
      <3>. QED
        BY <1>1, <1>2, <3>2 DEF LocatedAt, Suits, Kind, Waiting
    <2>. QED
      BY <2>1, <2>2 DEF Located
  <1>7. Fields'
    <2>1. \A u \in Task, e \in CPU : queuedCpu'[u] = e <=> u \in rq'[e]
      BY <1>2, <1>4, NoneAssumption DEF Fields, Typed
    <2>. QED
      BY Zenon, <2>1, <1>1 DEF Fields, cpuVars
  <1>8. Loops'
    BY Zenon, <1>1, PlacementLoops DEF cpuVars
  <1>. QED
    BY <1>1, <1>3, <1>5, <1>6, <1>7, <1>8 DEF Unstopped, NoFault, Calls, CallAt, groupVars

\* The node of the task is not linked when it is pushed on a remote wake list.
LEMMA PushRemoteKeeps ==
    ASSUME SchedInv, NEW c \in CPU, PushRemote(c)
    PROVE  SchedInv'
  <1>. USE DEF SchedInv
  <1>1. PICK p \in place[c] :
          /\ fault' = IF Linked(p.task)
                      THEN "task already owns a linked remote-wake node" ELSE "none"
          /\ remote' = [remote EXCEPT ![p.target] = @ \cup {p.task}]
          /\ place' = [place EXCEPT ![c] = @ \ {p}]
          /\ notify' = [notify EXCEPT ![c] = p.target]
          /\ UNCHANGED <<taskVars, stopped, groupVars, rq, cpuVars, signalVars,
                         swapped>>
    BY Zenon DEF PushRemote
  <1>u. UNCHANGED <<status, queuedCpu, onCpu, wakePending, allowed, call, stopped,
                    exclusive, rq, pc, current, reason, victim>>
    BY Zenon, <1>1 DEF taskVars, groupVars, cpuVars
  <1>. DEFINE t == p.task  d == p.target
  <1>2. /\ p \in Placement /\ t \in Task /\ d \in CPU
        /\ Where(t, "place", c)
        /\ status[t] = "Ready"
        /\ onCpu[t] = NoCpu /\ queuedCpu[t] = NoCpu
    BY Zenon, PlacedIs
  <1>3. fault' = "none"
    BY Zenon, <1>1, <1>2 DEF Linked, Where
  <1>5. Typed'
    BY Zenon, <1>1, <1>u, <1>2 DEF Typed
  <1>6. Located'
    <2>1. ASSUME NEW u \in Task, u # t
          PROVE  LocatedAt(u)'
      <3>1. Untouched(u)
        BY Zenon, <1>1, <1>u, <1>2, <2>1 DEF Untouched, PlacedBy, LeavingOn, Typed
      <3>. QED
        BY <3>1, StaysLocated DEF Located
    <2>2. LocatedAt(t)'
      <3>1. \A e \in CPU : ~PlacedBy(t, e)'
        BY Zenon, <1>1, <1>2, PlacementMade
      <3>2. Where(t, "remote", d)'
        BY Zenon, <1>1, <1>u, <1>2, <3>1, NoneAssumption DEF Where, LeavingOn, Typed
      <3>. QED
        BY <1>u, <1>2, <3>2 DEF LocatedAt, Suits, Kind, Waiting
    <2>. QED
      BY Zenon, <2>1, <2>2 DEF Located
  <1>7. Fields'
    BY Zenon, <1>u, FieldsKept
  <1>8. Loops'
    BY Zenon, <1>1, <1>u, PlacementLoops
  <1>. QED
    BY Zenon, <1>u, <1>3, <1>5, <1>6, <1>7, <1>8 DEF Unstopped, NoFault, Calls, CallAt

\* drain_remote_wakes meets only Ready tasks; each goes to the CPU's own queue
\* or is placed again.
LEMMA DrainKeeps ==
    ASSUME SchedInv, NEW c \in CPU, Drain(c)
    PROVE  SchedInv'
  <1>. USE DEF SchedInv
  <1>. DEFINE live == Live(c)
              moved == {t \in live : c \notin allowed[t]}
              kept == live \ moved
  <1>1. PICK target \in [moved -> CPU] :
          place' = [place EXCEPT ![c] =
                {[task |-> t, target |-> target[t], via |-> "wake"] : t \in moved}]
    BY Zenon DEF Drain
  <1>u. /\ pc[c] = "drain" /\ pc' = [pc EXCEPT ![c] = "fetch"]
        /\ rq' = [rq EXCEPT ![c] = @ \cup kept]
        /\ queuedCpu' = [t \in Task |-> IF t \in kept THEN c ELSE queuedCpu[t]]
        /\ remote' = [remote EXCEPT ![c] = {}]
        /\ UNCHANGED <<status, onCpu, wakePending, allowed, call, stopped, exclusive,
                       current, reason, victim, notify>>
    BY Zenon DEF Drain, groupVars
  <1>2. \A t \in remote[c] : /\ t \in Task /\ Where(t, "remote", c) /\ status[t] = "Ready"
                             /\ onCpu[t] = NoCpu /\ queuedCpu[t] = NoCpu
    BY Zenon, RemoteIs
  <1>3. live = remote[c]
    BY Zenon, <1>2 DEF Live, Gone, Unstopped
  <1>4. fault' = "none"
    BY Zenon, <1>2, <1>3 DEF Drain
  <1>m. kept \cup moved = remote[c] /\ kept \cap moved = {}
    BY <1>3
  <1>. HIDE DEF moved, kept, live
  <1>5. place[c] = {} /\ current[c] = NoTask /\ reason[c] = "none"
    BY Zenon, <1>u DEF Loops, LoopAt
  <1>d. pc'[c] = "fetch" /\ \A d \in CPU \ {c} : pc'[d] = pc[d]
    BY <1>u DEF Typed
  <1>6. /\ place'[c] = {[task |-> t, target |-> target[t], via |-> "wake"] : t \in moved}
        /\ \A d \in CPU \ {c} : place'[d] = place[d]
    BY Zenon, <1>1 DEF Typed
  <1>7. place'[c] \in SUBSET Placement
    BY <1>6, <1>2, <1>m DEF Placement
  <1>8. Typed'
    <2>1. place' \in [CPU -> SUBSET Placement]
      BY Zenon, <1>1, <1>6, <1>7 DEF Typed
    <2>2. rq' \in [CPU -> SUBSET Task] /\ remote' \in [CPU -> SUBSET Task]
      BY <1>u, <1>2, <1>m DEF Typed
    <2>3. queuedCpu' \in [Task -> CPU \cup {NoCpu}] /\ pc' \in [CPU -> Place]
      BY <1>u DEF Typed, Place
    <2>. QED
      BY Zenon, <2>1, <2>2, <2>3, <1>u DEF Typed
  <1>p. \A t \in Task : PlacedBy(t, c)' <=> t \in moved
    <2>1. ASSUME NEW t \in moved
          PROVE  \E p \in place'[c] : p.task = t
      <3>1. [task |-> t, target |-> target[t], via |-> "wake"] \in place'[c]
        BY <1>6
      <3>. QED
        BY Zenon, <3>1
    <2>2. ASSUME NEW p \in place'[c]
          PROVE  p.task \in moved
      BY <1>6
    <2>. QED
      BY <2>1, <2>2 DEF PlacedBy
  <1>l. \A t \in Task, d \in CPU : LeavingOn(t, d)' <=> LeavingOn(t, d)
    BY Zenon, <1>u, <1>5, NoneAssumption DEF LeavingOn, Typed
  <1>9. Located'
    <2>1. ASSUME NEW u \in Task, u \notin remote[c]
          PROVE  LocatedAt(u)'
      <3>1. \A d \in CPU : PlacedBy(u, d)' <=> PlacedBy(u, d)
        BY Zenon, <2>1, <1>m, <1>5, <1>6, <1>p DEF PlacedBy
      <3>2. Untouched(u)
        BY Zenon, <1>u, <1>m, <1>l, <2>1, <3>1 DEF Untouched, Typed
      <3>. QED
        BY <3>2, StaysLocated DEF Located
    <2>2. ASSUME NEW u \in kept
          PROVE  LocatedAt(u)'
      <3>0. u \in remote[c] /\ u \in Task /\ u \notin moved
        BY <2>2, <1>2, <1>m
      <3>1. \A d \in CPU : ~PlacedBy(u, d)'
        BY <3>0, <1>2, <1>6, <1>p DEF PlacedBy, Where
      <3>2. Where(u, "rq", c)'
        BY <3>0, <3>1, <2>2, <1>2, <1>l, <1>u, NoneAssumption DEF Where, Typed
      <3>. QED
        BY Zenon, <3>0, <3>2, <1>u, <1>2, ReadyAt
    <2>3. ASSUME NEW u \in moved
          PROVE  LocatedAt(u)'
      <3>0. u \in remote[c] /\ u \in Task /\ u \notin kept
        BY <2>3, <1>2, <1>m
      <3>1. \A d \in CPU : PlacedBy(u, d)' <=> d = c
        BY <3>0, <2>3, <1>2, <1>6, <1>p DEF PlacedBy, Where
      <3>2. Where(u, "place", c)'
        BY <3>0, <3>1, <2>3, <1>2, <1>l, <1>u, NoneAssumption DEF Where, Typed
      <3>. QED
        BY Zenon, <3>0, <3>2, <1>u, <1>2, ReadyAt
    <2>. QED
      BY <2>1, <2>2, <2>3, <1>m DEF Located
  <1>10. Fields'
    <2>1. \A t \in Task : onCpu[t] # NoCpu => onCpu[t] # c
      BY <1>5, NoneAssumption DEF Fields
    <2>2. \A t \in Task : onCpu[t] # NoCpu => pc'[onCpu[t]] = pc[onCpu[t]]
      BY Zenon, <2>1, <1>u DEF Typed
    <2>3. \A t \in Task, d \in CPU : queuedCpu'[t] = d <=> t \in rq'[d]
      <3>1. \A t \in kept : t \in remote[c] /\ t \in Task
        BY <1>2, <1>m
      <3>. QED
        BY <1>u, <1>2, <3>1, NoneAssumption DEF Fields, Typed
    <2>. QED
      BY <2>2, <2>3, <1>u DEF Fields
  <1>11. Loops'
    <2>1. \A d \in CPU \ {c} : SameLoop(d)
      BY Zenon, <1>u, <1>d, <1>6 DEF SameLoop
    <2>2. \A p, q \in place'[c] : p.task = q.task => p = q
      BY <1>6
    <2>3. current'[c] = NoTask /\ reason'[c] = "none"
      BY Zenon, <1>u, <1>5
    <2>4. LoopAt(c)'
      BY Zenon, <2>2, <2>3, <1>d DEF LoopAt
    <2>. QED
      BY Zenon, <2>1, <2>4, <1>u, OtherLoops
  <1>. QED
    BY Zenon, <1>u, <1>4, <1>8, <1>9, <1>10, <1>11 DEF Unstopped, NoFault, Calls, CallAt

-----------------------------------------------------------------------------
(***************************************************************************)
(* Claims                                                                  *)
(***************************************************************************)
\* claim_for_cpu's assertions hold of a task that is on the queue, and the
\* batch that comes with it changes queues.
LEMMA TakeKeeps ==
    ASSUME SchedInv, NEW c \in CPU, NEW q \in CPU, NEW t \in rq[q], NEW batch \in SUBSET rq[q],
           t \notin batch, q = c => batch = {},
           pc[c] \in {"fetch", "pull"}, place[c] = {},
           Take(c, q, t, batch, {})
    PROVE  SchedInv'
  <1>. USE DEF SchedInv
  <1>1. /\ t \in Task /\ Where(t, "rq", q) /\ status[t] = "Ready"
        /\ onCpu[t] = NoCpu /\ queuedCpu[t] = q
    BY ZenonT(40), QueuedIs
  <1>2. \A u \in batch : /\ u \in Task /\ Where(u, "rq", q) /\ status[u] = "Ready"
                         /\ onCpu[u] = NoCpu /\ queuedCpu[u] = q
    BY QueuedIs
  <1>3. fault' = "none"
    BY <1>1 DEF Take, ClaimFault
  <1>u. /\ rq' = [d \in CPU |-> IF d = q THEN rq[d] \ (batch \cup {t})
                                ELSE IF d = c THEN rq[d] \cup batch
                                ELSE rq[d]]
        /\ queuedCpu' = [u \in Task |-> IF u = t THEN NoCpu
                                        ELSE IF u \in batch THEN c ELSE queuedCpu[u]]
        /\ onCpu' = [onCpu EXCEPT ![t] = c]
        /\ status' = [status EXCEPT ![t] = "Running"]
        /\ current' = [current EXCEPT ![c] = t]
        /\ victim' = [victim EXCEPT ![c] = NoCpu]
        /\ pc' = [pc EXCEPT ![c] = "run"]
        /\ UNCHANGED <<wakePending, allowed, call, stopped, exclusive, remote, reason,
                       place, notify>>
    BY Zenon DEF Take, Run, workVars
  <1>4. current[c] = NoTask /\ reason[c] = "none"
    BY Zenon DEF Loops, LoopAt
  <1>5. Typed'
    BY Zenon, <1>1, <1>2, <1>u DEF Typed, Status, Place
  <1>p. \A u \in Task, d \in CPU : PlacedBy(u, d)' <=> PlacedBy(u, d)
    BY Zenon, <1>u DEF PlacedBy
  <1>l. \A u \in Task, d \in CPU : LeavingOn(u, d)' <=> LeavingOn(u, d)
    BY Zenon, <1>u, <1>4 DEF LeavingOn, Typed
  <1>6. Located'
    <2>1. ASSUME NEW u \in Task, u # t, u \notin batch
          PROVE  LocatedAt(u)'
      <3>1. Untouched(u)
        BY Zenon, <2>1, <1>u, <1>p, <1>l DEF Untouched, Typed
      <3>. QED
        BY <3>1, StaysLocated DEF Located
    <2>2. ASSUME NEW u \in batch
          PROVE  LocatedAt(u)'
      <3>1. u \in Task /\ u # t /\ q # c /\ onCpu'[u] = NoCpu
        BY Zenon, <1>2, <1>u, <2>2 DEF Typed
      <3>2. Where(u, "rq", c)'
        BY <3>1, <2>2, <1>2, <1>u, <1>p, <1>l, NoneAssumption DEF Where, Typed
      <3>3. status'[u] = "Ready"
        BY Zenon, <3>1, <1>2, <1>u DEF Typed
      <3>. QED
        BY <3>1, <3>2, <3>3 DEF LocatedAt, Suits, Kind, Waiting
    <2>3. LocatedAt(t)'
      <3>1. Where(t, "cpu", c)'
        BY Zenon, <1>1, <1>u, <1>p, <1>l DEF Where, Typed
      <3>2. status'[t] = "Running"
        BY Zenon, <1>1, <1>u DEF Typed
      <3>. QED
        BY <1>1, <3>1, <3>2 DEF LocatedAt, Suits, Kind, Waiting
    <2>. QED
      BY Zenon, <2>1, <2>2, <2>3, <1>1 DEF Located
  <1>7. Fields'
    <2>1. \A u \in Task, d \in CPU : queuedCpu'[u] = d <=> u \in rq'[d]
      BY <1>u, <1>1, <1>2, NoneAssumption DEF Fields, Typed, Where
    <2>2. \A u \in Task : onCpu'[u] # NoCpu => /\ current'[onCpu'[u]] = u
                                               /\ pc'[onCpu'[u]] \in {"run", "switch"}
      BY <1>u, <1>1, <1>4, NoneAssumption DEF Fields, Typed
    <2>3. \A u \in Task : wakePending'[u] => status'[u] = "Blocked" /\ onCpu'[u] # NoCpu
      BY <1>u, <1>1 DEF Fields, Typed
    <2>. QED
      BY Zenon, <2>1, <2>2, <2>3 DEF Fields
  <1>8. Loops'
    <2>1. \A d \in CPU \ {c} : SameLoop(d)
      BY Zenon, <1>u DEF SameLoop, Typed
    <2>2. \A u \in Task : onCpu[u] \in CPU => status'[u] = status[u] /\ onCpu'[u] = onCpu[u]
      BY Zenon, <1>u, <1>1, NoneAssumption DEF Typed
    <2>3. /\ pc'[c] = "run" /\ current'[c] = t /\ t # NoTask /\ reason'[c] = "none"
          /\ status'[t] = "Running" /\ onCpu'[t] = c /\ place'[c] = {}
      BY ZenonT(40), <1>u, <1>1, <1>4, NoneAssumption DEF Typed
    <2>4. LoopAt(c)'
      BY Zenon, <2>3 DEF LoopAt
    <2>. QED
      BY Zenon, <2>1, <2>2, <2>4, OtherLoops
  <1>. QED
    BY Zenon, <1>u, <1>3, <1>5, <1>6, <1>7, <1>8 DEF Unstopped, NoFault, Calls, CallAt

\* fetch and steal_batch_from claim from the own queue or the victim's.
LEMMA ClaimKeeps ==
    ASSUME SchedInv, NEW c \in CPU, Fetch(c) \/ PullOwn(c) \/ PullTask(c)
    PROVE  SchedInv'
  <1>0. \A d \in CPU : GoneIn(d) = {}
    BY NoneGone
  <1>1. ASSUME Fetch(c) \/ PullOwn(c)
        PROVE  SchedInv'
    <2>1. pc[c] \in {"fetch", "pull"} /\ place[c] = {}
      BY Zenon, <1>1 DEF Fetch, PullOwn, Quiet, SchedInv, Loops, LoopAt
    <2>2. PICK t \in rq[c] : Take(c, c, t, {}, {})
      BY Zenon, <1>0, <1>1 DEF Fetch, PullOwn, ClaimableIn
    <2>. QED
      BY Zenon, <2>1, <2>2, TakeKeeps
  <1>2. ASSUME PullTask(c)
        PROVE  SchedInv'
    <2>1. pc[c] = "pull" /\ place[c] = {} /\ victim[c] \in CPU \ {c}
      BY Zenon, <1>2 DEF PullTask, SchedInv, Loops, LoopAt
    <2>2. PICK t \in ClaimableIn(victim[c], c) : \E batch \in Batches(c, victim[c], t) :
             \E pruned \in SUBSET GoneIn(victim[c]) :
                Take(c, victim[c], t, batch, pruned \cup GoneIn(c))
      BY Zenon, <1>2 DEF PullTask
    <2>3. PICK batch \in Batches(c, victim[c], t) : Take(c, victim[c], t, batch, {})
      BY Zenon, <2>1, <2>2, <1>0
    <2>4. t \in rq[victim[c]] /\ batch \in SUBSET rq[victim[c]] /\ t \notin batch
      BY Zenon, <2>2, <2>3 DEF ClaimableIn, Batches, Relevant
    <2>. QED
      BY Zenon, <2>1, <2>3, <2>4, TakeKeeps
  <1>. QED
    BY <1>1, <1>2

-----------------------------------------------------------------------------
(***************************************************************************)
(* The idle handshake                                                      *)
(***************************************************************************)
IdleInv == SchedInv /\ Handshake /\ NoLostRemoteWake

\* The step leaves the handshake alone: no CPU reaches or leaves its idle
\* branch, and nothing is put on a remote list or taken off a notification.
HandshakeAside ==
    /\ UNCHANGED <<idle, wakeSignal, ipi, swapped>>
    /\ \A d \in CPU : /\ pc'[d] \in {"check1", "check2", "wfi"} => pc'[d] = pc[d]
                      /\ remote'[d] \subseteq remote[d]
                      /\ notify'[d] = notify[d] \/ notify[d] = NoCpu

\* Such a step loses no wakeup.
LEMMA AsideKeeps ==
    ASSUME Handshake, NoLostRemoteWake, HandshakeAside
    PROVE  Handshake' /\ NoLostRemoteWake'
  <1>1. \A c, d \in CPU : notify[d] = c => notify'[d] = c
    BY Zenon, NoneAssumption DEF HandshakeAside
  <1>2. Handshake'
    BY <1>1 DEF Handshake, HandshakeAside
  <1>3. NoLostRemoteWake'
    BY Zenon, <1>1 DEF NoLostRemoteWake, HandshakeAside
  <1>. QED
    BY <1>2, <1>3

\* Everything but the signals and the idle branch is such a step.
LEMMA AsideSteps ==
    ASSUME SchedInv, NEW c \in CPU,
           \/ Enqueue(c) \/ Drain(c) \/ Fetch(c) \/ FetchNothing(c) \/ ChooseVictim(c)
           \/ PullOwn(c) \/ PullTask(c) \/ PullNothing(c) \/ LeaveIrq(c) \/ FinishSwitch(c)
           \/ ReleaseTask(c) \/ SwitchDone(c) \/ ChooseHome(c) \/ MoveHome(c) \/ WakeMask(c)
           \/ SkipAck(c) \/ Request(c)
    PROVE  HandshakeAside
  <1>. USE DEF HandshakeAside
  <1>t. pc \in [CPU -> Place] /\ notify \in [CPU -> CPU \cup {NoCpu}]
        /\ remote \in [CPU -> SUBSET Task]
    BY Zenon DEF SchedInv, Typed
  <1>1. CASE Enqueue(c)
    BY ZenonT(40), <1>1, <1>t DEF Enqueue, cpuVars, signalVars
  <1>2. CASE Drain(c)
    BY Zenon, <1>2, <1>t DEF Drain, signalVars
  <1>3. ASSUME NEW q, NEW t, NEW batch, NEW pruned, Take(c, q, t, batch, pruned)
        PROVE  HandshakeAside
    BY Zenon, <1>3, <1>t DEF Take, Run, workVars
  <1>4. ASSUME NEW pruned, NEW next \in {"steal", "publish"}, TakeNothing(c, pruned, next)
        PROVE  HandshakeAside
    BY Zenon, <1>4, <1>t DEF TakeNothing, signalVars, workVars
  <1>5. CASE Fetch(c) \/ PullOwn(c) \/ PullTask(c)
    BY Zenon, <1>5, <1>3 DEF Fetch, PullOwn, PullTask
  <1>6. CASE FetchNothing(c) \/ PullNothing(c)
    BY Zenon, <1>6, <1>4 DEF FetchNothing, PullNothing
  <1>7. CASE ChooseVictim(c)
    <2>1. UNCHANGED <<idle, wakeSignal, ipi, swapped, notify, remote>>
      BY Zenon, <1>7 DEF ChooseVictim, signalVars, workVars
    <2>2. pc' = [pc EXCEPT ![c] = "publish"] \/ pc' = [pc EXCEPT ![c] = "pull"]
      BY Zenon, <1>7 DEF ChooseVictim
    <2>. QED
      BY Zenon, <2>1, <2>2, <1>t
  <1>8. CASE LeaveIrq(c) \/ SwitchDone(c) \/ SkipAck(c)
    BY Zenon, <1>8, <1>t DEF LeaveIrq, SwitchDone, SkipAck, signalVars, workVars
  <1>9. CASE FinishSwitch(c) \/ ReleaseTask(c)
    BY Zenon, <1>9, <1>t DEF FinishSwitch, ReleaseTask, signalVars, workVars
  <1>10. CASE ChooseHome(c)
    BY Zenon, <1>10, <1>t DEF ChooseHome, cpuVars, signalVars, workVars
  <1>11. CASE MoveHome(c)
    BY Zenon, <1>11, <1>t DEF MoveHome, Quiet, cpuVars, signalVars
  <1>12. CASE WakeMask(c)
    BY Zenon, <1>12, <1>t DEF WakeMask, Quiet, cpuVars, signalVars
  <1>13. ASSUME NEW why, Leave(c, why)
         PROVE  HandshakeAside
    BY <1>13, <1>t DEF Leave, PrepareSwitch, workVars
  <1>14. ASSUME NEW u, WakeSwitching(c, u) \/ WakeBlocked(c, u) \/ Spawn(c, u)
         PROVE  HandshakeAside
    BY Zenon, <1>14, <1>t DEF WakeSwitching, WakeBlocked, Spawn, cpuVars, signalVars, workVars
  <1>15. ASSUME NEW u, NEW mask, SetAffinity(c, u, mask)
         PROVE  HandshakeAside
    BY <1>15, <1>t DEF SetAffinity, cpuVars, signalVars, workVars
  <1>16. CASE Request(c)
    BY Zenon, <1>16, <1>13, <1>14, <1>15 DEF Request
  <1>. QED
    BY Zenon, <1>1, <1>2, <1>5, <1>6, <1>7, <1>8, <1>9, <1>10, <1>11, <1>12, <1>16

\* A task is pushed on the list of a sleeping CPU by one that will signal it.
LEMMA PushWakes ==
    ASSUME IdleInv, NEW c \in CPU, PushRemote(c)
    PROVE  Handshake' /\ NoLostRemoteWake'
  <1>1. PICK p \in place[c] : /\ notify[c] = NoCpu
                              /\ remote' = [remote EXCEPT ![p.target] = @ \cup {p.task}]
                              /\ notify' = [notify EXCEPT ![c] = p.target]
    BY Zenon DEF PushRemote
  <1>2. UNCHANGED <<idle, wakeSignal, ipi, swapped, pc>>
    BY Zenon DEF PushRemote, cpuVars, signalVars
  <1>3. p.target \in CPU
    BY DEF IdleInv, SchedInv, Typed, Placement
  <1>4. notify'[c] = p.target /\ \A d \in CPU : notify[d] # NoCpu => notify'[d] = notify[d]
    BY Zenon, <1>1 DEF IdleInv, SchedInv, Typed
  <1>5. \A d \in CPU : remote'[d] = remote[d] \/ d = p.target
    BY Zenon, <1>1 DEF IdleInv, SchedInv, Typed
  <1>6. Handshake'
    BY <1>2, <1>4, NoneAssumption DEF IdleInv, Handshake
  <1>7. ASSUME NEW d \in CPU, pc[d] = "wfi", remote'[d] # {}
        PROVE  ipi[d] \/ \E e \in CPU : notify'[e] = d
    <2>1. CASE d = p.target
      BY Zenon, <2>1, <1>4
    <2>2. CASE d # p.target
      <3>1. remote[d] # {}
        BY <2>2, <1>5, <1>7
      <3>2. ipi[d] \/ \E e \in CPU : notify[e] = d
        BY Zenon, <3>1, <1>7 DEF IdleInv, NoLostRemoteWake
      <3>. QED
        BY <3>2, <1>4, NoneAssumption
    <2>. QED
      BY Zenon, <2>1, <2>2
  <1>. QED
    BY Zenon, <1>2, <1>6, <1>7 DEF NoLostRemoteWake

\* wake_scheduler_cpu_remote sets the signal before it looks at the idle flag,
\* and skips the interrupt only when somebody else is to look.
LEMMA NotifyWakes ==
    ASSUME IdleInv, NEW c \in CPU, NotifySwap(c) \/ NotifyIpi(c)
    PROVE  Handshake' /\ NoLostRemoteWake'
  <1>. USE DEF IdleInv
  <1>u. UNCHANGED <<remote, pc, idle>>
    BY Zenon DEF NotifySwap, NotifyIpi, cpuVars
  <1>1. PICK d \in CPU : d = notify[c]
    BY Zenon DEF NotifySwap, NotifyIpi, SchedInv, Typed
  <1>t. /\ notify \in [CPU -> CPU \cup {NoCpu}] /\ wakeSignal \in [CPU -> BOOLEAN]
        /\ swapped \in [CPU -> BOOLEAN] /\ ipi \in [CPU -> BOOLEAN] /\ idle \in [CPU -> BOOLEAN]
    BY Zenon DEF SchedInv, Typed, Handshake
  <1>2. CASE NotifySwap(c)
    <2>1. /\ ~swapped[c] /\ ipi' = ipi
          /\ wakeSignal' = [wakeSignal EXCEPT ![d] = TRUE]
          /\ swapped' = [swapped EXCEPT ![c] = ~wakeSignal[d]]
          /\ notify' = [notify EXCEPT ![c] = IF wakeSignal[d] THEN NoCpu ELSE @]
      BY Zenon, <1>1, <1>2 DEF NotifySwap
    <2>2. wakeSignal' \in [CPU -> BOOLEAN] /\ swapped' \in [CPU -> BOOLEAN]
      BY <2>1, <1>t
    <2>3. CASE wakeSignal[d]
      <3>1. wakeSignal' = wakeSignal /\ swapped' = swapped
        BY <2>1, <2>3, <1>t
      <3>2. \A e \in CPU : swapped[e] => notify'[e] = notify[e]
        BY <2>1, <1>t
      <3>3. \A e \in CPU \ {d} : \A f \in CPU : notify[f] = e => notify'[f] = e
        BY <2>1, <1>1, <1>t
      <3>4. Handshake'
        <4>1. ASSUME NEW e \in CPU, pc[e] = "wfi", wakeSignal[e]
              PROVE  ipi[e] \/ \E f \in CPU : notify'[f] = e /\ swapped[f]
          BY Zenon, <4>1, <3>2 DEF Handshake
        <4>2. UNCHANGED <<idle, wakeSignal, ipi, swapped, pc>>
          BY <3>1, <2>1, <1>u
        <4>. QED
          BY <4>1, <4>2 DEF Handshake
      <3>5. ASSUME NEW e \in CPU, pc[e] = "wfi", remote[e] # {}
            PROVE  ipi[e] \/ \E f \in CPU : notify'[f] = e
        <4>1. CASE e = d
          BY Zenon, <4>1, <3>2, <3>5, <2>3 DEF Handshake
        <4>2. CASE e # d
          BY Zenon, <4>2, <3>3, <3>5 DEF NoLostRemoteWake
        <4>. QED
          BY Zenon, <4>1, <4>2
      <3>. QED
        BY Zenon, <3>4, <3>5, <2>1, <1>u DEF NoLostRemoteWake
    <2>4. CASE ~wakeSignal[d]
      <3>1. notify' = notify /\ swapped'[c]
        BY Zenon, <2>1, <2>4, <1>t
      <3>2. /\ \A e \in CPU : swapped[e] => swapped'[e]
            /\ \A e \in CPU \ {d} : wakeSignal'[e] = wakeSignal[e]
        BY Zenon, <2>1, <2>4, <1>t
      <3>3. Handshake'
        BY <3>1, <3>2, <2>1, <2>2, <1>1, <1>u DEF Handshake
      <3>4. NoLostRemoteWake'
        BY ZenonT(40), <3>1, <2>1, <1>u DEF NoLostRemoteWake
      <3>. QED
        BY <3>3, <3>4
    <2>. QED
      BY <2>3, <2>4
  <1>3. CASE NotifyIpi(c)
    <2>1. /\ wakeSignal' = wakeSignal
          /\ ipi' = [ipi EXCEPT ![d] = @ \/ idle[d]]
          /\ swapped' = [swapped EXCEPT ![c] = FALSE]
          /\ notify' = [notify EXCEPT ![c] = NoCpu]
      BY Zenon, <1>1, <1>3 DEF NotifyIpi
    <2>2. ipi' \in [CPU -> BOOLEAN] /\ swapped' \in [CPU -> BOOLEAN]
      BY <2>1, <1>t
    <2>3. pc[d] = "wfi" => ipi'[d]
      BY Zenon, <2>1, <1>t DEF Handshake
    <2>4. \A e \in CPU \ {d} : /\ ipi'[e] = ipi[e]
                               /\ \A f \in CPU : notify[f] = e =>
                                     notify'[f] = e /\ swapped'[f] = swapped[f]
      BY Zenon, <2>1, <1>1, <1>t
    <2>5. Handshake'
      <3>1. ASSUME NEW e \in CPU, pc[e] = "wfi", wakeSignal[e]
            PROVE  ipi'[e] \/ \E f \in CPU : notify'[f] = e /\ swapped'[f]
        <4>1. CASE e = d
          BY <4>1, <3>1, <2>3
        <4>2. CASE e # d
          <5>1. ipi[e] \/ \E f \in CPU : notify[f] = e /\ swapped[f]
            BY Zenon, <3>1 DEF Handshake
          <5>2. /\ ipi'[e] = ipi[e]
                /\ \A f \in CPU : notify[f] = e => notify'[f] = e /\ swapped'[f] = swapped[f]
            BY Zenon, <4>2, <2>4
          <5>. QED
            BY Zenon, <5>1, <5>2
        <4>. QED
          BY <4>1, <4>2
      <3>. QED
        BY Zenon, <3>1, <2>1, <2>2, <1>u, <1>t DEF Handshake
    <2>6. NoLostRemoteWake'
      BY ZenonT(40), <2>3, <2>4, <1>u DEF NoLostRemoteWake
    <2>. QED
      BY <2>5, <2>6
  <1>. QED
    BY <1>2, <1>3

\* The CPU publishes itself idle, checks, sleeps and wakes up; it sleeps only
\* when it found neither the signal nor a remote entry.
LEMMA IdleBranch ==
    ASSUME IdleInv, NEW c \in CPU, PublishIdle(c) \/ CheckWake(c) \/ LeaveWfi(c)
    PROVE  Handshake' /\ NoLostRemoteWake'
  <1>. USE DEF IdleInv
  <1>u. UNCHANGED <<remote, swapped, notify>>
    BY Zenon DEF PublishIdle, CheckWake, WakeWaiting, LeaveWfi, workVars
  <1>t. /\ wakeSignal \in [CPU -> BOOLEAN] /\ ipi \in [CPU -> BOOLEAN]
        /\ idle \in [CPU -> BOOLEAN] /\ pc \in [CPU -> Place]
    BY Zenon DEF SchedInv, Typed, Handshake
  <1>1. /\ wakeSignal' \in [CPU -> BOOLEAN] /\ ipi' \in [CPU -> BOOLEAN]
        /\ idle' \in [CPU -> BOOLEAN]
    <2>1. CASE PublishIdle(c)
      BY Zenon, <2>1, <1>t DEF PublishIdle, signalVars
    <2>2. CASE CheckWake(c)
      BY Zenon, <2>2, <1>t DEF CheckWake, WakeWaiting
    <2>3. CASE LeaveWfi(c)
      BY Zenon, <2>3, <1>t DEF LeaveWfi
    <2>. QED
      BY <2>1, <2>2, <2>3
  <1>2. \A d \in CPU \ {c} : /\ pc'[d] = pc[d] /\ idle'[d] = idle[d]
                             /\ wakeSignal'[d] = wakeSignal[d] /\ ipi'[d] = ipi[d]
    <2>1. CASE PublishIdle(c)
      BY <2>1, <1>t DEF PublishIdle, signalVars
    <2>2. CASE CheckWake(c)
      BY Zenon, <2>2, <1>t DEF CheckWake, WakeWaiting
    <2>3. CASE LeaveWfi(c)
      BY Zenon, <2>3, <1>t DEF LeaveWfi
    <2>. QED
      BY Zenon, <2>1, <2>2, <2>3
  <1>3. /\ pc'[c] \in {"check1", "check2", "wfi"} => idle'[c]
        /\ pc'[c] = "wfi" => ~wakeSignal'[c] /\ remote[c] = {}
    <2>1. CASE PublishIdle(c)
      BY Zenon, <2>1, <1>t DEF PublishIdle
    <2>2. CASE CheckWake(c)
      BY Zenon, <2>2, <1>t DEF CheckWake, WakeWaiting
    <2>3. CASE LeaveWfi(c)
      BY Zenon, <2>3, <1>t DEF LeaveWfi
    <2>. QED
      BY Zenon, <2>1, <2>2, <2>3
  <1>4. Handshake'
    BY ZenonT(40), <1>u, <1>1, <1>2, <1>3 DEF Handshake
  <1>5. NoLostRemoteWake'
    BY ZenonT(40), <1>u, <1>2, <1>3 DEF NoLostRemoteWake
  <1>. QED
    BY <1>4, <1>5

\* An interrupt is taken outside of the sleep; a new one only helps.
LEMMA InterruptKeeps ==
    ASSUME IdleInv, NEW c \in CPU, Interrupt(c)
    PROVE  Handshake' /\ NoLostRemoteWake'
  <1>. USE DEF IdleInv
  <1>u. UNCHANGED <<remote, swapped, notify, pc, idle>>
    BY Zenon DEF Interrupt, TakeIpi, OtherIpi, cpuVars, workVars
  <1>t. wakeSignal \in [CPU -> BOOLEAN] /\ ipi \in [CPU -> BOOLEAN]
    BY Zenon DEF Handshake
  <1>1. /\ wakeSignal' \in [CPU -> BOOLEAN] /\ ipi' \in [CPU -> BOOLEAN]
        /\ \A d \in CPU : pc[d] = "wfi" => (ipi[d] => ipi'[d]) /\ wakeSignal'[d] = wakeSignal[d]
    <2>1. CASE TakeIpi(c)
      BY Zenon, <2>1, <1>t DEF TakeIpi
    <2>2. CASE OtherIpi(c)
      BY Zenon, <2>2, <1>t DEF OtherIpi
    <2>. QED
      BY Zenon, <2>1, <2>2 DEF Interrupt
  <1>2. Handshake'
    BY Zenon, <1>u, <1>1 DEF Handshake
  <1>3. NoLostRemoteWake'
    BY Zenon, <1>u, <1>1 DEF NoLostRemoteWake
  <1>. QED
    BY <1>2, <1>3

\* request_scheduler_preemption sets the signal together with the interrupt.
LEMMA PreemptWakes ==
    ASSUME IdleInv, NEW c \in CPU, PreemptMoved(c)
    PROVE  Handshake' /\ NoLostRemoteWake'
  <1>. USE DEF IdleInv
  <1>u. UNCHANGED <<remote, swapped, notify, idle>>
    BY DEF PreemptMoved, workVars
  <1>t. wakeSignal \in [CPU -> BOOLEAN] /\ ipi \in [CPU -> BOOLEAN]
    BY Zenon DEF Handshake
  <1>1. CASE PrepareSwitch(c, "Yield") /\ UNCHANGED <<wakeSignal, ipi>>
    <2>1. HandshakeAside
      BY <1>u, <1>1 DEF HandshakeAside, PrepareSwitch, SchedInv, Typed
    <2>. QED
      BY <2>1, AsideKeeps
  <1>2. ASSUME NEW hit,
               wakeSignal' = [d \in CPU |-> wakeSignal[d] \/ d \in hit],
               ipi' = [d \in CPU |-> ipi[d] \/ d \in hit], pc' = pc
        PROVE  Handshake' /\ NoLostRemoteWake'
    <2>1. wakeSignal' \in [CPU -> BOOLEAN] /\ ipi' \in [CPU -> BOOLEAN]
      BY <1>2, <1>t
    <2>2. \A d \in CPU : /\ ipi[d] => ipi'[d]
                         /\ wakeSignal'[d] => wakeSignal[d] \/ ipi'[d]
      BY <1>2, <1>t
    <2>3. Handshake'
      BY Zenon, <1>u, <1>2, <2>1, <2>2 DEF Handshake
    <2>4. NoLostRemoteWake'
      BY Zenon, <1>u, <1>2, <2>2 DEF NoLostRemoteWake
    <2>. QED
      BY <2>3, <2>4
  <1>. QED
    BY Zenon, <1>1, <1>2 DEF PreemptMoved
=============================================================================
