----------------------------- MODULE ProcessLife -----------------------------
(* The life of a process: clone and its publication, threads, the exclusion a  *)
(* thread takes to exit or to exec for its whole group, reparenting, the exit  *)
(* published to the parent, wait4 and waitid, and the vfork hand-over.  Code:  *)
(* os/src/task/{mod,process,process_lifecycle,clone,exec,lifecycle}.rs and     *)
(* os/src/syscall/{wait,process/clone}.rs.                                     *)
(*                                                                             *)
(* A process is its process control block: it exists while something holds     *)
(* it, and its pid returns to the allocator when nothing does.  Every action   *)
(* is one critical section of one process lock.  Processor time is the         *)
(* Scheduler module's subject; here a thread is off its processor when it is   *)
(* asleep, in user mode, or yielding.                                          *)
EXTENDS Naturals, FiniteSets

CONSTANTS Pid,         \* process ids, and with them the control blocks
          InitPid,     \* INITPROC, which never exits
          Nobody,      \* no process
          LifeOps,     \* LifeOps[p]: what p's threads may call
          Dispositions,\* Dispositions[p]: the SIGCHLD actions p may install
          SmpCpus,     \* whether two threads can run at the same time
          MaxForks     \* bound on the processes created

VARIABLES pcb,         \* the process control blocks
          registered,  \* PID2PCB
          th,          \* the threads
          forks,
          lifeFault    \* a panic of the code was reached

plVars == <<pcb, registered, th, forks, lifeFault>>

(* Two task objects per process; slot 0 of PCB.tasks holds pcb.leader.         *)
Task == Pid \X {1, 2}
NoThread == <<Nobody, 0>>
ProcOf(t) == t[1]

(* `born` is history: the parent at the clone.                                 *)
Blank == [parent |-> Nobody, born |-> Nobody, children |-> {}, waiters |-> {}, zombie |-> FALSE,
          subreaper |-> FALSE, action |-> "default", vfork |-> NoThread,
          excl |-> NoThread, leader |-> 1]
NoTask == [at |-> "none", asleep |-> FALSE, pending |-> FALSE, other |-> Nobody,
           taken |-> {}, up |-> Nobody, wakes |-> {}, hang |-> TRUE, sees |-> FALSE]
AtUser == [NoTask EXCEPT !.at = "user"]

LifeInit ==
    /\ pcb = [p \in Pid |-> Blank]
    /\ registered = {InitPid}
    /\ th = [t \in Task |-> IF t = <<InitPid, 1>> THEN AtUser ELSE NoTask]
    /\ forks = 0 /\ lifeFault = FALSE

Threads(p) == {t \in Task : ProcOf(t) = p /\ th[t].at # "none"}

(* Who holds a reference to p's control block: the pid table, a child list, a  *)
(* thread of p, or a thread that keeps it in a local variable.                 *)
Held(p) ==
    \/ p \in registered
    \/ \E q \in Pid : p \in pcb[q].children
    \/ \E t \in Task : /\ th[t].at # "none"
                       /\ \/ ProcOf(t) = p
                          \/ p \in th[t].taken \cup {th[t].other, th[t].up}

(* Weak::upgrade of the parent link.                                           *)
ParentProcess(p) == IF pcb[p].parent # Nobody /\ Held(pcb[p].parent)
                    THEN pcb[p].parent ELSE Nobody

(* wakeup_task acts on blocked threads only.                                   *)
WakeTasks(f, S) == [t \in Task |-> IF t \in S THEN [f[t] EXCEPT !.asleep = FALSE]
                                   ELSE f[t]]

(* A thread the exclusion may find off its processor.  The scheduler runs a    *)
(* thread of an excluded group only if it owns the exclusion or never left.    *)
OffCpu(t) == th[t].at \in {"user", "exitWant", "wait", "vforkWait"}
MayRun(t) == /\ ~th[t].asleep
             /\ pcb[ProcOf(t)].excl \in {NoThread, t} \/ ~OffCpu(t)
At(t, place) == th[t].at = place /\ MayRun(t)
MayCall(t, op) == At(t, "user") /\ op \in LifeOps[ProcOf(t)]
Goes(t, place) == th' = [th EXCEPT ![t].at = place]

-----------------------------------------------------------------------------
(* Creating processes and threads.                                             *)

(* sys_clone_process_inner up to publication.  CLONE_PARENT makes the child a  *)
(* sibling.  fork copies the signal actions; a new child is no subreaper.      *)
ForkBuild(t, op) ==
    /\ MayCall(t, op) /\ forks < MaxForks
    /\ LET p == ProcOf(t)
           parent == IF op = "sibling" THEN ParentProcess(p) ELSE p
       IN /\ parent # Nobody
          /\ \E c \in Pid :
               /\ ~Held(c)
               /\ pcb' = [pcb EXCEPT ![c] =
                            [Blank EXCEPT !.parent = parent, !.born = parent,
                                          !.action = pcb[p].action,
                                          !.vfork = IF op = "vfork" THEN t ELSE NoThread]]
               /\ th' = [th EXCEPT ![t].at = "forked", ![t].other = c, ![t].up = parent]
    /\ forks' = forks + 1
    /\ UNCHANGED <<registered, lifeFault>>

(* A clone argument that cannot be written: the child was never published.     *)
ForkFails(t) ==
    /\ At(t, "forked")
    /\ th' = [th EXCEPT ![t].at = "user", ![t].other = Nobody, ![t].up = Nobody]
    /\ UNCHANGED <<pcb, registered, forks, lifeFault>>

(* publish_fork_child: first the parent's child list, then the pid table.      *)
PublishChild(t) ==
    /\ At(t, "forked")
    /\ pcb' = [pcb EXCEPT ![th[t].up].children = @ \cup {th[t].other}]
    /\ Goes(t, "published")
    /\ UNCHANGED <<registered, forks, lifeFault>>

(* register_process, then add_task: the child may run.  A vfork caller blocks  *)
(* before that.                                                                *)
StartChild(t) ==
    /\ At(t, "published")
    /\ LET c == th[t].other
           waits == pcb[c].vfork = t
       IN /\ registered' = registered \cup {c}
          /\ th' = [th EXCEPT ![<<c, 1>>] = AtUser,
                              ![t].at = IF waits THEN "vforkWait" ELSE "user",
                              ![t].asleep = waits,
                              ![t].other = IF waits THEN c ELSE Nobody,
                              ![t].up = Nobody]
    /\ UNCHANGED <<pcb, forks, lifeFault>>

(* wait_for_vfork_child after a wake: the flag decides, and the caller blocks  *)
(* again in a second step that another processor can precede.                  *)
VforkCheck(t) ==
    /\ At(t, "vforkWait")
    /\ th' = IF pcb[th[t].other].vfork = NoThread
             THEN [th EXCEPT ![t].at = "user", ![t].other = Nobody]
             ELSE IF SmpCpus THEN [th EXCEPT ![t].at = "vforkBlock"]
             ELSE [th EXCEPT ![t].asleep = TRUE]
    /\ UNCHANGED <<pcb, registered, forks, lifeFault>>

VforkBlock(t) ==
    /\ At(t, "vforkBlock")
    /\ th' = [th EXCEPT ![t].at = "vforkWait", ![t].asleep = TRUE]
    /\ UNCHANGED <<pcb, registered, forks, lifeFault>>

(* sys_clone_thread: the new task enters the first free slot.                  *)
CloneThread(t) ==
    /\ MayCall(t, "thread")
    /\ \E s \in Task : /\ ProcOf(s) = ProcOf(t) /\ th[s].at = "none"
                       /\ th' = [th EXCEPT ![s] = AtUser]
    /\ UNCHANGED <<pcb, registered, forks, lifeFault>>

-----------------------------------------------------------------------------
(* wait4 and waitid.                                                           *)

(* The calls differ in which children they match and in the flags; `up` holds *)
(* the pid asked for, or Nobody for every child.                               *)
EnterWait(t) ==
    /\ MayCall(t, "wait")
    /\ \E target \in {Nobody} \cup pcb[ProcOf(t)].children,
          hang, sees \in BOOLEAN :
         th' = [th EXCEPT ![t].at = "wait", ![t].up = target, ![t].hang = hang,
                          ![t].sees = sees]
    /\ UNCHANGED <<pcb, registered, forks, lifeFault>>

Matching(p, target) == {c \in pcb[p].children : target \in {Nobody, c}}
EndWait(t) == [th EXCEPT ![t] = [AtUser EXCEPT !.pending = th[t].pending]]

(* A pass of the loop, under the process lock: no matching child is ECHILD; a  *)
(* zombie is reaped, or only looked at with WNOWAIT; WNOHANG returns; else the *)
(* thread blocks and enters child_waiters.  remove_from_pid2process panics on  *)
(* a pid that is not in the table.                                             *)
WaitScan(t) ==
    /\ At(t, "wait")
    /\ LET p == ProcOf(t)
           found == Matching(p, th[t].up)
           dead == {c \in found : pcb[c].zombie}
           rest == pcb[p].waiters \ {t}
       IN IF dead # {}
          THEN \E c \in dead :
                 /\ th' = EndWait(t)
                 /\ IF th[t].sees
                    THEN UNCHANGED <<registered, lifeFault>>
                         /\ pcb' = [pcb EXCEPT ![p].waiters = rest]
                    ELSE /\ registered' = registered \ {c}
                         /\ lifeFault' = (lifeFault \/ c \notin registered)
                         /\ pcb' = [pcb EXCEPT ![p].children = @ \ {c},
                                               ![p].waiters = rest]
          ELSE /\ UNCHANGED <<registered, lifeFault>>
               /\ IF found = {} \/ ~th[t].hang
                  THEN pcb' = [pcb EXCEPT ![p].waiters = rest] /\ th' = EndWait(t)
                  ELSE /\ pcb' = [pcb EXCEPT ![p].waiters = rest \cup {t}]
                       /\ th' = [th EXCEPT ![t].at = "waitSignal", ![t].asleep = TRUE]
    /\ UNCHANGED forks

(* The thread is marked blocked but still on its processor, and the lock is    *)
(* released; a pending signal with a handler ends the call with EINTR.         *)
WaitSignal(t) ==
    /\ th[t].at = "waitSignal"
    /\ LET p == ProcOf(t)
           interrupted == th[t].pending /\ pcb[p].action = "handler"
       IN IF interrupted
          THEN /\ th' = WakeTasks(EndWait(t), {t})
               /\ pcb' = [pcb EXCEPT ![p].waiters = @ \ {t}]
          ELSE Goes(t, "wait") /\ UNCHANGED pcb
    /\ UNCHANGED <<registered, forks, lifeFault>>

(* Signal delivery on the way back to user mode consumes the pending signal.   *)
Deliver(t) ==
    /\ At(t, "user") /\ th[t].pending
    /\ th' = [th EXCEPT ![t].pending = FALSE]
    /\ UNCHANGED <<pcb, registered, forks, lifeFault>>

(* sigaction for SIGCHLD, and prctl(PR_SET_CHILD_SUBREAPER, 1).                *)
SetAction(t) ==
    /\ At(t, "user")
    /\ \E a \in Dispositions[ProcOf(t)] \ {pcb[ProcOf(t)].action} :
         pcb' = [pcb EXCEPT ![ProcOf(t)].action = a]
    /\ UNCHANGED <<registered, th, forks, lifeFault>>

SetSubreaper(t) ==
    /\ MayCall(t, "subreaper")
    /\ pcb' = [pcb EXCEPT ![ProcOf(t)].subreaper = TRUE]
    /\ UNCHANGED <<registered, th, forks, lifeFault>>

-----------------------------------------------------------------------------
(* Exit and exec.                                                              *)

Siblings(t) == Threads(ProcOf(t)) \ {t}
IsLeader(t) == pcb[ProcOf(t)].leader = t[2]
Ends(f, S) == [t \in Task |-> IF t \in S THEN NoTask ELSE f[t]]

(* exit of a thread that is not the leader.                                    *)
ExitThread(t) ==
    /\ MayCall(t, "exit") /\ ~IsLeader(t)
    /\ th' = Ends(th, {t})
    /\ UNCHANGED <<pcb, registered, forks, lifeFault>>

(* exit_current of the group, begin_group_exit_exclusion: the caller yields    *)
(* while another thread owns the exclusion.                                    *)
ExitGroup(t) ==
    /\ MayCall(t, "exit") /\ ProcOf(t) # InitPid
    /\ Goes(t, "exitWant")
    /\ UNCHANGED <<pcb, registered, forks, lifeFault>>

ExitExclude(t) ==
    /\ At(t, "exitWant") /\ pcb[ProcOf(t)].excl = NoThread
    /\ pcb' = [pcb EXCEPT ![ProcOf(t)].excl = t]
    /\ Goes(t, "exitSpin")
    /\ UNCHANGED <<registered, forks, lifeFault>>

(* The owner spins until its siblings are off their processors and terminates  *)
(* them where they are.                                                        *)
Excluded(t) == \A s \in Siblings(t) : OffCpu(s)
ExitTerminate(t) ==
    /\ At(t, "exitSpin") /\ Excluded(t)
    /\ th' = [Ends(th, Siblings(t)) EXCEPT ![t].at = "exitTake"]
    /\ UNCHANGED <<pcb, registered, forks, lifeFault>>

(* Under the process lock: sample the parent, take the children.               *)
ExitTake(t) ==
    /\ At(t, "exitTake")
    /\ LET p == ProcOf(t)
       IN /\ pcb' = [pcb EXCEPT ![p].children = {}]
          /\ th' = [th EXCEPT ![t].at = "exitVfork", ![t].other = ParentProcess(p),
                              ![t].up = ParentProcess(p), ![t].taken = pcb[p].children]
    /\ UNCHANGED <<registered, forks, lifeFault>>

(* release_vfork_parent: the link is taken under the lock and the parent woken. *)
ReleaseVforkParent(p) == WakeTasks(th, {pcb[p].vfork})
ExitVfork(t) ==
    /\ At(t, "exitVfork")
    /\ pcb' = [pcb EXCEPT ![ProcOf(t)].vfork = NoThread]
    /\ th' = [ReleaseVforkParent(ProcOf(t)) EXCEPT ![t].at = "exitWalk"]
    /\ UNCHANGED <<registered, forks, lifeFault>>

(* nearest_child_reaper looks at one ancestor at a time, from the parent       *)
(* sampled before.                                                             *)
ExitWalk(t) ==
    /\ At(t, "exitWalk")
    /\ LET q == th[t].up
       IN th' = IF q = Nobody
                THEN [th EXCEPT ![t].at = "exitMove", ![t].up = InitPid]
                ELSE IF pcb[q].subreaper /\ ~pcb[q].zombie
                THEN [th EXCEPT ![t].at = "exitMove"]
                ELSE [th EXCEPT ![t].up = ParentProcess(q)]
    /\ UNCHANGED <<pcb, registered, forks, lifeFault>>

(* The children go to the reaper, under its lock.                              *)
Adopted(reaper, moved) ==
    [p \in Pid |-> IF p = reaper THEN [pcb[p] EXCEPT !.children = @ \cup moved]
                   ELSE IF p \in moved THEN [pcb[p] EXCEPT !.parent = reaper]
                   ELSE pcb[p]]
ExitReparent(t) ==
    /\ At(t, "exitMove")
    /\ pcb' = Adopted(th[t].up, th[t].taken)
    /\ th' = [th EXCEPT ![t].at = "exitPublish", ![t].up = Nobody, ![t].taken = {}]
    /\ UNCHANGED <<registered, forks, lifeFault>>

(* publish_process_exit, under the lock of the parent sampled in ExitTake: its *)
(* waiters are taken; an explicit SIG_IGN drops the child from the list and    *)
(* from the pid table; otherwise the child turns zombie and the signal is      *)
(* queued to the parent's first task, which is woken if it handles it.         *)
FirstTask(q) == {s \in Threads(q) : IsLeader(s)}
Woken(waiters, signalled) == waiters \cup signalled
Publish(t) ==
    /\ At(t, "exitPublish")
    /\ LET p == ProcOf(t)
           q == th[t].other
           signalled == IF pcb[q].action = "handler" THEN FirstTask(q) ELSE {}
       IN IF q = Nobody
          THEN /\ pcb' = [pcb EXCEPT ![p].zombie = TRUE]
               /\ Goes(t, "exitWake")
               /\ UNCHANGED <<registered, lifeFault>>
          ELSE IF pcb[q].action = "ignore"
          THEN /\ pcb' = [pcb EXCEPT ![q].children = @ \ {p}, ![q].waiters = {}]
               /\ registered' = registered \ {p}
               /\ lifeFault' = (lifeFault \/ p \notin registered)
               /\ th' = [th EXCEPT ![t].at = "exitWake", ![t].wakes = pcb[q].waiters]
          ELSE /\ pcb' = [pcb EXCEPT ![p].zombie = TRUE, ![q].waiters = {}]
               /\ th' = [s \in Task |->
                           IF s = t THEN [th[t] EXCEPT !.at = "exitWake",
                                            !.wakes = Woken(pcb[q].waiters, signalled)]
                           ELSE IF s \in FirstTask(q) THEN [th[s] EXCEPT !.pending = TRUE]
                           ELSE th[s]]
               /\ UNCHANGED <<registered, lifeFault>>
    /\ UNCHANGED forks

(* TaskGroupSchedulerGuard's Drop.                                             *)
EndExclusion(block) == [block EXCEPT !.excl = NoThread]

(* The wakes follow the lock's release; the task then leaves for good.         *)
ExitWake(t) ==
    /\ At(t, "exitWake")
    /\ th' = Ends(WakeTasks(th, th[t].wakes), {t})
    /\ pcb' = [pcb EXCEPT ![ProcOf(t)] = EndExclusion(@)]
    /\ UNCHANGED <<registered, forks, lifeFault>>

(* exec: EAGAIN when another thread owns the exclusion.                        *)
ExecExclude(t) ==
    /\ MayCall(t, "exec") /\ pcb[ProcOf(t)].excl = NoThread
    /\ pcb' = [pcb EXCEPT ![ProcOf(t)].excl = t]
    /\ Goes(t, "execSpin")
    /\ UNCHANGED <<registered, forks, lifeFault>>

(* prepare_exec_thread_group: the siblings end; a caller that is not the       *)
(* leader moves into slot 0.                                                   *)
ExecPrepare(t) ==
    /\ At(t, "execSpin") /\ Excluded(t)
    /\ th' = [Ends(th, Siblings(t)) EXCEPT ![t].at = "execCommit"]
    /\ pcb' = [pcb EXCEPT ![ProcOf(t)].leader = t[2]]
    /\ UNCHANGED <<registered, forks, lifeFault>>

(* The image is committed: handlers are reset, the vfork parent released.  A   *)
(* failure before the commit returns to the old image, one after it to the new *)
(* image without the release.                                                  *)
ExecCommit(t, fails) ==
    /\ At(t, "execCommit")
    /\ LET p == ProcOf(t)
           reset == IF pcb[p].action = "handler" THEN "default" ELSE pcb[p].action
           image == [pcb[p] EXCEPT !.action = reset]
       IN CASE fails = "before" ->
                 /\ pcb' = [pcb EXCEPT ![p] = EndExclusion(@)]
                 /\ Goes(t, "user")
            [] fails = "after" ->
                 /\ pcb' = [pcb EXCEPT ![p] = EndExclusion(image)]
                 /\ Goes(t, "user")
            [] fails = "no" ->
                 /\ pcb' = [pcb EXCEPT ![p] = [EndExclusion(image) EXCEPT !.vfork = NoThread]]
                 /\ th' = [ReleaseVforkParent(p) EXCEPT ![t].at = "user"]
    /\ UNCHANGED <<registered, forks, lifeFault>>

ExitStep(t) ==
    \/ ExitExclude(t) \/ ExitTerminate(t) \/ ExitTake(t) \/ ExitVfork(t)
    \/ ExitWalk(t) \/ ExitReparent(t) \/ Publish(t) \/ ExitWake(t)

LifeStep(t) ==
    \/ \E op \in {"fork", "vfork", "sibling"} : ForkBuild(t, op)
    \/ ForkFails(t) \/ PublishChild(t) \/ StartChild(t)
    \/ VforkCheck(t) \/ VforkBlock(t) \/ CloneThread(t)
    \/ EnterWait(t) \/ WaitScan(t) \/ WaitSignal(t) \/ Deliver(t)
    \/ SetAction(t) \/ SetSubreaper(t)
    \/ ExitThread(t) \/ ExitGroup(t) \/ ExitStep(t)
    \/ ExecExclude(t) \/ ExecPrepare(t)
    \/ \E f \in {"no", "before", "after"} : ExecCommit(t, f)

LifeNext == \E t \in Task : LifeStep(t)
LifeSpec == LifeInit /\ [][LifeNext]_plVars

(* The scheduler runs every runnable thread, so a step of a call in progress   *)
(* is eventually taken.                                                        *)
InCall(t) == th[t].at # "user" /\ LifeStep(t)
LifeFairness == \A t \in Task : WF_plVars(InCall(t))

-----------------------------------------------------------------------------
(* A waker that has the thread on its list wakes it before it leaves.          *)
WakeComing(t) == \E s \in Task : t \in th[s].wakes

(* "A blocked wait4()/waitid() caller must observe child state" (mod.rs,       *)
(* publish_process_exit): a thread asleep in wait has a child to wait for and  *)
(* no zombie among those it matches, unless its wake is on the way.            *)
WaiterServed(t, Counts(_)) ==
    th[t].at = "wait" /\ th[t].asleep =>
        \/ WakeComing(t)
        \/ /\ Matching(ProcOf(t), th[t].up) # {}
           /\ ~ \E c \in Matching(ProcOf(t), th[t].up) : pcb[c].zombie /\ Counts(c)

(* wait4 never sleeps through the exit of a child the process created.         *)
WaitersServed == \A t \in Task : WaiterServed(t, LAMBDA c : pcb[c].born = ProcOf(t))

(* The same for every child, those adopted from an exited parent included.     *)
AdoptersServed == \A t \in Task : WaiterServed(t, LAMBDA c : TRUE)

(* exit_current, publish_fork_child and the reaping calls: every registered    *)
(* process but init is on the list of exactly one process that can still wait  *)
(* for it, or in the hands of one exiting thread; every listed child is in the *)
(* pid table or just being published; and no pid leaves the table twice.       *)
CanReap(q) == \E t \in Threads(q) : th[t].at \notin
                {"exitVfork", "exitWalk", "exitMove", "exitPublish", "exitWake"}
Keepers(p) == Cardinality({q \in Pid : p \in pcb[q].children /\ CanReap(q)})
              + Cardinality({t \in Task : p \in th[t].taken})
FamilyExact ==
    /\ ~lifeFault
    /\ \A p \in registered \ {InitPid} : Keepers(p) = 1
    /\ \A q \in Pid : \A p \in pcb[q].children :
          p \in registered \/ \E t \in Task : th[t].at = "published" /\ th[t].other = p

(* release_vfork_parent "wakes the saved CLONE_VFORK parent exactly once": a   *)
(* vfork caller is asleep only while its child still owes it the wake.         *)
VforkServed == \A t \in Task :
    th[t].at = "vforkWait" /\ th[t].asleep => pcb[th[t].other].vfork = t

(* begin_group_exit_exclusion: a thread that asked to exit its group leaves,   *)
(* whoever owned the exclusion when it asked.                                  *)
ExitsEnd == \A t \in Task : th[t].at = "exitWant" ~> th[t].at = "none"
=============================================================================
