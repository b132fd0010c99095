--------------------------- MODULE SchedulerProofs ---------------------------
(***************************************************************************)
(* The scheduler, for any CPUs, tasks and masks: a task that can run is in *)
(* exactly one place, no assertion of sched.rs, processor.rs or tcb.rs     *)
(* fails, and no CPU sleeps through its remote wake list.  Switches,       *)
(* wakeups, clone and affinity calls keep the invariant of SchedulerLoop,  *)
(* and the theorems follow.                                                *)
(***************************************************************************)
EXTENDS SchedulerLoop

\* choose_run_queue returns a CPU of the task's mask, whatever it was asked for.
LEMMA HomesAllowed ==
    ASSUME NEW m \in SUBSET CPU, NEW c
    PROVE  /\ NewHomes(c, m) \subseteq m /\ WakeHomes(c, m) \subseteq m
           /\ AffinityHomes(c, m) \subseteq m
  <1>1. IdleIn(m) \subseteq m /\ IdleOrAny(m) \subseteq m
    BY Zenon DEF IdleIn, IdleOrAny
  <1>. QED
    BY Zenon, <1>1 DEF NewHomes, WakeHomes, AffinityHomes

-----------------------------------------------------------------------------
(***************************************************************************)
(* Switches                                                                *)
(***************************************************************************)
\* The task of a CPU in "run" or "switch" owns it.
LEMMA CurrentIs ==
    ASSUME SchedInv, NEW c \in CPU, pc[c] \in {"run", "switch"}
    PROVE  /\ current[c] \in Task /\ onCpu[current[c]] = c
           /\ Where(current[c], "cpu", c)
           /\ queuedCpu[current[c]] = NoCpu
  <1>1. current[c] \in Task /\ onCpu[current[c]] = c
    BY DEF SchedInv, Typed, Loops, LoopAt
  <1>. QED
    BY <1>1, OwnerIs, NoneAssumption DEF SchedInv

\* prepare_current_switch's assertions hold of a running task.
LEMMA PrepareKeeps ==
    ASSUME SchedInv, NEW c \in CPU, NEW why \in {"Yield", "Block", "Exit"},
           pc[c] = "run", place[c] = {},
           PrepareSwitch(c, why),
           UNCHANGED <<queuedCpu, onCpu, wakePending, allowed, stopped, exclusive, rq,
                       remote, current, victim, place, notify>>,
           call' \in [Task -> Call], Calls'
    PROVE  SchedInv'
  <1>. USE DEF SchedInv
  <1>. DEFINE t == current[c]
  <1>1. t \in Task /\ onCpu[t] = c /\ queuedCpu[t] = NoCpu /\ status[t] = "Running"
    BY CurrentIs DEF Loops, LoopAt
  <1>2. Where(t, "cpu", c) /\ ~wakePending[t]
    BY CurrentIs, <1>1 DEF Fields
  <1>3. fault' = "none"
    BY <1>1, <1>2 DEF PrepareSwitch, PrepareFault
  <1>u. /\ reason' = [reason EXCEPT ![c] = why]
        /\ pc' = [pc EXCEPT ![c] = "switch"]
        /\ status' = [status EXCEPT ![t] = CASE why = "Block" -> "Blocked"
                                             [] why = "Exit"  -> "Exited"
                                             [] OTHER         -> @]
    BY DEF PrepareSwitch
  <1>s. /\ \A u \in Task \ {t} : status'[u] = status[u]
        /\ why = "Yield" => status'[t] = "Running"
        /\ why = "Block" => status'[t] = "Blocked"
        /\ why = "Exit" => status'[t] = "Exited"
        /\ status' \in [Task -> Status]
    BY <1>u, <1>1 DEF Typed, Status
  <1>5. Typed'
    BY <1>u, <1>s DEF Typed, Reason, Place
  <1>l. \A u \in Task, d \in CPU : LeavingOn(u, d)' <=> LeavingOn(u, d)
    BY <1>u DEF LeavingOn, Typed
  <1>6. Located'
    <2>1. ASSUME NEW u \in Task, u # t
          PROVE  LocatedAt(u)'
      <3>1. Untouched(u)
        BY <2>1, <1>s, <1>l DEF Untouched, PlacedBy
      <3>. QED
        BY <3>1, StaysLocated DEF Located
    <2>2. LocatedAt(t)'
      <3>1. Where(t, "cpu", c)'
        BY <1>1, <1>2, <1>l DEF Where, PlacedBy
      <3>2. status'[t] \in {"Running", "Blocked", "Exited"}
        BY <1>s
      <3>. QED
        BY <3>1, <3>2 DEF LocatedAt, Suits, Kind, Waiting
    <2>. QED
      BY <2>1, <2>2 DEF Located
  <1>7. Fields'
    <2>1. \A u \in Task : onCpu[u] # NoCpu => pc'[onCpu[u]] \in {"run", "switch"}
      BY <1>u DEF Fields, Typed
    <2>. QED
      BY <2>1, <1>s, <1>2 DEF Fields
  <1>8. Loops'
    <2>1. \A d \in CPU \ {c} : SameLoop(d)
      BY <1>u DEF SameLoop, Typed
    <2>2. pc'[c] = "switch" /\ reason'[c] = why /\ t # NoTask
      BY <1>u, <1>1, NoneAssumption DEF Typed
    <2>3. LoopAt(c)'
      BY <2>2, <1>1, <1>s DEF LoopAt
    <2>. QED
      BY <2>1, <2>3, <1>1, <1>s, OtherLoops
  <1>. QED
    BY <1>3, <1>5, <1>6, <1>7, <1>8 DEF Unstopped, NoFault

\* A task yields, blocks or exits.
LEMMA LeaveKeeps ==
    ASSUME SchedInv, NEW c \in CPU, NEW why \in {"Yield", "Block", "Exit"}, Leave(c, why)
    PROVE  SchedInv'
  <1>1. pc[c] = "run" /\ place[c] = {} /\ PrepareSwitch(c, why)
    BY DEF Leave, InTask, Quiet
  <1>2. UNCHANGED <<queuedCpu, onCpu, wakePending, allowed, call, stopped, exclusive, rq,
                    remote, current, victim, place, notify>>
    BY DEF Leave, workVars
  <1>3. call' \in [Task -> Call] /\ Calls'
    BY <1>2 DEF SchedInv, Typed, Calls, CallAt
  <1>. QED
    BY <1>1, <1>2, <1>3, PrepareKeeps

\* finish_current_switch's assertions hold, and the task it made Ready is this
\* CPU's to place.
LEMMA FinishSwitchKeeps ==
    ASSUME SchedInv, NEW c \in CPU, FinishSwitch(c)
    PROVE  SchedInv'
  <1>. USE DEF SchedInv
  <1>. DEFINE t == current[c]
              again == reason[c] = "Yield" \/ (reason[c] = "Block" /\ wakePending[t])
  <1>0. pc[c] = "switch"
    BY DEF FinishSwitch
  <1>1. t \in Task /\ onCpu[t] = c /\ queuedCpu[t] = NoCpu /\ Where(t, "cpu", c)
    BY CurrentIs, <1>0
  <1>2. /\ reason[c] \in {"Yield", "Block", "Exit"}
        /\ reason[c] = "Yield" => status[t] = "Running"
        /\ reason[c] = "Block" => status[t] = "Blocked"
        /\ reason[c] = "Exit" => status[t] = "Exited"
        /\ wakePending[t] => status[t] = "Blocked"
        /\ place[c] = {}
    <2>1. LoopAt(c) /\ reason[c] \in Reason
      BY DEF Loops, Typed
    <2>2. wakePending[t] => status[t] = "Blocked"
      BY <1>1 DEF Fields
    <2>. QED
      BY <1>0, <2>1, <2>2 DEF LoopAt, Reason
  <1>3. fault' = "none"
    BY <1>1, <1>2 DEF FinishSwitch, SwitchFault
  <1>u. /\ onCpu' = [onCpu EXCEPT ![t] = NoCpu]
        /\ status' = [status EXCEPT ![t] = IF again THEN "Ready" ELSE @]
        /\ wakePending' = [wakePending EXCEPT ![t] = FALSE]
        /\ reason' = [reason EXCEPT ![c] = IF again THEN @ ELSE "none"]
        /\ pc' = [pc EXCEPT ![c] = "ack"]
        /\ UNCHANGED <<queuedCpu, allowed, call, stopped, exclusive, rq, remote,
                       current, victim, place, notify>>
    BY Zenon, <1>1 DEF FinishSwitch, Unstopped, groupVars, workVars
  <1>4. Typed'
    BY <1>u, <1>1 DEF Typed, Status, Reason, Place
  <1>5. Located'
    <2>1. ASSUME NEW u \in Task, u # t
          PROVE  LocatedAt(u)'
      <3>1. \A d \in CPU : LeavingOn(u, d)' <=> LeavingOn(u, d)
        BY <2>1, <1>u DEF LeavingOn, Typed
      <3>2. Untouched(u)
        BY <2>1, <1>u, <3>1 DEF Untouched, PlacedBy, Typed
      <3>. QED
        BY <3>2, StaysLocated DEF Located
    <2>2. \A d \in CPU : LeavingOn(t, d)' <=> d = c /\ again
      BY <1>u, <1>1, <1>2 DEF LeavingOn, Where, Typed
    <2>3. onCpu'[t] = NoCpu
      BY <1>u, <1>1 DEF Typed
    <2>4. CASE again
      <3>1. Where(t, "leaving", c)'
        BY <2>2, <2>3, <2>4, <1>u, <1>1, NoneAssumption DEF Where, PlacedBy
      <3>2. status'[t] = "Ready"
        BY <2>4, <1>u, <1>1 DEF Typed
      <3>3. LocatedAt(t)'
        BY <3>1, <3>2, <1>u DEF LocatedAt, Suits, Kind, Waiting
      <3>. QED
        BY <3>3, <2>1, <1>u DEF Located
    <2>5. CASE ~again
      <3>1. Where(t, "off", c)'
        BY <2>2, <2>3, <2>5, <1>u, <1>1, NoneAssumption DEF Where, PlacedBy
      <3>2. status'[t] \in {"Blocked", "Exited"}
        BY <2>5, <1>u, <1>1, <1>2 DEF Typed
      <3>3. LocatedAt(t)'
        BY <3>1, <3>2, <1>u DEF LocatedAt, Suits, Kind, Waiting
      <3>. QED
        BY <3>3, <2>1, <1>u DEF Located
    <2>. QED
      BY <2>4, <2>5
  <1>6. Fields'
    <2>1. ASSUME NEW u \in Task, onCpu'[u] # NoCpu
          PROVE  current'[onCpu'[u]] = u /\ pc'[onCpu'[u]] \in {"run", "switch"}
      <3>1. u # t /\ onCpu[u] # c /\ onCpu'[u] = onCpu[u]
        BY <2>1, <1>u, <1>1 DEF Typed, Fields
      <3>. QED
        BY <2>1, <3>1, <1>u DEF Typed, Fields
    <2>2. \A u \in Task : wakePending'[u] => status'[u] = "Blocked" /\ onCpu'[u] # NoCpu
      BY <1>u, <1>1 DEF Typed, Fields
    <2>. QED
      BY <2>1, <2>2, <1>u DEF Fields
  <1>7. Loops'
    <2>1. \A d \in CPU \ {c} : SameLoop(d)
      BY <1>u DEF SameLoop, Typed
    <2>2. \A u \in Task : onCpu[u] # c => status'[u] = status[u] /\ onCpu'[u] = onCpu[u]
      BY <1>u, <1>1 DEF Typed
    <2>3. pc'[c] = "ack" /\ current'[c] # NoTask /\ place'[c] = {}
      BY <1>u, <1>1, <1>2, NoneAssumption DEF Typed
    <2>4. LoopAt(c)'
      BY <2>3 DEF LoopAt
    <2>. QED
      BY <2>1, <2>2, <2>4, OtherLoops
  <1>. QED
    BY <1>u, <1>3, <1>4, <1>5, <1>6, <1>7 DEF Unstopped, NoFault, Calls, CallAt

\* A CPU between tasks, or serving one, takes on one placement of a Ready task
\* that is nowhere else.
LEMMA NewPlacement ==
    ASSUME SchedInv, NEW c \in CPU, NEW t \in Task, NEW d \in CPU, NEW via \in {"wake", "direct"},
           place' = [place EXCEPT ![c] = {[task |-> t, target |-> d, via |-> via]}],
           place[c] = {}
    PROVE  /\ place' \in [CPU -> SUBSET Placement]
           /\ \A u \in Task, e \in CPU : PlacedBy(u, e)' <=> PlacedBy(u, e) \/ (u = t /\ e = c)
           /\ \A p, q \in place'[c] : p.task = q.task => p = q
           /\ place'[c] # {}
           /\ \A e \in CPU \ {c} : place'[e] = place[e]
  <1>. DEFINE p == [task |-> t, target |-> d, via |-> via]
  <1>1. p \in Placement /\ p.task = t
    BY DEF Placement
  <1>. HIDE DEF p
  <1>2. place' = [place EXCEPT ![c] = {p}]
    BY DEF p
  <1>. QED
    BY <1>1, <1>2 DEF SchedInv, Typed, PlacedBy

\* release_scheduler_task: the CPU's own placement takes the task over.
LEMMA ReleaseTaskKeeps ==
    ASSUME SchedInv, NEW c \in CPU, ReleaseTask(c)
    PROVE  SchedInv'
  <1>. USE DEF SchedInv
  <1>0. pc[c] = "release" /\ LoopAt(c)
    BY DEF ReleaseTask, Loops
  <1>1. PICK t \in Task : t = current[c]
    BY <1>0 DEF LoopAt, Typed
  <1>2. place[c] = {}
    BY <1>0 DEF LoopAt
  <1>u. /\ current' = [current EXCEPT ![c] = NoTask]
        /\ reason' = [reason EXCEPT ![c] = "none"]
        /\ pc' = [pc EXCEPT ![c] = "requeue"]
        /\ UNCHANGED <<status, queuedCpu, onCpu, wakePending, allowed, call, stopped,
                       exclusive, rq, remote, victim, notify, fault>>
    BY DEF ReleaseTask, taskVars
  <1>l. \A u \in Task, d \in CPU : LeavingOn(u, d)' <=> LeavingOn(u, d) /\ d # c
    BY <1>u, NoneAssumption DEF LeavingOn, Typed
  <1>3. Fields'
    <2>1. ASSUME NEW u \in Task, onCpu[u] # NoCpu
          PROVE  current'[onCpu[u]] = u /\ pc'[onCpu[u]] \in {"run", "switch"}
      <3>1. onCpu[u] # c /\ onCpu[u] \in CPU
        BY <2>1, <1>0 DEF Fields, Typed
      <3>. QED
        BY <2>1, <3>1, <1>u DEF Fields, Typed
    <2>. QED
      BY <2>1, <1>u DEF Fields
  <1>4. ASSUME \A p, q \in place'[c] : p.task = q.task => p = q,
               \A e \in CPU \ {c} : place'[e] = place[e]
        PROVE  Loops'
    <2>1. \A d \in CPU \ {c} : SameLoop(d)
      BY Zenon, <1>4, <1>u DEF SameLoop, Typed
    <2>2. pc'[c] = "requeue" /\ current'[c] = NoTask /\ reason'[c] = "none"
      BY <1>u DEF Typed
    <2>3. LoopAt(c)'
      BY <2>2, <1>4 DEF LoopAt
    <2>. QED
      BY Zenon, <2>1, <2>3, <1>u, OtherLoops
  <1>5. CASE reason[c] = "none"
    <2>1. place' = place
      BY <1>5, <1>2 DEF ReleaseTask, Typed
    <2>2. \A u \in Task : Untouched(u)
      BY <2>1, <1>5, <1>u, <1>l DEF Untouched, PlacedBy, LeavingOn
    <2>3. Located'
      BY <2>2, StaysLocated DEF Located
    <2>4. Typed'
      BY <2>1, <1>u DEF Typed, Reason, Place
    <2>5. Loops'
      BY <2>1, <1>2, <1>4
    <2>. QED
      BY Zenon, <1>u, <1>3, <2>3, <2>4, <2>5 DEF Unstopped, NoFault, Calls, CallAt
  <1>6. CASE reason[c] # "none"
    <2>1. PICK d \in CPU, via \in {"wake", "direct"} :
             place' = [place EXCEPT ![c] = {[task |-> t, target |-> d, via |-> via]}]
      BY Zenon, <1>1, <1>6, HomesAllowed DEF ReleaseTask, Typed
    <2>2. /\ place' \in [CPU -> SUBSET Placement]
          /\ \A u \in Task, e \in CPU : PlacedBy(u, e)' <=> PlacedBy(u, e) \/ (u = t /\ e = c)
          /\ \A p, q \in place'[c] : p.task = q.task => p = q
          /\ \A e \in CPU \ {c} : place'[e] = place[e]
      BY Zenon, <2>1, <1>2, NewPlacement
    <2>3. Where(t, "leaving", c) /\ status[t] = "Ready"
      <3>1. LeavingOn(t, c)
        BY <1>0, <1>1, <1>6 DEF LeavingOn
      <3>. QED
        BY <3>1 DEF Located, LocatedAt, Where, Suits, Kind, Waiting
    <2>4. Located'
      <3>1. ASSUME NEW u \in Task, u # t
            PROVE  LocatedAt(u)'
        <4>1. Untouched(u)
          BY ZenonT(40), <3>1, <2>2, <1>1, <1>u, <1>l DEF Untouched, LeavingOn
        <4>. QED
          BY <4>1, StaysLocated DEF Located
      <3>2. Where(t, "place", c)'
        BY Zenon, <2>2, <2>3, <1>u, <1>l DEF Where
      <3>3. LocatedAt(t)'
        BY <3>2, <2>3, <1>u DEF LocatedAt, Suits, Kind, Waiting
      <3>. QED
        BY <3>1, <3>3 DEF Located
    <2>5. Typed'
      BY Zenon, <2>2, <1>u DEF Typed, Reason, Place
    <2>. QED
      BY Zenon, <1>u, <1>3, <1>4, <2>2, <2>4, <2>5 DEF Unstopped, NoFault, Calls, CallAt
  <1>. QED
    BY <1>5, <1>6

-----------------------------------------------------------------------------
(***************************************************************************)
(* Wakeups and clone                                                       *)
(***************************************************************************)
\* A wakeup of a task that still owns its CPU is only remembered.
LEMMA WakeSwitchingKeeps ==
    ASSUME SchedInv, NEW c \in CPU, NEW u \in Task, WakeSwitching(c, u)
    PROVE  SchedInv'
  <1>. USE DEF SchedInv
  <1>1. /\ status[u] = "Blocked" /\ onCpu[u] # NoCpu
        /\ fault' = WakeFault(u)
        /\ wakePending' = [wakePending EXCEPT ![u] = TRUE]
        /\ UNCHANGED <<status, queuedCpu, onCpu, allowed, call, stopped, exclusive,
                       rq, remote, pc, current, reason, victim, place, notify>>
    BY Zenon DEF WakeSwitching, groupVars, cpuVars, workVars
  <1>2. fault' = "none"
    BY Zenon, <1>1, OwnerIs DEF WakeFault
  <1>3. Typed'
    BY <1>1 DEF Typed
  <1>4. Located'
    <2>1. \A t \in Task : Untouched(t)
      BY <1>1 DEF Untouched, PlacedBy, LeavingOn
    <2>. QED
      BY <2>1, StaysLocated DEF Located
  <1>5. Fields'
    BY <1>1 DEF Fields, Typed
  <1>6. Loops'
    <2>1. \A d \in CPU : SameLoop(d)
      BY <1>1 DEF SameLoop
    <2>. QED
      BY Zenon, <2>1, <1>1, LoopKept DEF Loops
  <1>. QED
    BY Zenon, <1>1, <1>2, <1>3, <1>4, <1>5, <1>6 DEF Unstopped, NoFault, Calls, CallAt

\* A task that is nowhere becomes Ready and is this CPU's to place.
LEMMA PlaceNew ==
    ASSUME SchedInv, NEW c \in CPU, NEW u \in Task, NEW d \in CPU, NEW via \in {"wake", "direct"},
           pc[c] \in {"run", "irq"}, place[c] = {},
           status[u] \in {"New", "Blocked"}, onCpu[u] = NoCpu,
           status' = [status EXCEPT ![u] = "Ready"],
           place' = [place EXCEPT ![c] = {[task |-> u, target |-> d, via |-> via]}],
           allowed' \in [Task -> (SUBSET CPU) \ {{}}],
           fault' = "none",
           UNCHANGED <<queuedCpu, onCpu, wakePending, call, stopped, exclusive, rq,
                       remote, pc, current, reason, victim, notify>>
    PROVE  SchedInv'
  <1>. USE DEF SchedInv
  <1>1. /\ place' \in [CPU -> SUBSET Placement]
        /\ \A t \in Task, e \in CPU : PlacedBy(t, e)' <=> PlacedBy(t, e) \/ (t = u /\ e = c)
        /\ \A p, q \in place'[c] : p.task = q.task => p = q
        /\ \A e \in CPU \ {c} : place'[e] = place[e]
    BY Zenon, NewPlacement
  <1>2. \A e \in CPU : Where(u, "off", e)
    BY OffIs
  <1>3. Typed'
    BY Zenon, <1>1 DEF Typed, Status
  <1>s. status'[u] = "Ready" /\ \A t \in Task \ {u} : status'[t] = status[t]
    BY DEF Typed
  <1>4. Located'
    <2>1. ASSUME NEW t \in Task, t # u
          PROVE  LocatedAt(t)'
      <3>1. Untouched(t)
        BY Zenon, <2>1, <1>1, <1>s DEF Untouched, LeavingOn
      <3>. QED
        BY <3>1, StaysLocated DEF Located
    <2>2. Where(u, "place", c)'
      BY Zenon, <1>1, <1>2 DEF Where, LeavingOn
    <2>3. LocatedAt(u)'
      BY <2>2, <1>s DEF LocatedAt, Suits, Kind, Waiting
    <2>. QED
      BY <2>1, <2>3 DEF Located
  <1>5. Fields'
    BY <1>s DEF Fields
  <1>6. Loops'
    <2>1. \A e \in CPU \ {c} : SameLoop(e)
      BY Zenon, <1>1 DEF SameLoop
    <2>2. LoopAt(c) /\ (pc[c] = "run" => current[c] # u)
      BY Zenon, NoneAssumption DEF Loops, LoopAt
    <2>3. pc[c] = "run" => status'[current[c]] = status[current[c]]
      BY Zenon, <2>2, <1>s DEF LoopAt, Typed
    <2>4. LoopAt(c)'
      BY Zenon, <2>2, <2>3, <1>1 DEF LoopAt
    <2>. QED
      BY Zenon, <2>1, <2>4, <1>s, NoneAssumption, OtherLoops
  <1>. QED
    BY Zenon, <1>3, <1>4, <1>5, <1>6 DEF Unstopped, NoFault, Calls, CallAt

\* wake: the assertions hold of a blocked task that is off its CPU.
LEMMA WakeBlockedKeeps ==
    ASSUME SchedInv, NEW c \in CPU, NEW u \in Task, WakeBlocked(c, u)
    PROVE  SchedInv'
  <1>. USE DEF SchedInv
  <1>1. PICK d \in WakeHomes(c, allowed[u]) :
           place' = [place EXCEPT ![c] = IF stopped[u] THEN {}
                        ELSE {[task |-> u, target |-> d, via |-> "wake"]}]
    BY Zenon DEF WakeBlocked
  <1>2. d \in CPU /\ ~stopped[u]
    BY Zenon, <1>1, HomesAllowed DEF Typed, Unstopped
  <1>3. /\ pc[c] \in {"run", "irq"} /\ place[c] = {}
        /\ status[u] = "Blocked" /\ onCpu[u] = NoCpu
        /\ status' = [status EXCEPT ![u] = "Ready"]
        /\ UNCHANGED <<queuedCpu, onCpu, wakePending, allowed, call, stopped, exclusive,
                       rq, remote, pc, current, reason, victim, notify>>
    BY Zenon DEF WakeBlocked, Quiet, groupVars, cpuVars
  <1>4. fault' = "none"
    BY Zenon, <1>3, OffIs DEF WakeBlocked, WakeFault, Fields
  <1>5. allowed' \in [Task -> (SUBSET CPU) \ {{}}]
    BY <1>3 DEF Typed
  <1>. QED
    BY Zenon, <1>1, <1>2, <1>3, <1>4, <1>5, PlaceNew

\* clone: a new task is nowhere yet.
LEMMA SpawnKeeps ==
    ASSUME SchedInv, NEW c \in CPU, NEW u \in Task, Spawn(c, u)
    PROVE  SchedInv'
  <1>. USE DEF SchedInv
  <1>1. /\ pc[c] = "run" /\ place[c] = {} /\ status[u] = "New"
        /\ status' = [status EXCEPT ![u] = "Ready"]
        /\ allowed' = [allowed EXCEPT ![u] = allowed[current[c]]]
        /\ UNCHANGED <<queuedCpu, onCpu, wakePending, call, stopped, exclusive,
                       rq, remote, pc, current, reason, victim, notify, fault>>
    BY DEF Spawn, InTask, Quiet, groupVars, cpuVars
  <1>2. current[c] \in Task
    BY <1>1, CurrentIs
  <1>3. PICK d \in CPU :
           place' = [place EXCEPT ![c] = {[task |-> u, target |-> d, via |-> "direct"]}]
    BY Zenon, <1>2, HomesAllowed DEF Spawn, Typed
  <1>4. onCpu[u] = NoCpu
    <2>1. PICK k \in Kind, b \in CPU : Where(u, k, b) /\ Suits(status[u], k)
      BY DEF Located, LocatedAt
    <2>2. k # "cpu"
      BY <1>1, <2>1 DEF Suits
    <2>3. \A e \in CPU : onCpu[u] # e
      BY <2>1, <2>2 DEF Where
    <2>. QED
      BY <2>3 DEF Typed
  <1>5. allowed' \in [Task -> (SUBSET CPU) \ {{}}]
    BY <1>1, <1>2 DEF Typed
  <1>6. fault' = "none"
    BY <1>1 DEF NoFault
  <1>. QED
    BY Zenon, <1>1, <1>3, <1>4, <1>5, <1>6, PlaceNew

-----------------------------------------------------------------------------
(***************************************************************************)
(* sched_setaffinity                                                       *)
(***************************************************************************)
\* A call goes on to another step.
LEMMA CallStep ==
    ASSUME NEW k \in Call, NEW s \in {"none", "choose", "move", "preempt", "wake"}
    PROVE  \E n \in Call : /\ n = [k EXCEPT !.step = s]
                           /\ n.step = s /\ n.task = k.task
  <1>1. [k EXCEPT !.step = s] \in Call
    BY DEF Call
  <1>2. [k EXCEPT !.step = s].step = s /\ [k EXCEPT !.step = s].task = k.task
    BY DEF Call
  <1>. QED
    BY Zenon, <1>1, <1>2

\* The steps that only note what the call has read or signal a CPU.
LEMMA AffinityKeeps ==
    ASSUME SchedInv, NEW c \in CPU,
           \/ \E u \in Task, mask \in Masks : SetAffinity(c, u, mask)
           \/ ChooseHome(c) \/ WakeMask(c)
    PROVE  SchedInv'
  <1>. USE DEF SchedInv
  <1>0. pc[c] = "run"
    BY Zenon DEF SetAffinity, InTask, ChooseHome, WakeMask
  <1>1. PICK t \in Task : t = current[c]
    BY Zenon, <1>0, CurrentIs
  <1>2. call[t] \in Call /\ CallAt(t)
    BY DEF Typed, Calls
  <1>c. ASSUME NEW k \in Call, call' = [call EXCEPT ![t] = k],
               k.step # "none" => k.task \in Task,
               k.step = "move" => k.src \in CPU /\ k.dst \in CPU \ {k.src}
        PROVE  call' \in [Task -> Call] /\ Calls'
    <2>1. call' \in [Task -> Call] /\ call'[t] = k /\ \A u \in Task \ {t} : call'[u] = call[u]
      BY Zenon, <1>c DEF Typed
    <2>. QED
      BY Zenon, <2>1, <1>c DEF Calls, CallAt
  <1>3. ASSUME NEW u \in Task, NEW mask \in Masks, SetAffinity(c, u, mask)
        PROVE  SchedInv'
    <2>. DEFINE k == [NoCall EXCEPT !.step = "choose", !.task = u, !.mask = mask, !.ran = onCpu[u]]
    <2>1. k \in Call /\ k.step = "choose" /\ k.task = u
      BY Zenon, MasksAssumption DEF NoCall, Call, Typed
    <2>2. call' = [call EXCEPT ![t] = k] /\ allowed' = [allowed EXCEPT ![u] = mask]
      BY Zenon, <1>1, <1>3 DEF SetAffinity
    <2>. HIDE DEF k
    <2>3. call' \in [Task -> Call] /\ Calls'
      BY Zenon, <1>c, <2>1, <2>2
    <2>4. UNCHANGED <<status, queuedCpu, onCpu, wakePending, stopped, exclusive, rq, remote,
                      pc, current, reason, victim, place, notify, fault>>
      BY Zenon, <1>3 DEF SetAffinity, groupVars, cpuVars, workVars
    <2>5. allowed' \in [Task -> (SUBSET CPU) \ {{}}]
      BY Zenon, <2>2, MasksAssumption DEF Typed
    <2>6. Typed'
      BY Zenon, <2>3, <2>4, <2>5 DEF Typed
    <2>7. LoopStep(c)
      BY Zenon, <2>4 DEF LoopStep, Typed
    <2>. QED
      BY <2>3, <2>6, <2>7, LoopStepKeeps
  <1>4. ASSUME ChooseHome(c)
        PROVE  SchedInv'
    <2>1. PICK u \in Task, src \in CPU \cup {NoCpu} :
             call[t].step = "choose" /\ u = call[t].task /\ src = queuedCpu[u]
      BY Zenon, <1>1, <1>2, <1>4 DEF ChooseHome, CallAt, Typed
    <2>2. PICK dst \in AffinityHomes(src, allowed[u]) :
             call' = [call EXCEPT ![t] =
                IF src = NoCpu \/ src = dst THEN [call[t] EXCEPT !.step = "preempt"]
                ELSE [call[t] EXCEPT !.step = "move", !.src = src, !.dst = dst]]
      BY Zenon, <1>1, <1>4, <2>1 DEF ChooseHome, Typed
    <2>3. dst \in CPU
      BY Zenon, <2>2, HomesAllowed DEF Typed
    <2>4. call' \in [Task -> Call] /\ Calls'
      <3>1. CASE src = NoCpu \/ src = dst
        <4>1. PICK k \in Call : /\ k = [call[t] EXCEPT !.step = "preempt"]
                                /\ k.step = "preempt" /\ k.task = call[t].task
          BY Zenon, <1>2, CallStep
        <4>. QED
          BY Zenon, <2>1, <2>2, <3>1, <4>1, <1>c
      <3>2. CASE src # NoCpu /\ src # dst
        <4>0. PICK k : k = [call[t] EXCEPT !.step = "move", !.src = src, !.dst = dst]
          OBVIOUS
        <4>1. k \in Call
          BY Zenon, <4>0, <1>2, <2>3 DEF Call
        <4>2. k.task = call[t].task /\ k.src = src /\ k.dst = dst
          BY <4>0, <1>2 DEF Call
        <4>. QED
          BY Zenon, <2>1, <2>2, <2>3, <3>2, <4>0, <4>1, <4>2, <1>c
      <3>. QED
        BY Zenon, <3>1, <3>2
    <2>5. UNCHANGED <<status, queuedCpu, onCpu, wakePending, allowed, stopped, exclusive, rq,
                      remote, pc, current, reason, victim, place, notify, fault>>
      BY Zenon, <1>4 DEF ChooseHome, groupVars, cpuVars, workVars
    <2>6. Typed' /\ LoopStep(c)
      BY Zenon, <2>4, <2>5 DEF Typed, LoopStep
    <2>. QED
      BY Zenon, <2>4, <2>6, LoopStepKeeps
  <1>5. ASSUME WakeMask(c)
        PROVE  SchedInv'
    <2>1. NoCall \in Call /\ NoCall.step = "none"
      BY Zenon DEF NoCall, Call
    <2>2. call' = [call EXCEPT ![t] = NoCall]
      BY Zenon, <1>1, <1>5 DEF WakeMask
    <2>3. call' \in [Task -> Call] /\ Calls'
      BY Zenon, <2>1, <2>2, <1>c
    <2>4. \E d \in CPU \cup {NoCpu} : notify' = [notify EXCEPT ![c] = d]
      <3>1. call[t].mask \in SUBSET CPU
        BY <1>2 DEF Call
      <3>. QED
        BY Zenon, <3>1, <1>1, <1>5 DEF WakeMask
    <2>5. UNCHANGED <<status, queuedCpu, onCpu, wakePending, allowed, stopped, exclusive, rq,
                      remote, pc, current, reason, victim, place, fault>>
      BY Zenon, <1>5 DEF WakeMask, groupVars, cpuVars
    <2>6. Typed' /\ LoopStep(c)
      BY <2>3, <2>4, <2>5 DEF Typed, LoopStep
    <2>. QED
      BY <2>3, <2>6, LoopStepKeeps
  <1>. QED
    BY <1>3, <1>4, <1>5

\* migrate_ready_task: whatever happened since the queue was read, a task that
\* is still on it is Ready and changes queues.
LEMMA MoveHomeKeeps ==
    ASSUME SchedInv, NEW c \in CPU, MoveHome(c)
    PROVE  SchedInv'
  <1>. USE DEF SchedInv
  <1>0. pc[c] = "run" /\ place[c] = {}
    BY Zenon DEF MoveHome, Quiet
  <1>1. PICK t \in Task : t = current[c]
    BY <1>0, CurrentIs
  <1>2. PICK u \in Task, src \in CPU, dst \in CPU :
           u = call[t].task /\ src = call[t].src /\ dst = call[t].dst /\ src # dst
    BY ZenonT(40), <1>1 DEF MoveHome, Calls, CallAt
  <1>c. call' = [call EXCEPT ![t].step = "preempt"]
    BY Zenon, <1>1 DEF MoveHome
  <1>3. call' \in [Task -> Call] /\ Calls'
    <2>1. call[t] \in Call
      BY DEF Typed
    <2>2. PICK k \in Call : /\ k = [call[t] EXCEPT !.step = "preempt"]
                            /\ k.step = "preempt" /\ k.task = u
      BY ZenonT(40), <2>1, <1>2, CallStep
    <2>3. call' = [call EXCEPT ![t] = k]
      BY <1>c, <2>2 DEF Typed
    <2>4. call' \in [Task -> Call] /\ call'[t] = k /\ \A v \in Task \ {t} : call'[v] = call[v]
      BY Zenon, <2>3 DEF Typed
    <2>. QED
      BY Zenon, <2>2, <2>4 DEF Calls, CallAt
  <1>4. UNCHANGED <<status, onCpu, wakePending, allowed, stopped, exclusive, remote, pc,
                    current, reason, victim, place>>
    BY Zenon DEF MoveHome, groupVars, cpuVars
  <1>5. notify' \in [CPU -> CPU \cup {NoCpu}]
    BY Zenon, <1>1, <1>2 DEF MoveHome, Typed
  <1>6. CASE u \notin rq[src]
    <2>1. rq' = rq /\ queuedCpu' = queuedCpu /\ fault' = "none"
      BY <1>1, <1>2, <1>6 DEF MoveHome, Typed
    <2>2. Typed' /\ LoopStep(c)
      BY Zenon, <2>1, <1>3, <1>4, <1>5 DEF Typed, LoopStep, NoFault
    <2>. QED
      BY <1>3, <2>2, LoopStepKeeps
  <1>7. CASE u \in rq[src]
    <2>1. Where(u, "rq", src) /\ status[u] = "Ready" /\ onCpu[u] = NoCpu /\ queuedCpu[u] = src
      BY Zenon, <1>7, QueuedIs
    <2>2. fault' = "none"
      BY Zenon, <1>1, <1>2, <1>7, <2>1 DEF MoveHome, ClaimFault
    <2>3. /\ rq' = [d \in CPU |-> IF d = src THEN rq[d] \ {u}
                                  ELSE IF d = dst THEN rq[d] \cup {u} ELSE rq[d]]
          /\ queuedCpu' = [queuedCpu EXCEPT ![u] = dst]
      BY Zenon, <1>1, <1>2, <1>7, <2>1 DEF MoveHome
    <2>4. Typed'
      BY Zenon, <2>3, <1>3, <1>4, <1>5 DEF Typed
    <2>5. Located'
      <3>1. ASSUME NEW v \in Task, v # u
            PROVE  LocatedAt(v)'
        <4>1. Untouched(v)
          BY Zenon, <3>1, <2>3, <1>4 DEF Untouched, PlacedBy, LeavingOn
        <4>. QED
          BY <4>1, StaysLocated DEF Located
      <3>2. Where(u, "rq", dst)'
        BY Zenon, <2>1, <2>3, <1>2, <1>4 DEF Where, PlacedBy, LeavingOn
      <3>3. LocatedAt(u)'
        BY Zenon, <3>2, <2>1, <1>4, ReadyAt
      <3>. QED
        BY <3>1, <3>3 DEF Located
    <2>6. Fields'
      BY <2>1, <2>3, <1>2, <1>4 DEF Fields, Typed, Where
    <2>7. Loops'
      <3>1. \A d \in CPU : SameLoop(d)
        BY Zenon, <1>4 DEF SameLoop
      <3>. QED
        BY Zenon, <3>1, <1>4, LoopKept DEF Loops
    <2>. QED
      BY Zenon, <1>3, <1>4, <2>2, <2>4, <2>5, <2>6, <2>7 DEF Unstopped, NoFault
  <1>. QED
    BY Zenon, <1>6, <1>7

\* The caller that may no longer run here yields.
LEMMA PreemptMovedKeeps ==
    ASSUME SchedInv, NEW c \in CPU, PreemptMoved(c)
    PROVE  SchedInv'
  <1>. USE DEF SchedInv
  <1>0. pc[c] = "run" /\ place[c] = {}
    BY DEF PreemptMoved, Quiet
  <1>1. PICK t \in Task : t = current[c]
    BY Zenon, <1>0, CurrentIs
  <1>2. call[t].step = "preempt" /\ call' = [call EXCEPT ![t].step = "wake"]
    BY <1>1 DEF PreemptMoved
  <1>3. call' \in [Task -> Call] /\ Calls'
    <2>1. call[t] \in Call /\ call[t].task \in Task
      BY <1>2 DEF Typed, Calls, CallAt
    <2>2. PICK k \in Call : /\ k = [call[t] EXCEPT !.step = "wake"]
                            /\ k.step = "wake" /\ k.task \in Task
      BY Zenon, <2>1, CallStep
    <2>3. call' = [call EXCEPT ![t] = k]
      BY <1>2, <2>2 DEF Typed
    <2>4. call' \in [Task -> Call] /\ call'[t] = k /\ \A v \in Task \ {t} : call'[v] = call[v]
      BY Zenon, <2>3 DEF Typed
    <2>. QED
      BY Zenon, <2>2, <2>4 DEF Calls, CallAt
  <1>4. UNCHANGED <<queuedCpu, onCpu, wakePending, allowed, stopped, exclusive, rq, remote,
                    current, victim, place, notify>>
    BY DEF PreemptMoved, workVars
  <1>5. CASE PrepareSwitch(c, "Yield")
    BY Zenon, <1>0, <1>3, <1>4, <1>5, PrepareKeeps
  <1>6. CASE UNCHANGED <<status, reason, pc, fault>>
    <2>1. Typed' /\ LoopStep(c)
      BY Zenon, <1>3, <1>4, <1>6 DEF Typed, LoopStep
    <2>. QED
      BY <1>3, <2>1, LoopStepKeeps
  <1>. QED
    BY <1>5, <1>6 DEF PreemptMoved

-----------------------------------------------------------------------------
(***************************************************************************)
(* The theorems                                                            *)
(***************************************************************************)
\* The published tasks are on the queues they were put on, and nothing else.
LEMMA InitSchedInv == Init => SchedInv
  <1>. SUFFICES ASSUME Init PROVE SchedInv
    OBVIOUS
  <1>1. PICK born \in (SUBSET Task) \ {{}} : \E home \in [born -> CPU] :
          /\ status = [t \in Task |-> IF t \in born THEN "Ready" ELSE "New"]
          /\ queuedCpu = [t \in Task |-> IF t \in born THEN home[t] ELSE NoCpu]
          /\ rq = [c \in CPU |-> {t \in born : home[t] = c}]
    BY Zenon DEF Init
  <1>2. PICK home \in [born -> CPU] :
          /\ status = [t \in Task |-> IF t \in born THEN "Ready" ELSE "New"]
          /\ queuedCpu = [t \in Task |-> IF t \in born THEN home[t] ELSE NoCpu]
          /\ rq = [c \in CPU |-> {t \in born : home[t] = c}]
    BY <1>1
  <1>3. /\ onCpu = [t \in Task |-> NoCpu]
        /\ wakePending = [t \in Task |-> FALSE]
        /\ allowed = [t \in Task |-> CPU]
        /\ call = [t \in Task |-> NoCall]
        /\ stopped = [t \in Task |-> FALSE]
        /\ exclusive = NoTask
        /\ remote = [c \in CPU |-> {}]
        /\ pc = [c \in CPU |-> "drain"]
        /\ current = [c \in CPU |-> NoTask]
        /\ reason = [c \in CPU |-> "none"]
        /\ victim = [c \in CPU |-> NoCpu]
        /\ place = [c \in CPU |-> {}]
        /\ notify = [c \in CPU |-> NoCpu]
        /\ fault = "none"
    BY Zenon DEF Init
  <1>n. NoCall \in Call /\ NoCall.step = "none"
    BY Zenon DEF NoCall, Call
  <1>4. Typed
    BY Zenon, <1>2, <1>3, <1>n, CpuAssumption DEF Typed, Status, Reason, Place
  <1>5. Located
    <2>1. ASSUME NEW t \in born
          PROVE  LocatedAt(t)
      <3>1. Where(t, "rq", home[t])
        BY Zenon, <1>2, <1>3, NoneAssumption DEF Where, PlacedBy, LeavingOn
      <3>. QED
        BY <3>1, <1>2 DEF LocatedAt, Suits, Kind, Waiting
    <2>2. ASSUME NEW t \in Task \ born
          PROVE  LocatedAt(t)
      <3>1. Where(t, "off", TimerCpu)
        BY <1>2, <1>3, NoneAssumption DEF Where, PlacedBy, LeavingOn
      <3>. QED
        BY <3>1, <1>2, CpuAssumption DEF LocatedAt, Suits, Kind, Waiting
    <2>. QED
      BY <2>1, <2>2 DEF Located
  <1>6. Fields
    BY Zenon, <1>2, <1>3, NoneAssumption DEF Fields
  <1>7. Loops
    BY Zenon, <1>3, NoneAssumption DEF Loops, LoopAt
  <1>8. Calls
    BY Zenon, <1>3, <1>n DEF Calls, CallAt
  <1>. QED
    BY <1>3, <1>4, <1>5, <1>6, <1>7, <1>8 DEF SchedInv, Unstopped, NoFault

\* Every step of every CPU keeps the invariant.
LEMMA NextSchedInv == SchedInv /\ [Next]_vars => SchedInv'
  <1>. SUFFICES ASSUME SchedInv, [Next]_vars PROVE SchedInv'
    OBVIOUS
  <1>1. CASE UNCHANGED vars
    <2>1. UNCHANGED <<status, queuedCpu, onCpu, wakePending, allowed, call, stopped, exclusive,
                      rq, remote, pc, current, reason, victim, place, notify, fault>>
      BY <1>1 DEF vars, taskVars, groupVars, cpuVars, workVars
    <2>2. Typed' /\ Unstopped' /\ Calls' /\ NoFault'
      BY Zenon, <2>1 DEF SchedInv, Typed, Unstopped, Calls, CallAt, NoFault
    <2>3. Fields'
      BY Zenon, <2>1, FieldsKept DEF SchedInv
    <2>4. Loops'
      <3>1. \A d \in CPU : SameLoop(d)
        BY Zenon, <2>1 DEF SameLoop
      <3>. QED
        BY Zenon, <3>1, <2>1, LoopKept DEF SchedInv, Loops
    <2>5. Located'
      <3>1. \A t \in Task : Untouched(t)
        BY Zenon, <2>1 DEF Untouched, PlacedBy, LeavingOn
      <3>. QED
        BY <3>1, StaysLocated DEF SchedInv, Located
    <2>. QED
      BY <2>2, <2>3, <2>4, <2>5 DEF SchedInv
  <1>2. ASSUME NEW c \in CPU, CpuStep(c)
        PROVE  SchedInv'
    BY Zenon, <1>2, EnqueueKeeps, PushRemoteKeeps, LoopSteps, DrainKeeps, ClaimKeeps, TakeNothingKeeps,
       FinishSwitchKeeps, ReleaseTaskKeeps, AffinityKeeps, MoveHomeKeeps, PreemptMovedKeeps
    DEF CpuStep
  <1>3. ASSUME NEW c \in CPU, Request(c)
        PROVE  SchedInv'
    BY Zenon, <1>3, LeaveKeeps, WakeSwitchingKeeps, WakeBlockedKeeps, SpawnKeeps, AffinityKeeps
    DEF Request
  <1>4. ASSUME NEW c \in CPU, SkipAck(c) \/ Interrupt(c)
        PROVE  SchedInv'
    BY <1>4, LoopSteps DEF Interrupt
  <1>. QED
    BY <1>1, <1>2, <1>3, <1>4 DEF Next

INSTANCE FiniteSetTheorems

\* The invariant says where the holders of a task are.
LEMMA SchedInvOneHolder == SchedInv => OneHolder
  <1>. SUFFICES ASSUME SchedInv, NEW t \in Task
               PROVE  Cardinality(Holders(t)) =
                        IF status[t] \in {"Ready", "Running"} \/ onCpu[t] # NoCpu THEN 1 ELSE 0
    BY DEF OneHolder
  <1>1. PICK k \in Kind, c \in CPU : Where(t, k, c) /\ Suits(status[t], k)
    BY DEF SchedInv, Located, LocatedAt
  <1>2. \A d \in CPU : current[d] = t /\ onCpu[t] = d <=> onCpu[t] = d
    BY NoneAssumption DEF SchedInv, Fields
  <1>3. CASE k = "off"
    <2>1. Holders(t) = {}
      BY <1>1, <1>2, <1>3 DEF Holders, Where, PlacedBy, LeavingOn
    <2>2. onCpu[t] = NoCpu /\ status[t] \notin {"Ready", "Running"}
      BY Zenon, <1>1, <1>3 DEF SchedInv, Typed, Where, Suits
    <2>. QED
      BY Zenon, <2>1, <2>2, FS_EmptySet
  <1>4. CASE k # "off"
    <2>1. Holders(t) = {<<k, c>>}
      <3>1. {d \in CPU : current[d] = t /\ onCpu[t] = d} = IF k = "cpu" THEN {c} ELSE {}
        BY <1>1, <1>2 DEF Where
      <3>2. {d \in CPU : current[d] = t /\ pc[d] \in {"ack", "release"} /\ reason[d] # "none"}
               = IF k = "leaving" THEN {c} ELSE {}
        BY <1>1 DEF Where, LeavingOn
      <3>3. {d \in CPU : t \in rq[d]} = IF k = "rq" THEN {c} ELSE {}
        BY <1>1 DEF Where
      <3>4. {d \in CPU : t \in remote[d]} = IF k = "remote" THEN {c} ELSE {}
        BY <1>1 DEF Where
      <3>5. {d \in CPU : \E p \in place[d] : p.task = t} = IF k = "place" THEN {c} ELSE {}
        BY <1>1 DEF Where, PlacedBy
      <3>. QED
        BY <3>1, <3>2, <3>3, <3>4, <3>5, <1>4 DEF Holders, Kind, Waiting
    <2>2. status[t] \in {"Ready", "Running"} \/ onCpu[t] # NoCpu
      BY Zenon, <1>1, <1>4, NoneAssumption DEF Where, Suits, Kind, Waiting
    <2>3. Cardinality({<<k, c>>}) = 1
      BY Zenon, FS_Singleton
    <2>. QED
      BY Zenon, <2>1, <2>2, <2>3
  <1>. QED
    BY Zenon, <1>3, <1>4

\* A task that can run is in exactly one place of the scheduler, for any CPUs,
\* tasks and masks: wakeups, deferred switches, steals, retargeted remote wakes
\* and migrations neither lose a task nor let two CPUs have it.
THEOREM OneHolderAlways == Spec => []OneHolder
  BY InitSchedInv, NextSchedInv, SchedInvOneHolder, PTL DEF Spec

\* No assertion of mark_queued_on, claim_for_cpu, drain_remote_wakes, the remote
\* list, prepare_current_switch, finish_current_switch or the wakeups fails.
THEOREM NoFaultAlways == Spec => []NoFault
  <1>1. SchedInv => NoFault
    BY DEF SchedInv
  <1>. QED
    BY InitSchedInv, NextSchedInv, <1>1, PTL DEF Spec

\* No wakeup is slept through: a CPU in wait-for-interrupt with a task on its
\* remote list has an interrupt pending or a CPU that is going to signal it,
\* whatever interrupts arrive.
THEOREM NoLostRemoteWakeAlways == Spec => []NoLostRemoteWake
  <1>1. Init => IdleInv
    <2>1. Init => Handshake /\ NoLostRemoteWake
      BY DEF Init, Handshake, NoLostRemoteWake
    <2>. QED
      BY <2>1, InitSchedInv DEF IdleInv
  <1>2. IdleInv /\ [Next]_vars => IdleInv'
    <2>. SUFFICES ASSUME IdleInv, [Next]_vars PROVE Handshake' /\ NoLostRemoteWake'
      BY NextSchedInv DEF IdleInv
    <2>1. CASE UNCHANGED vars
      BY Zenon, <2>1 DEF IdleInv, Handshake, NoLostRemoteWake, vars, cpuVars, signalVars, workVars
    <2>2. ASSUME NEW c \in CPU, HandshakeAside
          PROVE  Handshake' /\ NoLostRemoteWake'
      BY <2>2, AsideKeeps DEF IdleInv
    <2>3. ASSUME NEW c \in CPU, CpuStep(c) \/ SkipAck(c) \/ Request(c)
          PROVE  Handshake' /\ NoLostRemoteWake'
      BY Zenon, <2>2, <2>3, AsideSteps, PushWakes, NotifyWakes, IdleBranch, PreemptWakes
      DEF CpuStep, IdleInv
    <2>. QED
      BY <2>1, <2>3, InterruptKeeps DEF Next
  <1>3. IdleInv => NoLostRemoteWake
    BY DEF IdleInv
  <1>. QED
    BY <1>1, <1>2, <1>3, PTL DEF Spec
=============================================================================
