----------------------------- MODULE RemoteSync -----------------------------
(***************************************************************************)
(* The cross-CPU synchronisation rendezvous of os/src/cpu.rs.              *)
(*                                                                         *)
(* A CPU that needs every CPU of a target mask to execute a memory or an   *)
(* instruction barrier publishes ONE request slot of its own, inserts      *)
(* itself into the pending-source mask of each target, raises an IPI when  *)
(* that mask was empty, and spins until every target has acknowledged.     *)
(* A target runs handle_remote_sync_ipi from the IPI, from the wait loop   *)
(* of its own submission, and while it spins for a lock with interrupts    *)
(* masked.  Callers may hold a lock (and so mask interrupts) or not.       *)
(*                                                                         *)
(* One action is one atomic access of the code (or a group of accesses to  *)
(* words nobody else reads at that point).                                 *)
(***************************************************************************)
EXTENDS Integers, FiniteSets

CONSTANTS
    CPU,          \* logical CPU ids, all online
    IrqLock,      \* the IRQ-masking spin locks a submitter may hold
    Action,       \* REMOTE_SYNC_MEMORY and REMOTE_SYNC_INSTRUCTION
    MaxSequence,  \* bound: requests one CPU submits
    IpiMayFail    \* whether the firmware call behind send_ipi can fail

ASSUME CpuAssumption == CPU \subseteq Nat /\ IsFiniteSet(CPU)
ASSUME SequenceAssumption == MaxSequence \in Nat
ASSUME FailAssumption == IpiMayFail \in BOOLEAN

None == "none"
NoLock == "nolock"
ASSUME LockAssumption == NoLock \notin IrqLock
ASSUME ActionAssumption == None \notin Action

VARIABLES
    pc,              \* where each CPU stands in submit_remote_sync
    wanted,          \* the lock it holds, or spins for in state "spin"
    owner,           \* the CPU that holds each lock, as a set of at most one
    goal,            \* the target mask of its current request
    todo,            \* the targets its loop has not reached yet
    target,          \* the target of the current loop iteration
    failed,          \* send_error.is_some()
    active, sequence, action, remaining,   \* RemoteSyncRequest, per source
    pendingSources,  \* REMOTE_SYNC_PENDING_SOURCES, per target
    observed,        \* REMOTE_SYNC_OBSERVED_SEQUENCE[target][source]
    ipi,             \* an IPI is pending at the CPU
    handling,        \* the CPU is inside handle_remote_sync_ipi
    taken            \* the sources its last swap took and has not acknowledged

submitter == <<pc, wanted, owner, goal, todo, target, failed>>
request == <<active, sequence, action, remaining>>
handler == <<handling, taken>>
vars == <<pc, wanted, owner, goal, todo, target, failed, active, sequence,
          action, remaining, pendingSources, observed, ipi, handling, taken>>

Init ==
    /\ pc = [c \in CPU |-> "idle"]
    /\ wanted = [c \in CPU |-> NoLock]
    /\ owner = [l \in IrqLock |-> {}]
    /\ goal = [c \in CPU |-> {}]
    /\ todo = [c \in CPU |-> {}]
    /\ target = [c \in CPU |-> c]
    /\ failed = [c \in CPU |-> FALSE]
    /\ active = [c \in CPU |-> FALSE]
    /\ sequence = [c \in CPU |-> 0]
    /\ action = [c \in CPU |-> None]
    /\ remaining = [c \in CPU |-> {}]
    /\ pendingSources = [c \in CPU |-> {}]
    /\ observed = [t \in CPU |-> [s \in CPU |-> 0]]
    /\ ipi = [c \in CPU |-> FALSE]
    /\ handling = [c \in CPU |-> FALSE]
    /\ taken = [c \in CPU |-> {}]

-----------------------------------------------------------------------------
(* The submitter.                                                          *)

\* Mutant: the loop stops one target early.
MutNextTargetOffByOne(c, rest) ==
    IF Cardinality(rest) <= 1
    THEN /\ pc' = [pc EXCEPT ![c] = "wait"]
         /\ UNCHANGED <<todo, target>>
    ELSE LET t == CHOOSE t \in rest : \A u \in rest : t <= u
         IN  /\ pc' = [pc EXCEPT ![c] = "insert"]
             /\ todo' = [todo EXCEPT ![c] = rest \ {t}]
             /\ target' = [target EXCEPT ![c] = t]

\* The first target the ascending loop has not visited, or the end of the loop.
NextTarget(c, rest) ==
    IF rest = {}
    THEN /\ pc' = [pc EXCEPT ![c] = "wait"]
         /\ UNCHANGED <<todo, target>>
    ELSE LET t == CHOOSE t \in rest : \A u \in rest : t <= u
         IN  /\ pc' = [pc EXCEPT ![c] = "insert"]
             /\ todo' = [todo EXCEPT ![c] = rest \ {t}]
             /\ target' = [target EXCEPT ![c] = t]

\* Claiming the request slot: active, action and the next sequence number.
\* No other CPU reads the slot before the first pending-source bit is set.
Begin(c, targets, a) ==
    /\ sequence[c] < MaxSequence
    /\ targets # {} /\ c \notin targets
    /\ active' = [active EXCEPT ![c] = TRUE]
    /\ action' = [action EXCEPT ![c] = a]
    /\ sequence' = [sequence EXCEPT ![c] = @ + 1]
    /\ goal' = [goal EXCEPT ![c] = targets]
    /\ NextTarget(c, targets)
    /\ UNCHANGED <<failed, remaining, pendingSources, observed, ipi, handler>>

\* A caller without a lock: interrupts stay enabled during the submission.
Submit(c) ==
    /\ pc[c] = "idle" /\ ~handling[c]
    /\ \E targets \in SUBSET CPU, a \in Action : Begin(c, targets, a)
    /\ UNCHANGED <<wanted, owner>>

\* SpinNoIrqLock::lock masks interrupts before it spins.
WantLock(c) ==
    /\ pc[c] = "idle" /\ ~handling[c]
    /\ sequence[c] < MaxSequence
    /\ \E l \in IrqLock : wanted' = [wanted EXCEPT ![c] = l]
    /\ pc' = [pc EXCEPT ![c] = "spin"]
    /\ UNCHANGED <<owner, goal, todo, target, failed, request, pendingSources,
                   observed, ipi, handler>>

\* One turn of the spin loop: take the free lock and submit under it, or poll
\* the remote-sync mailbox and try again.
Spin(c) ==
    /\ pc[c] = "spin" /\ ~handling[c]
    /\ \/ /\ owner[wanted[c]] = {}
          /\ owner' = [owner EXCEPT ![wanted[c]] = {c}]
          /\ \E targets \in SUBSET CPU, a \in Action : Begin(c, targets, a)
          /\ UNCHANGED wanted
       \/ /\ owner[wanted[c]] # {}
          /\ handling' = [handling EXCEPT ![c] = TRUE]
          /\ UNCHANGED <<submitter, request, pendingSources, observed, ipi, taken>>

\* Mutant: the completion bit is never armed.
MutInsertNothing(c) ==
    /\ pc[c] = "insert" /\ ~handling[c]
    /\ pc' = [pc EXCEPT ![c] = "publish"]
    /\ UNCHANGED <<wanted, owner, goal, todo, target, failed, request,
                   pendingSources, observed, ipi, handler>>

\* request.remaining.fetch_insert(target)
InsertRemaining(c) ==
    /\ pc[c] = "insert" /\ ~handling[c]
    /\ remaining' = [remaining EXCEPT ![c] = @ \cup {target[c]}]
    /\ pc' = [pc EXCEPT ![c] = "publish"]
    /\ UNCHANGED <<wanted, owner, goal, todo, target, failed, active, sequence,
                   action, pendingSources, observed, ipi, handler>>

\* REMOTE_SYNC_PENDING_SOURCES[target].fetch_insert(source); the IPI is needed
\* only when no other source was already pending there.
PublishSource(c) ==
    /\ pc[c] = "publish" /\ ~handling[c]
    /\ pendingSources' = [pendingSources EXCEPT ![target[c]] = @ \cup {c}]
    /\ IF pendingSources[target[c]] = {}
       THEN pc' = [pc EXCEPT ![c] = "send"] /\ UNCHANGED <<todo, target>>
       ELSE NextTarget(c, todo[c])
    /\ UNCHANGED <<wanted, owner, goal, failed, request, observed, ipi, handler>>

SendIpi(c) ==
    /\ pc[c] = "send" /\ ~handling[c]
    /\ ipi' = [ipi EXCEPT ![target[c]] = TRUE]
    /\ NextTarget(c, todo[c])
    /\ UNCHANGED <<wanted, owner, goal, failed, request, pendingSources,
                   observed, handler>>

\* A failed send withdraws the source.  When the target already took it, the
\* target still acknowledges and the wait below covers it.
SendIpiFails(c) ==
    /\ IpiMayFail
    /\ pc[c] = "send" /\ ~handling[c]
    /\ pendingSources' = [pendingSources EXCEPT ![target[c]] = @ \ {c}]
    /\ IF c \in pendingSources[target[c]]
       THEN remaining' = [remaining EXCEPT ![c] = @ \ {target[c]}]
       ELSE UNCHANGED remaining
    /\ failed' = [failed EXCEPT ![c] = TRUE]
    /\ pc' = [pc EXCEPT ![c] = "wait"]
    /\ UNCHANGED <<wanted, owner, goal, todo, target, active, sequence, action,
                   observed, ipi, handler>>

\* One turn of wait_for_remote_sync_completion: return when nobody is left,
\* otherwise answer the requests aimed at this CPU.  A send error makes every
\* caller panic, so a failed submission never returns.
WaitCompletion(c) ==
    /\ pc[c] = "wait" /\ ~handling[c]
    /\ IF remaining[c] = {}
       THEN /\ action' = [action EXCEPT ![c] = None]
            /\ active' = [active EXCEPT ![c] = FALSE]
            /\ pc' = [pc EXCEPT ![c] = IF failed[c] THEN "panic" ELSE "idle"]
            /\ owner' = [l \in IrqLock |-> owner[l] \ {c}]
            /\ wanted' = [wanted EXCEPT ![c] = NoLock]
            /\ goal' = [goal EXCEPT ![c] = {}]
            /\ todo' = [todo EXCEPT ![c] = {}]
            /\ target' = [target EXCEPT ![c] = c]
            /\ UNCHANGED handling
       ELSE /\ handling' = [handling EXCEPT ![c] = TRUE]
            /\ UNCHANGED <<action, active, pc, owner, wanted, goal, todo, target>>
    /\ UNCHANGED <<failed, sequence, remaining,
                   pendingSources, observed, ipi, taken>>

-----------------------------------------------------------------------------
(* The target.                                                             *)

\* The IPI is delivered when local interrupts are enabled.
Interrupt(c) ==
    /\ ipi[c] /\ wanted[c] = NoLock /\ ~handling[c]
    /\ ipi' = [ipi EXCEPT ![c] = FALSE]
    /\ handling' = [handling EXCEPT ![c] = TRUE]
    /\ UNCHANGED <<submitter, request, pendingSources, observed, taken>>

\* Swap the pending-source mask with the empty mask; leave on an empty one.
TakeSources(c) ==
    /\ handling[c] /\ taken[c] = {}
    /\ taken' = [taken EXCEPT ![c] = pendingSources[c]]
    /\ pendingSources' = [pendingSources EXCEPT ![c] = {}]
    /\ handling' = [handling EXCEPT ![c] = pendingSources[c] # {}]
    /\ UNCHANGED <<submitter, request, observed, ipi>>

\* Execute the barrier, record the sequence, then clear the bit the source
\* spins on.  The record is written before the bit and read only by this CPU.
Acknowledge(c, s) ==
    /\ handling[c] /\ s \in taken[c]
    /\ observed' = [observed EXCEPT ![c][s] = sequence[s]]
    /\ remaining' = [remaining EXCEPT ![s] = @ \ {c}]
    /\ taken' = [taken EXCEPT ![c] = @ \ {s}]
    /\ UNCHANGED <<submitter, active, sequence, action, pendingSources, ipi, handling>>

-----------------------------------------------------------------------------
SubmitStep(c) ==
    \/ Spin(c) \/ InsertRemaining(c) \/ PublishSource(c) \/ SendIpi(c)
    \/ SendIpiFails(c) \/ WaitCompletion(c)
HandleStep(c) ==
    \/ Interrupt(c) \/ TakeSources(c) \/ \E s \in CPU : Acknowledge(c, s)

Next ==
    \E c \in CPU : Submit(c) \/ WantLock(c) \/ SubmitStep(c) \/ HandleStep(c)

\* A CPU in the kernel keeps executing, and an unmasked CPU takes its IPI.
Fairness == \A c \in CPU : WF_vars(SubmitStep(c)) /\ WF_vars(HandleStep(c))

Spec == Init /\ [][Next]_vars /\ Fairness

-----------------------------------------------------------------------------
(* Properties.                                                             *)

Place == {"idle", "spin", "insert", "publish", "send", "wait", "panic"}

\* The type invariant: the request slots, the pending masks and the program
\* points of submit_remote_sync and of its handler.
TypeOK ==
    /\ pc \in [CPU -> Place]
    /\ wanted \in [CPU -> IrqLock \cup {NoLock}]
    /\ owner \in [IrqLock -> SUBSET CPU]
    /\ goal \in [CPU -> SUBSET CPU] /\ todo \in [CPU -> SUBSET CPU]
    /\ target \in [CPU -> CPU] /\ failed \in [CPU -> BOOLEAN]
    /\ active \in [CPU -> BOOLEAN] /\ sequence \in [CPU -> Nat]
    /\ action \in [CPU -> Action \cup {None}]
    /\ remaining \in [CPU -> SUBSET CPU]
    /\ pendingSources \in [CPU -> SUBSET CPU]
    /\ observed \in [CPU -> [CPU -> Nat]]
    /\ ipi \in [CPU -> BOOLEAN] /\ handling \in [CPU -> BOOLEAN]
    /\ taken \in [CPU -> SUBSET CPU]

\* Everything handle_remote_sync_ipi and submit_remote_sync assert (cpu.rs
\* 986-1016 and 902-931): a source a target is about to serve is an active
\* request of another CPU, with a valid action, a sequence newer than the last
\* one this target served, and the target's bit still set.
RequestsAreLive ==
    \A t, s \in CPU :
        s \in pendingSources[t] \cup taken[t] =>
            /\ s # t
            /\ active[s] /\ action[s] # None
            /\ sequence[s] > observed[t][s]
            /\ t \in remaining[s]

\* A submission returns only after every CPU of its mask has executed the
\* barrier for THIS sequence number (a stale acknowledgement never counts).
Rendezvous ==
    [][\A c \in CPU : pc[c] = "wait" /\ pc'[c] = "idle" =>
          \A t \in goal[c] : observed[t][c] = sequence[c]]_vars

\* No rendezvous waits forever, also when IRQ-masked CPUs target one another
\* or spin for a lock the submitter holds (the cycle cpu.rs 960 closes).
\* A failed send panics the kernel.
Completes ==
    \A c \in CPU : pc[c] = "wait" ~> pc[c] = "idle" \/ \E d \in CPU : pc[d] = "panic"
=============================================================================
