------------------------------ MODULE SysvSem -------------------------------
(***************************************************************************)
(* System V semaphores (syscall/sem.rs): the sets and their keys, semctl,  *)
(* and semop, whose operations are applied all or none; a caller that must *)
(* wait records the operation it waits for, is counted on that semaphore,  *)
(* and is woken by every change of the set.                                *)
(***************************************************************************)
EXTENDS Integers, Sequences, SequencesExt, FiniteSetsExt

CONSTANTS SemTask, SemKey,     \* callers; keys other than IPC_PRIVATE
          SemUid,              \* the uid of each caller; 0 overrides permissions
          Modes,               \* permission modes: what the owner and the others may do
          NSems, OpLists,      \* sizes asked for, and the lists of operations
          SEMVMX, SEMMNI, SEMMNS,
          MaxSemId,            \* sets created in all
          SemTimed, SemSignalled

IpcPrivate == "private"

VARIABLES
    sets,        \* SemManager.sets: key, owner, creator, mode, values, ncnt, zcnt, waiters
    keyed,       \* SemManager.keyed_sets
    nextId,      \* SemManager.next_id
    semCall,     \* the semop a task is in: the set and the operations
    semStep,     \* where it is in sys_semtimedop
    semAsleep,   \* TaskStatus::Blocked
    semLate,     \* its deadline has passed
    semTimers,   \* its timers in the timer queue: of this call, of an earlier one
    semSignal    \* a deliverable signal is pending

semVars == <<sets, keyed, nextId, semCall, semStep, semAsleep, semLate, semTimers, semSignal>>

SemIdle == [id |-> 0, ops |-> <<>>]

SemInit ==
    /\ sets = <<>> /\ keyed = <<>> /\ nextId = 1
    /\ semCall = [t \in SemTask |-> SemIdle]
    /\ semStep = [t \in SemTask |-> "idle"]
    /\ semAsleep = [t \in SemTask |-> FALSE]
    /\ semLate = [t \in SemTask |-> FALSE]
    /\ semTimers = [t \in SemTask |-> {}]
    /\ semSignal = [t \in SemTask |-> FALSE]

Drop(f, x) == [y \in DOMAIN f \ {x} |-> f[y]]
Put(f, x, v) == [y \in DOMAIN f \cup {x} |-> IF y = x THEN v ELSE f[y]]

\* mode_allows, can_read, can_alter.
Allows(t, set, what) ==
    \/ SemUid[t] = 0
    \/ what \in (IF SemUid[t] = set.owner THEN set.mode.owner ELSE set.mode.other)
IsOwnerOrCreator(t, set) == SemUid[t] \in {0, set.owner, set.creator}

-----------------------------------------------------------------------------
(* semget and semctl.                                                      *)

TotalSems == FoldSet(LAMBDA id, n : n + Len(sets[id].values), 0, DOMAIN sets)

CreateSet(t, key, n, mode) ==
    /\ Cardinality(DOMAIN sets) < SEMMNI /\ TotalSems + n <= SEMMNS /\ nextId <= MaxSemId
    /\ sets' = Put(sets, nextId,
                   [key |-> key, owner |-> SemUid[t], creator |-> SemUid[t], mode |-> mode,
                    values |-> [i \in 1 .. n |-> 0], ncnt |-> [i \in 1 .. n |-> 0],
                    zcnt |-> [i \in 1 .. n |-> 0], waiters |-> <<>>])
    /\ keyed' = IF key = IpcPrivate THEN keyed ELSE Put(keyed, key, nextId)
    /\ nextId' = nextId + 1

\* sys_semget, when it makes a set; it finds one, or fails, without a change.
SemGet(t) ==
    /\ semStep[t] = "idle"
    /\ \E key \in SemKey \cup {IpcPrivate}, n \in NSems, mode \in Modes :
        key \notin DOMAIN keyed /\ CreateSet(t, key, n, mode)
    /\ UNCHANGED <<semCall, semStep, semAsleep, semLate, semTimers, semSignal>>

WaiterTasks(set) == {set.waiters[i].task : i \in DOMAIN set.waiters}

\* saturating_sub on the counter the waiter was counted on.
Uncount(set, w) ==
    IF w.kind = "NonZero" THEN [set EXCEPT !.ncnt[w.num] = IF @ > 0 THEN @ - 1 ELSE @]
                          ELSE [set EXCEPT !.zcnt[w.num] = IF @ > 0 THEN @ - 1 ELSE @]

\* wake_waiters: every waiter leaves the set and is woken.
Woken(set) ==
    [FoldSeq(LAMBDA w, s : Uncount(s, w), set, set.waiters) EXCEPT !.waiters = <<>>]
Wake(tasks) == semAsleep' = [t \in SemTask |-> semAsleep[t] /\ t \notin tasks]

\* IPC_RMID.
RemoveSet(t) ==
    /\ semStep[t] = "idle"
    /\ \E id \in DOMAIN sets :
        /\ IsOwnerOrCreator(t, sets[id])
        /\ sets' = Drop(sets, id)
        /\ keyed' = IF sets[id].key = IpcPrivate THEN keyed ELSE Drop(keyed, sets[id].key)
        /\ Wake(WaiterTasks(sets[id]))
    /\ UNCHANGED <<nextId, semCall, semStep, semLate, semTimers, semSignal>>

\* IPC_SET.
SetAttrs(t) ==
    /\ semStep[t] = "idle"
    /\ \E id \in DOMAIN sets, mode \in Modes, u \in SemTask :
        /\ IsOwnerOrCreator(t, sets[id])
        /\ sets' = [sets EXCEPT ![id].owner = SemUid[u], ![id].mode = mode]
    /\ UNCHANGED <<keyed, nextId, semCall, semStep, semAsleep, semLate, semTimers, semSignal>>

\* SETVAL and SETALL.
SetValues(t) ==
    /\ semStep[t] = "idle"
    /\ \E id \in DOMAIN sets : \E v \in [DOMAIN sets[id].values -> 0 .. SEMVMX] :
        /\ Allows(t, sets[id], "alter")
        /\ sets' = [sets EXCEPT ![id] = Woken([@ EXCEPT !.values = v])]
        /\ Wake(WaiterTasks(sets[id]))
    /\ UNCHANGED <<keyed, nextId, semCall, semStep, semLate, semTimers, semSignal>>

-----------------------------------------------------------------------------
(* semop.                                                                  *)

\* The loop of try_semop over the operations: the values so far, and whether an
\* operation waits or leaves the range.  An entry is <<sem_num, sem_op, nowait>>.
Apply(values, ops) ==
    FoldSeq(LAMBDA op, acc :
        LET next == acc.values[op[1]] + op[2] IN
        IF acc.result # "done" THEN acc
        ELSE IF op[2] = 0
             THEN IF acc.values[op[1]] # 0 THEN [acc EXCEPT !.result = "Zero", !.at = op[1]] ELSE acc
        ELSE IF next < 0 THEN [acc EXCEPT !.result = "NonZero", !.at = op[1]]
        ELSE IF next > SEMVMX THEN [acc EXCEPT !.result = "Range"]
        ELSE [acc EXCEPT !.values[op[1]] = next],
        [values |-> values, result |-> "done", at |-> 0], ops)

Waits(set, ops) == Apply(set.values, ops).result \in {"Zero", "NonZero"}

SemEnter(t) ==
    /\ semStep[t] = "idle" /\ ~semSignal[t]
    /\ \E id \in 1 .. nextId - 1, ops \in OpLists :
        semCall' = [semCall EXCEPT ![t] = [id |-> id, ops |-> ops]]
    /\ semStep' = [semStep EXCEPT ![t] = "try"]
    /\ semLate' = [semLate EXCEPT ![t] = FALSE]
    /\ UNCHANGED <<sets, keyed, nextId, semAsleep, semTimers, semSignal>>

SemReturn(t) ==
    /\ semStep' = [semStep EXCEPT ![t] = "idle"]
    /\ semCall' = [semCall EXCEPT ![t] = SemIdle]
    /\ semLate' = [semLate EXCEPT ![t] = FALSE]
    /\ semTimers' = [semTimers EXCEPT ![t] = IF @ = {} THEN {} ELSE {"old"}]

\* The errors found before the operations are tried: EAGAIN, EINVAL, EFBIG, EACCES.
Refused(t) ==
    LET c == semCall[t] IN
    semLate[t] \/ ~(/\ c.id \in DOMAIN sets
                    /\ \A i \in DOMAIN c.ops :
                          /\ c.ops[i][1] <= Len(sets[c.id].values)
                          /\ Allows(t, sets[c.id], IF c.ops[i][2] = 0 THEN "read" ELSE "alter"))

Attempt(t) ==
    IF Refused(t) THEN [values |-> <<>>, result |-> "refused", at |-> 0]
    ELSE Apply(sets[semCall[t].id].values, semCall[t].ops)

\* try_or_block_semop, one critical section of SEM_MANAGER.
TrySemop(t) ==
    LET c == semCall[t]  r == Attempt(t) IN
    /\ semStep[t] = "try"
    /\ \/ /\ r.result \in {"refused", "Range"}
          /\ SemReturn(t) /\ UNCHANGED <<sets, semAsleep>>
       \/ /\ r.result = "done"
          /\ sets' = [sets EXCEPT ![c.id] = Woken([@ EXCEPT !.values = r.values])]
          /\ Wake(WaiterTasks(sets[c.id])) /\ SemReturn(t)
       \/ /\ r.result \in {"Zero", "NonZero"}
          /\ IF (\E i \in DOMAIN c.ops : c.ops[i][3]) \/ semSignal[t]
             THEN SemReturn(t) /\ UNCHANGED <<sets, semAsleep>>
             ELSE /\ sets' = [sets EXCEPT
                        ![c.id].ncnt[r.at] = IF r.result = "NonZero" THEN @ + 1 ELSE @,
                        ![c.id].zcnt[r.at] = IF r.result = "Zero" THEN @ + 1 ELSE @,
                        ![c.id].waiters = Append(@, [task |-> t, num |-> r.at, kind |-> r.result])]
                  /\ semAsleep' = [semAsleep EXCEPT ![t] = TRUE]
                  /\ semTimers' = [semTimers EXCEPT ![t] = IF t \in SemTimed THEN @ \cup {"now"} ELSE @]
                  /\ semStep' = [semStep EXCEPT ![t] = "wait"]
                  /\ UNCHANGED <<semCall, semLate>>
    /\ UNCHANGED <<keyed, nextId, semSignal>>

\* remove_waiter_for_task, of one set.
RemoveWaiter(set, t) ==
    LET mine == SelectSeq(set.waiters, LAMBDA w : w.task = t) IN
    [FoldSeq(LAMBDA w, s : Uncount(s, w), set, mine)
        EXCEPT !.waiters = SelectSeq(@, LAMBDA w : w.task # t)]

\* After schedule() returns: EIDRM, EINTR, EAGAIN, or another try.
Resume(t) ==
    LET queued == \E id \in DOMAIN sets : t \in WaiterTasks(sets[id]) IN
    /\ semStep[t] = "wait" /\ ~semAsleep[t]
    /\ sets' = [id \in DOMAIN sets |-> RemoveWaiter(sets[id], t)]
    /\ IF semCall[t].id \notin DOMAIN sets \/ semSignal[t] \/ (queued /\ semLate[t])
       THEN SemReturn(t)
       ELSE semStep' = [semStep EXCEPT ![t] = "try"] /\ UNCHANGED <<semCall, semLate, semTimers>>
    /\ UNCHANGED <<keyed, nextId, semAsleep, semSignal>>

-----------------------------------------------------------------------------
(* Signals and time.                                                       *)

SemDeadline(t) ==
    /\ t \in SemTimed /\ semStep[t] \in {"try", "wait"} /\ ~semLate[t]
    /\ semLate' = [semLate EXCEPT ![t] = TRUE]
    /\ UNCHANGED <<sets, keyed, nextId, semCall, semStep, semAsleep, semTimers, semSignal>>

\* A timer is not cancelled: it fires after its deadline whatever the task does.
SemTimer(t) ==
    /\ \E k \in semTimers[t] :
        /\ k = "old" \/ semLate[t]
        /\ semTimers' = [semTimers EXCEPT ![t] = @ \ {k}]
    /\ semAsleep' = [semAsleep EXCEPT ![t] = FALSE]
    /\ UNCHANGED <<sets, keyed, nextId, semCall, semStep, semLate, semSignal>>

SendSignal(t) ==
    /\ t \in SemSignalled /\ ~semSignal[t] /\ semStep[t] # "idle"
    /\ semSignal' = [semSignal EXCEPT ![t] = TRUE]
    /\ semAsleep' = [semAsleep EXCEPT ![t] = FALSE]
    /\ UNCHANGED <<sets, keyed, nextId, semCall, semStep, semLate, semTimers>>

HandleSignal(t) ==
    /\ semSignal[t] /\ semStep[t] = "idle"
    /\ semSignal' = [semSignal EXCEPT ![t] = FALSE]
    /\ UNCHANGED <<sets, keyed, nextId, semCall, semStep, semAsleep, semLate, semTimers>>

SemNext ==
    \E t \in SemTask :
        \/ SemGet(t) \/ RemoveSet(t) \/ SetAttrs(t) \/ SetValues(t)
        \/ SemEnter(t) \/ TrySemop(t) \/ Resume(t)
        \/ SemDeadline(t) \/ SemTimer(t) \/ SendSignal(t) \/ HandleSignal(t)

SemSpec == SemInit /\ [][SemNext]_semVars

-----------------------------------------------------------------------------
\* GETNCNT and GETZCNT report exactly the callers that wait: every way out of a
\* wait, a wakeup, a signal, a timeout or another call's change, counts back once.
WaitCountsExact ==
    \A id \in DOMAIN sets : \A i \in DOMAIN sets[id].values :
        LET n(k) == Len(SelectSeq(sets[id].waiters, LAMBDA w : w.num = i /\ w.kind = k)) IN
        sets[id].ncnt[i] = n("NonZero") /\ sets[id].zcnt[i] = n("Zero")

\* A caller sleeps only while the set exists, its entry is in the set and its
\* operations cannot be applied to the values the set has now.
SleepersMustWait ==
    \A t \in SemTask : semAsleep[t] =>
        LET id == semCall[t].id IN
        /\ id \in DOMAIN sets
        /\ t \in WaiterTasks(sets[id])
        /\ Waits(sets[id], semCall[t].ops)

\* A key names the set that was made for it, and no set of a key is without it.
KeysNameSets ==
    /\ \A k \in DOMAIN keyed : keyed[k] \in DOMAIN sets /\ sets[keyed[k]].key = k
    /\ \A id \in DOMAIN sets : sets[id].key # IpcPrivate => keyed[sets[id].key] = id
=============================================================================
