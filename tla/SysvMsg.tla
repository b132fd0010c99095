------------------------------ MODULE SysvMsg -------------------------------
(***************************************************************************)
(* System V message queues (syscall/msg.rs): queues bounded by msg_qbytes, *)
(* msgsnd and msgrcv with message selection by type, the waiters that      *)
(* every change of a queue wakes, removal, IPC_SET, and msg_next_id, which *)
(* chooses the identifier of the next queue.                               *)
(***************************************************************************)
EXTENDS Integers, Sequences, SequencesExt, FiniteSetsExt

CONSTANTS MsgTask, MsgKey,
          Limits,            \* values of msg_qbytes
          MsgTypes, MsgLens, \* of the messages sent
          Selectors,         \* msgtyp, msgsz and flags of the receives
          MSGMNI, NextIds, MaxMsgId,
          MsgSignalled

PrivateKey == "private"

VARIABLES
    mqueues,     \* MsgManager.queues: key, qbytes, cbytes, messages, waiters
    mkeyed,      \* MsgManager.keyed_queues
    mNextId,     \* MsgManager.next_id
    requested,   \* MSG_NEXT_ID, 0 for none
    msgCall,     \* the msgsnd or msgrcv a task is in
    msgStep,     \* "idle", "try", "wait" in schedule, "check" before EIDRM is looked for
    msgAsleep, msgSignal,
    lastId       \* identifiers handed out so far, a bound on creation

msgVars == <<mqueues, mkeyed, mNextId, requested, msgCall, msgStep, msgAsleep, msgSignal, lastId>>

MsgIdle == [op |-> "none"]

MsgInit ==
    /\ mqueues = <<>> /\ mkeyed = <<>> /\ mNextId = 1 /\ requested = 0 /\ lastId = 0
    /\ msgCall = [t \in MsgTask |-> MsgIdle]
    /\ msgStep = [t \in MsgTask |-> "idle"]
    /\ msgAsleep = [t \in MsgTask |-> FALSE]
    /\ msgSignal = [t \in MsgTask |-> FALSE]

Without(f, x) == [y \in DOMAIN f \ {x} |-> f[y]]
With(f, x, v) == [y \in DOMAIN f \cup {x} |-> IF y = x THEN v ELSE f[y]]
Unused(n) == CHOOSE m \in n .. n + Cardinality(DOMAIN mqueues) :
                 m \notin DOMAIN mqueues /\ \A k \in n .. m - 1 : k \in DOMAIN mqueues

-----------------------------------------------------------------------------
(* msgget and msgctl.                                                      *)

\* create_queue with alloc_id: the requested identifier if it is free, once.
CreateQueue(t) ==
    \E key \in MsgKey \cup {PrivateKey}, q \in Limits :
        LET asked == requested # 0 /\ requested \notin DOMAIN mqueues
            id == IF asked THEN requested ELSE Unused(mNextId)
            new == [key |-> key, qbytes |-> q, cbytes |-> 0, messages |-> <<>>, waiters |-> <<>>] IN
        /\ msgStep[t] = "idle" /\ key \notin DOMAIN mkeyed
        /\ Cardinality(DOMAIN mqueues) < MSGMNI /\ lastId < MaxMsgId
        /\ mqueues' = With(mqueues, id, new)
        /\ mkeyed' = IF key = PrivateKey THEN mkeyed ELSE With(mkeyed, key, id)
        /\ mNextId' = IF asked THEN mNextId ELSE Unused(id + 1)
        /\ requested' = 0 /\ lastId' = lastId + 1
        /\ UNCHANGED <<msgCall, msgStep, msgAsleep, msgSignal>>

\* A write to /proc/sys/kernel/msg_next_id.
SetNextId(t) ==
    /\ msgStep[t] = "idle" /\ requested' \in NextIds
    /\ UNCHANGED <<mqueues, mkeyed, mNextId, msgCall, msgStep, msgAsleep, msgSignal, lastId>>

\* wake_waiters, after the queue has become q.
WakeWaiters(id, q) ==
    /\ mqueues' = [mqueues EXCEPT ![id] = [q EXCEPT !.waiters = <<>>]]
    /\ msgAsleep' = [t \in MsgTask |-> msgAsleep[t] /\ ~Contains(q.waiters, t)]

\* IPC_RMID.
RemoveQueue(t) ==
    /\ msgStep[t] = "idle"
    /\ \E id \in DOMAIN mqueues :
        /\ mqueues' = Without(mqueues, id)
        /\ mkeyed' = IF mqueues[id].key = PrivateKey THEN mkeyed ELSE Without(mkeyed, mqueues[id].key)
        /\ msgAsleep' = [u \in MsgTask |-> msgAsleep[u] /\ ~Contains(mqueues[id].waiters, u)]
    /\ UNCHANGED <<mNextId, requested, msgCall, msgStep, msgSignal, lastId>>

\* IPC_SET of msg_qbytes, which may fall below what is queued.
SetLimit(t) ==
    /\ msgStep[t] = "idle"
    /\ \E id \in DOMAIN mqueues, q \in Limits :
        WakeWaiters(id, [mqueues[id] EXCEPT !.qbytes = IF q > 1 THEN q ELSE 1])
    /\ UNCHANGED <<mkeyed, mNextId, requested, msgCall, msgStep, msgSignal, lastId>>

-----------------------------------------------------------------------------
(* msgsnd and msgrcv.                                                      *)

HasCapacityFor(q, len) == q.cbytes + len <= q.qbytes /\ Len(q.messages) < q.qbytes

\* find_message_index, 0 for none.  A negative type asks for the lowest type up to it.
FindMessage(ms, sel) ==
    LET fits(i) == CASE sel.copy -> i = sel.typ + 1
                     [] ~sel.copy /\ sel.typ = 0 -> TRUE
                     [] ~sel.copy /\ sel.typ > 0 -> (ms[i].type = sel.typ) # sel.except
                     [] OTHER -> ms[i].type <= -sel.typ
        found == {i \in DOMAIN ms : fits(i)}
        lowest == {i \in found : \A j \in found : ms[i].type <= ms[j].type} IN
    IF found = {} THEN 0
    ELSE IF sel.typ < 0 /\ ~sel.copy THEN Min(lowest) ELSE Min(found)

MsgEnter(t) ==
    /\ msgStep[t] = "idle" /\ ~msgSignal[t]
    /\ \E id \in DOMAIN mqueues :
        \/ \E ty \in MsgTypes, n \in MsgLens, nowait \in BOOLEAN :
              msgCall' = [msgCall EXCEPT ![t] = [op |-> "snd", id |-> id, nowait |-> nowait,
                                                msg |-> [type |-> ty, len |-> n]]]
        \/ \E sel \in Selectors, nowait \in BOOLEAN :
              /\ sel.copy => nowait
              /\ msgCall' = [msgCall EXCEPT ![t] = [op |-> "rcv", id |-> id, nowait |-> nowait,
                                                   sel |-> sel]]
    /\ msgStep' = [msgStep EXCEPT ![t] = "try"]
    /\ UNCHANGED <<mqueues, mkeyed, mNextId, requested, msgAsleep, msgSignal, lastId>>

MsgReturn(t) ==
    /\ msgStep' = [msgStep EXCEPT ![t] = "idle"]
    /\ msgCall' = [msgCall EXCEPT ![t] = MsgIdle]

\* block_current, or EAGAIN, ENOMSG, EINTR.
Block(t) ==
    LET c == msgCall[t] IN
    IF c.nowait \/ msgSignal[t] THEN MsgReturn(t) /\ UNCHANGED <<mqueues, msgAsleep>>
    ELSE /\ mqueues' = [mqueues EXCEPT ![c.id].waiters = Append(@, t)]
         /\ msgAsleep' = [msgAsleep EXCEPT ![t] = TRUE]
         /\ msgStep' = [msgStep EXCEPT ![t] = "wait"]
         /\ UNCHANGED msgCall

\* try_or_block_msgsnd.
Send(t) ==
    LET c == msgCall[t]  q == mqueues[c.id] IN
    /\ msgStep[t] = "try" /\ c.op = "snd"
    /\ IF c.id \notin DOMAIN mqueues THEN MsgReturn(t) /\ UNCHANGED <<mqueues, msgAsleep>>
       ELSE IF ~HasCapacityFor(q, c.msg.len) THEN Block(t)
       ELSE /\ WakeWaiters(c.id, [q EXCEPT !.cbytes = @ + c.msg.len, !.messages = Append(@, c.msg)])
            /\ MsgReturn(t)
    /\ UNCHANGED <<mkeyed, mNextId, requested, msgSignal, lastId>>

Received(q, i, sel) ==
    IF sel.copy THEN q
    ELSE [q EXCEPT !.cbytes = @ - q.messages[i].len, !.messages = RemoveAt(@, i)]

\* try_or_block_msgrcv; a message longer than the buffer stays unless MSG_NOERROR.
Receive(t) ==
    LET c == msgCall[t]  q == mqueues[c.id]  i == FindMessage(q.messages, c.sel) IN
    /\ msgStep[t] = "try" /\ c.op = "rcv"
    /\ IF c.id \notin DOMAIN mqueues THEN MsgReturn(t) /\ UNCHANGED <<mqueues, msgAsleep>>
       ELSE IF i = 0 THEN Block(t)
       ELSE IF q.messages[i].len > c.sel.size /\ ~c.sel.noerror
            THEN MsgReturn(t) /\ UNCHANGED <<mqueues, msgAsleep>>
       ELSE IF c.sel.copy
            THEN /\ mqueues' = [mqueues EXCEPT ![c.id] = Received(q, i, c.sel)]
                 /\ MsgReturn(t) /\ UNCHANGED msgAsleep
       ELSE WakeWaiters(c.id, Received(q, i, c.sel)) /\ MsgReturn(t)
    /\ UNCHANGED <<mkeyed, mNextId, requested, msgSignal, lastId>>

\* post_msg_sleep_cleanup: the entry is removed and signals are looked at ...
Cleanup(t) ==
    /\ msgStep[t] = "wait" /\ ~msgAsleep[t]
    /\ mqueues' = [id \in DOMAIN mqueues |->
                     [mqueues[id] EXCEPT !.waiters = SelectSeq(@, LAMBDA u : u # t)]]
    /\ IF msgSignal[t] THEN MsgReturn(t)
       ELSE msgStep' = [msgStep EXCEPT ![t] = "check"] /\ UNCHANGED msgCall
    /\ UNCHANGED <<mkeyed, mNextId, requested, msgAsleep, msgSignal, lastId>>

\* ... and, under the lock again, that the queue is still there.
CheckRemoved(t) ==
    /\ msgStep[t] = "check"
    /\ IF msgCall[t].id \notin DOMAIN mqueues THEN MsgReturn(t)
       ELSE msgStep' = [msgStep EXCEPT ![t] = "try"] /\ UNCHANGED msgCall
    /\ UNCHANGED <<mqueues, mkeyed, mNextId, requested, msgAsleep, msgSignal, lastId>>

MsgSendSignal(t) ==
    /\ t \in MsgSignalled /\ ~msgSignal[t] /\ msgStep[t] # "idle"
    /\ msgSignal' = [msgSignal EXCEPT ![t] = TRUE]
    /\ msgAsleep' = [msgAsleep EXCEPT ![t] = FALSE]
    /\ UNCHANGED <<mqueues, mkeyed, mNextId, requested, msgCall, msgStep, lastId>>

MsgHandleSignal(t) ==
    /\ msgSignal[t] /\ msgStep[t] = "idle"
    /\ msgSignal' = [msgSignal EXCEPT ![t] = FALSE]
    /\ UNCHANGED <<mqueues, mkeyed, mNextId, requested, msgCall, msgStep, msgAsleep, lastId>>

MsgNext ==
    \E t \in MsgTask :
        \/ CreateQueue(t) \/ SetNextId(t) \/ RemoveQueue(t) \/ SetLimit(t)
        \/ MsgEnter(t) \/ Send(t) \/ Receive(t) \/ Cleanup(t) \/ CheckRemoved(t)
        \/ MsgSendSignal(t) \/ MsgHandleSignal(t)

MsgSpec == MsgInit /\ [][MsgNext]_msgVars

-----------------------------------------------------------------------------
\* msg_cbytes is the length of the messages in the queue, through receives that
\* copy, truncate or take a message out of the middle.
BytesExact ==
    \A id \in DOMAIN mqueues :
        mqueues[id].cbytes = FoldSeq(LAMBDA m, n : n + m.len, 0, mqueues[id].messages)

\* A caller sleeps only while what it waits for has not come about: a queue with
\* its entry exists and has no room for its message, or no message it selects.
MsgSleepersMustWait ==
    \A t \in MsgTask : msgAsleep[t] =>
        LET c == msgCall[t] IN
        /\ c.id \in DOMAIN mqueues /\ Contains(mqueues[c.id].waiters, t)
        /\ IF c.op = "snd" THEN ~HasCapacityFor(mqueues[c.id], c.msg.len)
           ELSE FindMessage(mqueues[c.id].messages, c.sel) = 0

\* A send never makes a queue hold more bytes, or more messages, than msg_qbytes.
SendsWithinLimit ==
    [][\A id \in DOMAIN mqueues \cap DOMAIN mqueues' :
          Len(mqueues'[id].messages) > Len(mqueues[id].messages)
          => /\ mqueues'[id].cbytes <= mqueues'[id].qbytes
             /\ Len(mqueues'[id].messages) <= mqueues'[id].qbytes]_msgVars
=============================================================================
