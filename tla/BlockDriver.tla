----------------------------- MODULE BlockDriver -----------------------------
(* Two block device drivers.  VirtIOBlock (os/src/drivers/block.rs): requests  *)
(* of sleeping tasks on one virtqueue, the interrupt handler, the timer poll   *)
(* and the hand-over of completions from task to task.  Jh7110MmcBlock         *)
(* (os/src/drivers/dw_mmc.rs): transfers of one or many blocks with retries,   *)
(* the fall-back to single blocks and the probes that allow many.              *)
(*                                                                             *)
(* The virtqueue is the virtio-drivers crate as the driver uses it: a stack of *)
(* free descriptor heads, the requests the device has and the used ring.       *)
EXTENDS Naturals, Sequences, FiniteSets

CONSTANTS AsyncTask,   \* tasks whose requests sleep
          SyncTask,    \* callers that may not sleep: boot, or interrupts masked
          Token,       \* descriptor heads, 1 .. virt_queue_size
          Handler,     \* CPUs that take the interrupt or poll from the timer
          BootOnly,    \* TRUE: the callers that may not sleep precede the tasks
          TimerPolls,  \* TRUE where the timer polls for completions
          MaxRequests, \* bound on the requests of a task
          MaxKicks,    \* bound on wakes that are not completions
          NoToken

VARIABLES free,        \* the free descriptor heads, next one first
          avail,       \* the requests the device has, by head
          used,        \* the used ring from last_used_idx on
          irq,         \* the device's interrupt is pending
          inflight,    \* VirtIOBlockState.async_inflight
          condvars,    \* the waiters of each head
          req,         \* the request of each task
          handling,    \* the head each CPU's handler is about to signal
          kicks,       \* history: wakes that were not completions
          reused,      \* history: a head was reused while somebody was to signal it
          panicked     \* the driver's assertion or expect that failed

virtVars == <<free, avail, used, irq, inflight, condvars, req, handling, kicks, reused, panicked>>

Task == AsyncTask \cup SyncTask
NoReq == [at |-> "idle", token |-> NoToken, asleep |-> FALSE, made |-> 0]
Peek(ring) == IF ring = <<>> THEN NoToken ELSE Head(ring)

VirtInit ==
    /\ free = [i \in 1 .. Cardinality(Token) |-> i]
    /\ avail = {} /\ used = <<>> /\ irq = FALSE /\ inflight = 0
    /\ condvars = [k \in Token |-> <<>>]
    /\ req = [t \in Task |-> NoReq]
    /\ handling = [c \in Handler |-> NoToken]
    /\ kicks = 0 /\ reused = FALSE /\ panicked = "no"

Running == panicked = "no"

(* Heads that a handler or a task has seen completed and will signal. *)
ToSignal == {handling[c] : c \in Handler} \cup {req[t].token : t \in {u \in Task : req[u].at = "signal"}}

(* Condvar::wait_no_sched, inside the queue lock: the task is queued and       *)
(* blocked in one step for signal_front.                                       *)
SubmitBlocks(t, k) == condvars' = [condvars EXCEPT ![k] = Append(@, t)]

(* read_blocks_nonblocking_uncached, write_blocks_nonblocking_uncached: the    *)
(* request enters the queue and its task sleeps on the condvar of its head.    *)
(* A full queue fails the unwrap of the submission.                            *)
Submit(t) ==
    /\ Running /\ req[t].at = "idle" /\ req[t].made < MaxRequests
    /\ IF free = <<>>
       THEN /\ panicked' = "queue full"
            /\ UNCHANGED <<free, avail, inflight, condvars, req, reused>>
       ELSE LET k == Head(free)
            IN /\ free' = Tail(free) /\ avail' = avail \cup {k} /\ inflight' = inflight + 1
               /\ SubmitBlocks(t, k)
               /\ reused' = (reused \/ k \in ToSignal)
               /\ req' = [req EXCEPT ![t] = [at |-> "wait", token |-> k, asleep |-> TRUE,
                                             made |-> @.made + 1]]
               /\ UNCHANGED panicked
    /\ UNCHANGED <<used, irq, handling, kicks>>

(* The device finishes a request.  It interrupts when the used ring was empty; *)
(* with requests still unread it may or may not (RING_EVENT_IDX).              *)
Complete(k) ==
    /\ Running /\ k \in avail
    /\ avail' = avail \ {k} /\ used' = Append(used, k)
    /\ irq' \in IF used = <<>> THEN {TRUE} ELSE {irq, TRUE}
    /\ UNCHANGED <<free, inflight, condvars, req, handling, kicks, reused, panicked>>

(* handle_irq: acknowledge and peek at the head of the used ring. *)
HandleIrq(c) ==
    /\ Running /\ irq /\ handling[c] = NoToken
    /\ irq' = FALSE /\ handling' = [handling EXCEPT ![c] = Peek(used)]
    /\ UNCHANGED <<free, avail, used, inflight, condvars, req, kicks, reused, panicked>>

(* poll_completion: the timer of LoongArch peeks too while requests are out. *)
PollCompletion(c) ==
    /\ Running /\ TimerPolls /\ inflight # 0 /\ handling[c] = NoToken /\ used # <<>>
    /\ handling' = [handling EXCEPT ![c] = Peek(used)]
    /\ UNCHANGED <<free, avail, used, irq, inflight, condvars, req, kicks, reused, panicked>>

(* Condvar::signal_front on the head's condvar: the tasks that wake. *)
Woken(k) == IF condvars[k] = <<>> THEN {} ELSE {Head(condvars[k])}

(* signal_completed, after the queue lock: only the waiter of that head. *)
SignalCompleted(k, r) ==
    /\ condvars' = [condvars EXCEPT ![k] = IF @ = <<>> THEN @ ELSE Tail(@)]
    /\ req' = [t \in Task |-> IF t \in Woken(k) THEN [r[t] EXCEPT !.asleep = FALSE] ELSE r[t]]

HandlerSignal(c) ==
    /\ Running /\ handling[c] # NoToken
    /\ SignalCompleted(handling[c], req)
    /\ handling' = [handling EXCEPT ![c] = NoToken]
    /\ UNCHANGED <<free, avail, used, irq, inflight, kicks, reused, panicked>>

(* The peek after a task has retired its own request. *)
NextCompleted(ring) == Peek(ring)

(* The task runs again: it retires its request, whose head must be the next of *)
(* the used ring, and peeks for the following one.                             *)
Retire(t) ==
    /\ Running /\ req[t].at = "wait" /\ ~req[t].asleep
    /\ IF Peek(used) # req[t].token
       THEN /\ panicked' = "request is not the next completion"
            /\ UNCHANGED <<free, used, inflight, req>>
       ELSE /\ used' = Tail(used) /\ free' = <<req[t].token>> \o free
            /\ inflight' = inflight - 1
            /\ req' = [req EXCEPT ![t].at = IF NextCompleted(Tail(used)) = NoToken THEN "idle"
                                            ELSE "signal",
                                  ![t].token = NextCompleted(Tail(used))]
            /\ UNCHANGED panicked
    /\ UNCHANGED <<avail, irq, condvars, handling, kicks, reused>>

(* signal_completed of the following completion. *)
PassOn(t) ==
    /\ Running /\ req[t].at = "signal"
    /\ SignalCompleted(req[t].token, [req EXCEPT ![t].at = "idle", ![t].token = NoToken])
    /\ UNCHANGED <<free, avail, used, irq, inflight, handling, kicks, reused, panicked>>

(* read_blocks_sync_uncached: a caller that may not sleep asserts that no      *)
(* asynchronous request is out and waits in the driver.                        *)
SyncIo(t) ==
    /\ Running /\ (BootOnly => \A u \in AsyncTask : req[u].made = 0) /\ req[t].made < MaxRequests
    /\ panicked' = IF inflight # 0 THEN "synchronous I/O mixed with asynchronous" ELSE "no"
    /\ req' = [req EXCEPT ![t].made = @ + 1]
    /\ UNCHANGED <<free, avail, used, irq, inflight, condvars, handling, kicks, reused>>

(* A signal or a timer of an earlier wait: wakeup_task wakes the blocked task. *)
Kick(t) ==
    /\ Running /\ req[t].asleep /\ kicks < MaxKicks
    /\ req' = [req EXCEPT ![t].asleep = FALSE]
    /\ kicks' = kicks + 1
    /\ UNCHANGED <<free, avail, used, irq, inflight, condvars, handling, reused, panicked>>

VirtNext ==
    \/ \E t \in AsyncTask : Submit(t) \/ Retire(t) \/ PassOn(t) \/ Kick(t)
    \/ \E t \in SyncTask : SyncIo(t)
    \/ \E k \in Token : Complete(k)
    \/ \E c \in Handler : HandleIrq(c) \/ PollCompletion(c) \/ HandlerSignal(c)

VirtSpec == VirtInit /\ [][VirtNext]_virtVars

(* The device finishes what it was given, interrupts are taken and a runnable  *)
(* task runs.                                                                  *)
VirtFairness ==
    /\ \A k \in Token : WF_virtVars(Complete(k))
    /\ \A c \in Handler : WF_virtVars(HandleIrq(c)) /\ WF_virtVars(HandlerSignal(c))
    /\ \A t \in AsyncTask : WF_virtVars(Retire(t)) /\ WF_virtVars(PassOn(t))

(* No completion is stranded: as long as nothing but completions wakes the     *)
(* sleepers, while the used ring holds a completion its task is awake, or an   *)
(* interrupt is pending, or somebody who has seen that head is about to signal *)
(* it; with interrupts coalesced the chain of hand-overs by the tasks that     *)
(* retire requests is all that reaches the later ones (block.rs,               *)
(* signal_completed).                                                          *)
CompletionServed ==
    (Running /\ kicks = 0 /\ used # <<>>) =>
        \/ irq
        \/ \E t \in AsyncTask : req[t].at = "wait" /\ ~req[t].asleep
        \/ \E c \in Handler : handling[c] = Head(used)
        \/ \E t \in AsyncTask : req[t].at = "signal" /\ req[t].token = Head(used)

(* As long as nothing but completions wakes the sleepers, and no head is       *)
(* submitted again while a handler that saw its last completion has yet to     *)
(* signal it, a task wakes only when its own request is the next completion    *)
(* and no assertion of the driver fails: the expect of complete_read_blocks    *)
(* and the assertions on async_inflight.                                       *)
WakesOwnCompletion == (kicks = 0 /\ ~reused) => panicked = "no"

(* The same whatever happens: "unrelated sleepers must stay blocked until      *)
(* their own token reaches used" (block.rs, signal_completed).                 *)
SleepersUndisturbed == panicked = "no"

(* Every request that was submitted ends: the task that sleeps for it runs     *)
(* again (read_blocks_nonblocking_uncached).                                   *)
RequestsEnd == \A t \in AsyncTask : (req[t].at = "wait") ~> (req[t].at = "idle" \/ kicks # 0 \/ reused)

----------------------------------------------------------------------------
(* The SD card driver of the JH7110.                                           *)

CONSTANTS CardKinds,   \* the cards: "good", "no23", "bad18", "bad25"
          FsBlocks,    \* sectors of the filesystem
          Scratch,     \* sectors of the probe's scratch area behind it
          Many,        \* MAX_READ_BLOCKS_PER_TRANSFER, MAX_WRITE_BLOCKS_PER_TRANSFER
          MaxFaults,   \* bound on commands that fail
          MaxTransfers \* bound on calls

VARIABLES kindOf,      \* the card
          card,        \* its sectors
          limits,      \* MmcState.max_read_blocks and max_write_blocks
          mcall,       \* the transfer under way
          mfaults,     \* commands that have failed
          transfers,   \* calls made
          expected,    \* history: what the filesystem wrote
          corrupt      \* history: a call returned with the wrong sectors

mmcVars == <<kindOf, card, limits, mcall, mfaults, transfers, expected, corrupt>>

FsSector == 1 .. FsBlocks
CardSector == 1 .. FsBlocks + Scratch
Bad == 1000
NoCall == [op |-> "none", first |-> 1, count |-> 0, done |-> 0, stamp |-> 0, buf |-> <<>>]
Booting == [NoCall EXCEPT !.op = "boot"]
Dead == [NoCall EXCEPT !.op = "panic"]

MmcInit ==
    /\ kindOf \in CardKinds
    /\ card = [s \in CardSector |-> 0] /\ expected = [s \in FsSector |-> 0]
    /\ limits = [read |-> 1, write |-> 1]
    /\ mcall = Booting /\ mfaults = 0 /\ transfers = 0 /\ corrupt = FALSE

MayFail == IF mfaults < MaxFaults THEN BOOLEAN ELSE {FALSE}
Failed(f) == mfaults' = IF f THEN mfaults + 1 ELSE mfaults

(* What CMD18 and CMD25 deliver, and what is stored: a bad card damages the    *)
(* last sector of a transfer of many.                                          *)
Delivered(bad, content) ==
    [s \in DOMAIN content |->
       IF kindOf = bad /\ \A r \in DOMAIN content : r <= s THEN Bad ELSE content[s]]

(* probe_multiblock_read: CMD23 and CMD18 must deliver what CMD17 delivers. *)
ReadProbe ==
    LET reference == [s \in 1 .. Many |-> card[s]]
    IN kindOf # "no23" /\ Delivered("bad18", reference) = reference

(* probe_multiblock_write's read-back of the pattern. *)
WriteProbe(pattern) == kindOf # "no23" /\ Delivered("bad25", pattern) = pattern

ScratchSector == FsBlocks + 1 .. FsBlocks + Many
Pattern == [s \in ScratchSector |-> 7]

(* The write probe: the pattern is written behind the filesystem, read back,   *)
(* and the sectors are restored one by one; a restoration that fails leaves    *)
(* them and forbids CMD25.  There must be room behind the filesystem.          *)
ProbeWrite(writeFails, restoreFails) ==
    card' = [s \in CardSector |->
               IF Scratch >= Many /\ restoreFails /\ ~writeFails /\ s = FsBlocks + 1
               THEN 7 ELSE card[s]]

(* Its verdict: CMD25 may be used. *)
ProbePasses(writeFails, restoreFails) ==
    Scratch >= Many /\ ~writeFails /\ ~restoreFails /\ WriteProbe(Pattern)

(* Jh7110MmcBlock::new: the read probe, then the write probe. *)
Boot ==
    /\ mcall.op = "boot"
    /\ \E rf \in MayFail, wf \in BOOLEAN, sf \in BOOLEAN :
         /\ (rf \/ mfaults >= MaxFaults) => ~wf /\ ~sf
         /\ wf => ~sf
         /\ Failed(rf \/ wf \/ sf)
         /\ IF ReadProbe /\ ~rf
            THEN /\ ProbeWrite(wf, sf)
                 /\ limits' = [read |-> Many,
                               write |-> IF ProbePasses(wf, sf) THEN Many ELSE 1]
            ELSE UNCHANGED <<card, limits>>
    /\ mcall' = NoCall
    /\ UNCHANGED <<kindOf, transfers, expected, corrupt>>

(* set_max_write_blocks, the diagnostic control. *)
SetMaxWrite(blocks) ==
    /\ mcall.op = "none" /\ transfers < MaxTransfers
    /\ transfers' = transfers + 1
    /\ IF blocks > 1 /\ limits.read = 1
       THEN UNCHANGED <<card, limits, mfaults>>
       ELSE IF blocks > 1 /\ limits.write = 1
       THEN \E wf \in MayFail, sf \in BOOLEAN :
              /\ (wf \/ mfaults >= MaxFaults) => ~sf
              /\ Failed(wf \/ sf)
              /\ ProbeWrite(wf, sf)
              /\ limits' = IF ProbePasses(wf, sf) THEN [limits EXCEPT !.write = blocks]
                           ELSE limits
       ELSE limits' = [limits EXCEPT !.write = blocks] /\ UNCHANGED <<card, mfaults>>
    /\ UNCHANGED <<kindOf, mcall, expected, corrupt>>

(* read_blocks_uncached and write_blocks_uncached take the state lock. *)
EnterTransfer ==
    /\ mcall.op = "none" /\ transfers < MaxTransfers
    /\ \E op \in {"read", "write"}, first \in FsSector, count \in 1 .. FsBlocks :
         /\ first + count - 1 \in FsSector
         /\ mcall' = [op |-> op, first |-> first, count |-> count, done |-> 0,
                      stamp |-> transfers + 1, buf |-> <<>>]
    /\ transfers' = transfers + 1
    /\ UNCHANGED <<kindOf, card, limits, mfaults, expected, corrupt>>

Limit == IF mcall.op = "write" THEN limits.write ELSE limits.read
Lower == IF mcall.op = "write" THEN [limits EXCEPT !.write = 1] ELSE [limits EXCEPT !.read = 1]
ChunkFirst == mcall.first + mcall.done
ChunkLen == IF mcall.count - mcall.done < Limit THEN mcall.count - mcall.done ELSE Limit
ChunkSectors == ChunkFirst .. ChunkFirst + ChunkLen - 1
Sent == [s \in ChunkSectors |-> mcall.stamp]
Stored(content) == [s \in CardSector |-> IF s \in DOMAIN content THEN content[s] ELSE card[s]]
Restrict2(f, S) == [s \in S |-> f[s]]

(* A chunk of several blocks: CMD23 then CMD18 or CMD25.  A failure of either  *)
(* lowers the limit to one block and repeats the chunk; CMD25 may have stored  *)
(* any first part of it.                                                       *)
ManyBlocks ==
    /\ mcall.op \in {"read", "write"} /\ ChunkLen > 1
    /\ \E f \in IF kindOf = "no23" THEN {TRUE} ELSE MayFail :
         /\ Failed(f)
         /\ IF f
            THEN /\ limits' = Lower
                 /\ UNCHANGED mcall
                 /\ \E n \in 0 .. ChunkLen - 1 :
                      /\ (mcall.op = "read" \/ kindOf = "no23") => n = 0
                      /\ card' = Stored(Restrict2(Sent, ChunkFirst .. ChunkFirst + n - 1))
            ELSE /\ card' = IF mcall.op = "write" THEN Stored(Delivered("bad25", Sent)) ELSE card
                 /\ mcall' = [mcall EXCEPT !.done = @ + ChunkLen,
                       !.buf = @ \o [i \in 1 .. ChunkLen |->
                          Delivered("bad18", Restrict2(card, ChunkSectors))[ChunkFirst + i - 1]]]
                 /\ UNCHANGED limits
    /\ UNCHANGED <<kindOf, transfers, expected, corrupt>>

(* transfer_with_retry repeats a command of one block once: the transfer fails *)
(* when both attempts fail.                                                    *)
AfterRetry(f) == f

(* A chunk of one block, CMD17 or CMD24; a second failure panics. *)
OneBlock ==
    /\ mcall.op \in {"read", "write"} /\ ChunkLen = 1
    /\ \E f, g \in MayFail :
         /\ g => f
         /\ Failed(f)
         /\ IF AfterRetry(g)
            THEN mcall' = Dead /\ UNCHANGED card
            ELSE /\ card' = IF mcall.op = "write" /\ ~g THEN Stored(Sent) ELSE card
                 /\ mcall' = [mcall EXCEPT !.done = @ + 1,
                                           !.buf = Append(@, IF g THEN Bad ELSE card[ChunkFirst])]
    /\ UNCHANGED <<kindOf, limits, transfers, expected, corrupt>>

(* The call returns. *)
Returned ==
    /\ mcall.op \in {"read", "write"} /\ mcall.done = mcall.count
    /\ LET sectors == mcall.first .. mcall.first + mcall.count - 1
           now == [s \in FsSector |-> IF mcall.op = "write" /\ s \in sectors THEN mcall.stamp
                                      ELSE expected[s]]
       IN /\ expected' = now
          /\ corrupt' = \/ corrupt
                        \/ Restrict2(card, FsSector) # now
                        \/ /\ mcall.op = "read"
                           /\ \E i \in 1 .. mcall.count :
                                mcall.buf[i] # expected[mcall.first + i - 1]
    /\ mcall' = NoCall
    /\ UNCHANGED <<kindOf, card, limits, mfaults, transfers>>

MmcNext ==
    \/ Boot \/ EnterTransfer \/ ManyBlocks \/ OneBlock \/ Returned
    \/ \E blocks \in {1, Many} : SetMaxWrite(blocks)

MmcSpec == MmcInit /\ [][MmcNext]_mmcVars

(* Whatever card is inserted and whichever commands fail, a transfer that      *)
(* returns has moved exactly its sectors: multi-block commands a card carries  *)
(* out wrongly are found by the probes before the filesystem uses them, a      *)
(* chunk that failed half-way is done again block by block, and the probes     *)
(* leave the filesystem's sectors alone (transfer_blocks_uncached).            *)
MmcTransfersExact == ~corrupt
=============================================================================
