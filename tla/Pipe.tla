-------------------------------- MODULE Pipe --------------------------------
(***************************************************************************)
(* Pipes (fs/pipe.rs): the ring buffer with its head, tail and status, the *)
(* queues of blocked readers, writers and pollers, splice and tee between  *)
(* two pipes, resizing, and the ends that are dropped; named FIFOs          *)
(* (fs/named_fifo.rs), whose entry keeps both ends.  What happens under the *)
(* ring lock is one action, except that the look at the peer end takes a    *)
(* strong reference to it, which a close on another CPU can make the last:  *)
(* dropping it then takes the ring lock again, and the CPU stops for good.  *)
(* The tasks collected under the lock are woken after it.                   *)
(***************************************************************************)
EXTENDS Naturals, Sequences, SequencesExt, FiniteSetsExt

CONSTANTS PipeId,
          ReaderOf, WriterOf,            \* pairs of a thread and the pipe it uses
          PollerOf, OutPollerOf,         \* and, for POLLIN and POLLOUT, that it polls
          SpliceBy,     \* triples of a thread, the pipe it takes from, the one it fills
          MaxWrite,                      \* the longest write
          Capacity, Capacities,          \* at creation, and F_SETPIPE_SZ's
          Fifo,                          \* the pipes that are named FIFOs
          PipeBuf,                       \* the room POLLOUT asks for: PAGE_SIZE
          PipeNonBlock,                  \* threads that also write with O_NONBLOCK
          PipeSignalled, MaxSignals      \* threads that get signals, and how many

PThread == {x[1] : x \in ReaderOf \cup WriterOf \cup PollerOf \cup OutPollerOf \cup SpliceBy}

VARIABLES
    ring,     \* PipeRingBuffer: arr, head, tail, status
    ends,     \* the ends some file has open
    looking,  \* the thread that has upgraded the peer end under the ring lock
    readq, writeq,   \* read_wait_queue, write_wait_queue
    pollq, outq,     \* read_poll_wait_queue, write_poll_wait_queue
    call,     \* the call a thread is in: its kind, the pipes, the bytes left
    blocked,  \* TaskStatus::Blocked
    interrupt,  \* current_has_interrupting_signal
    wakes,    \* tasks a thread has collected to wake after the unlock
    content,  \* ghost: the bytes written to a pipe and not read from it
    stamp,    \* the next byte to write: the bytes written are 0, 1, 2, 0, 1, ...
    signals,  \* signals sent so far
    pipeFault \* the ring lock was taken by the thread that holds it

pipeVars == <<ring, ends, readq, writeq, pollq, outq, call, blocked, interrupt, wakes, content,
              stamp, signals, looking, pipeFault>>

NoCall == [kind |-> "none", from |-> 0, to |-> 0, left |-> <<>>]

NewRing == [arr |-> [i \in 0 .. Capacity - 1 |-> 0], head |-> 0, tail |-> 0, status |-> "Empty"]

PipeInit ==
    /\ ring = [p \in PipeId |-> NewRing]
    /\ ends = [p \in PipeId |-> IF p \in Fifo THEN {} ELSE {"read", "write"}]
    /\ readq = [p \in PipeId |-> <<>>] /\ writeq = [p \in PipeId |-> <<>>]
    /\ pollq = [p \in PipeId |-> {}] /\ outq = [p \in PipeId |-> {}]
    /\ call = [t \in PThread |-> NoCall]
    /\ blocked = [t \in PThread |-> FALSE]
    /\ interrupt = [t \in PThread |-> FALSE]
    /\ wakes = [t \in PThread |-> {}]
    /\ content = [p \in PipeId |-> <<>>]
    /\ stamp = 0 /\ signals = 0
    /\ looking = [p \in PipeId |-> "nobody"] /\ pipeFault = FALSE

-----------------------------------------------------------------------------
(* PipeRingBuffer.                                                         *)

Cap(r) == Cardinality(DOMAIN r.arr)

AvailableRead(r) ==
    IF r.status = "Empty" THEN 0
    ELSE IF r.tail > r.head THEN r.tail - r.head ELSE r.tail + Cap(r) - r.head

AvailableWrite(r) == IF r.status = "Full" THEN 0 ELSE Cap(r) - AvailableRead(r)

\* Mutant: the status is set as for a buffer that is never filled.
MutAdvanceTail(r, n) ==
    LET tail == (r.tail + n) % Cap(r) IN
    [r EXCEPT !.tail = tail, !.status = IF tail = r.head THEN "Empty" ELSE "Normal"]

AdvanceTail(r, n) ==
    LET tail == (r.tail + n) % Cap(r) IN
    [r EXCEPT !.tail = tail, !.status = IF tail = r.head THEN "Full" ELSE "Normal"]

AdvanceHead(r, n) ==
    LET head == (r.head + n) % Cap(r) IN
    [r EXCEPT !.head = head, !.status = IF head = r.tail THEN "Empty" ELSE "Normal"]

\* write_from, the two pieces of the copy included.
WriteFrom(r, bytes) ==
    IF bytes = <<>> THEN r
    ELSE AdvanceTail([r EXCEPT !.arr = [i \in DOMAIN r.arr |->
                         LET k == (i + Cap(r) - r.tail) % Cap(r) IN
                         IF k < Len(bytes) THEN bytes[k + 1] ELSE r.arr[i]]],
                     Len(bytes))

\* The bytes read_into copies out.
Peek(r, n) == [k \in 1 .. n |-> r.arr[(r.head + k - 1) % Cap(r)]]

ContiguousReadLen(r, pos) ==
    IF AvailableRead(r) = 0 THEN 0 ELSE IF r.tail > pos THEN r.tail - pos ELSE Cap(r) - pos
ContiguousWriteLen(r) ==
    IF AvailableWrite(r) = 0 THEN 0
    ELSE Min({AvailableWrite(r), IF r.tail >= r.head THEN Cap(r) - r.tail ELSE r.head - r.tail})

\* One chunk of transfer_to and duplicate_to: the bytes from pos, copied to the
\* tail of `out'.
Chunk(in, out, pos, remaining) ==
    Min({remaining, ContiguousReadLen(in, pos), ContiguousWriteLen(out)})
CopyChunk(in, out, pos, n) ==
    AdvanceTail([out EXCEPT !.arr = [i \in DOMAIN out.arr |->
                    IF out.tail <= i /\ i < out.tail + n THEN in.arr[pos + i - out.tail]
                                                         ELSE out.arr[i]]], n)

RECURSIVE TransferTo(_, _, _)
TransferTo(in, out, remaining) ==
    LET n == Chunk(in, out, in.head, remaining) IN
    IF n = 0 THEN <<in, out>>
    ELSE TransferTo(AdvanceHead(in, n), CopyChunk(in, out, in.head, n), remaining - n)

RECURSIVE DuplicateTo(_, _, _, _)
DuplicateTo(in, out, pos, remaining) ==
    LET n == Chunk(in, out, pos, remaining) IN
    IF n = 0 THEN out
    ELSE DuplicateTo(in, CopyChunk(in, out, pos, n), (pos + n) % Cap(in), remaining - n)

\* resize: EBUSY when the bytes do not fit.
Resized(r, n) ==
    LET k == AvailableRead(r) IN
    [arr |-> [i \in 0 .. n - 1 |-> IF i < k THEN r.arr[(r.head + i) % Cap(r)] ELSE 0],
     head |-> 0, tail |-> IF k = n THEN 0 ELSE k,
     status |-> IF k = 0 THEN "Empty" ELSE IF k = n THEN "Full" ELSE "Normal"]

-----------------------------------------------------------------------------
(* Threads.                                                                *)

\* The ends whose Arc is alive: NamedFifoState keeps both of a FIFO's.
Alive(p) == IF p \in Fifo /\ ends[p] # {} THEN {"read", "write"} ELSE ends[p]

Ready(t) == ~blocked[t] /\ wakes[t] = {}
In(t, kind) == Ready(t) /\ call[t].kind = kind
Begin(t, kind, p, q, bytes) ==
    call' = [call EXCEPT ![t] = [kind |-> kind, from |-> p, to |-> q, left |-> bytes]]
Finish(t) == call' = [call EXCEPT ![t] = NoCall]
Sleep(t) == blocked' = [blocked EXCEPT ![t] = TRUE]

\* wake_reader / wake_writer pop one task of a queue; pollers are all taken.
First(q) == IF q = <<>> THEN {} ELSE {Head(q)}
Others(q) == IF q = <<>> THEN <<>> ELSE Tail(q)

\* Mutant: only the pollers are collected.
MutWakeReaders(t, p) ==
    /\ wakes' = [wakes EXCEPT ![t] = pollq[p]]
    /\ pollq' = [pollq EXCEPT ![p] = {}]
    /\ UNCHANGED readq

WakeReaders(t, p) ==
    /\ wakes' = [wakes EXCEPT ![t] = First(readq[p]) \cup pollq[p]]
    /\ readq' = [readq EXCEPT ![p] = Others(@)]
    /\ pollq' = [pollq EXCEPT ![p] = {}]

WakeWriters(t, p) ==
    /\ wakes' = [wakes EXCEPT ![t] = First(writeq[p]) \cup outq[p]]
    /\ writeq' = [writeq EXCEPT ![p] = Others(@)]
    /\ outq' = [outq EXCEPT ![p] = {}]

\* wake_task, one task at a time.
WakeOne(t) ==
    \E u \in wakes[t] :
        /\ wakes' = [wakes EXCEPT ![t] = @ \ {u}]
        /\ blocked' = [blocked EXCEPT ![u] = FALSE]
        /\ UNCHANGED <<ring, ends, readq, writeq, pollq, outq, call, interrupt, content, stamp, signals, looking, pipeFault>>

Enter(t) ==
    /\ In(t, "none") /\ ~interrupt[t]
    /\ \/ \E x \in ReaderOf : x[1] = t /\ "read" \in ends[x[2]] /\ Begin(t, "read", x[2], 0, <<>>)
       \/ \E x \in WriterOf, n \in 1 .. MaxWrite, kind \in {"write", "trywrite"} :
             /\ x[1] = t /\ "write" \in ends[x[2]]
             /\ kind = "trywrite" => t \in PipeNonBlock
             /\ Begin(t, kind, 0, x[2], [i \in 1 .. n |-> (stamp + i) % 3])
       \/ \E x \in PollerOf : x[1] = t /\ "read" \in ends[x[2]] /\ Begin(t, "poll", x[2], 0, <<>>)
       \/ \E x \in OutPollerOf :
             x[1] = t /\ "write" \in ends[x[2]] /\ Begin(t, "pollout", 0, x[2], <<>>)
       \/ \E x \in SpliceBy, kind \in {"splice", "tee"} :
             /\ x[1] = t /\ "read" \in ends[x[2]] /\ "write" \in ends[x[3]]
             /\ Begin(t, kind, x[2], x[3], <<>>)
    /\ stamp' = (stamp + Len(call'[t].left)) % 3
    /\ UNCHANGED <<ring, ends, readq, writeq, pollq, outq, blocked, interrupt, wakes, content, signals, looking, pipeFault>>

\* The pipes a call looks at, and the peer ends it asks about.
Looks(t) ==
    LET c == call[t]
        dry == c.kind \in {"read", "tee"} /\ AvailableRead(ring[c.from]) = 0
        full == c.kind = "tee" /\ AvailableRead(ring[c.from]) > 0
                               /\ AvailableWrite(ring[c.to]) = 0 IN
    (IF dry \/ c.kind = "poll" THEN {<<c.from, "write">>} ELSE {})
    \cup (IF full \/ c.kind \in {"write", "trywrite", "pollout"} THEN {<<c.to, "read">>} ELSE {})

\* all_write_ends_closed / all_read_ends_closed: Weak::upgrade under the lock.
Upgrade(t) ==
    /\ Ready(t)
    /\ \E x \in Looks(t) :
        /\ looking[x[1]] = "nobody" /\ x[2] \in Alive(x[1])
        /\ looking' = [looking EXCEPT ![x[1]] = t]
    /\ UNCHANGED <<ring, ends, readq, writeq, pollq, outq, call, blocked, interrupt, wakes, content,
                   stamp, signals, pipeFault>>

\* The rest of the critical section: no other thread holds the lock, and this one
\* has upgraded the peer end if it is alive.  Dropping the upgraded reference runs
\* Pipe::drop, which takes the ring lock, when it has become the last one.
Locked(t) ==
    /\ \A p \in {call[t].from, call[t].to} \ {0} : looking[p] \in {t, "nobody"}
    /\ \A x \in Looks(t) : looking[x[1]] = t \/ x[2] \notin Alive(x[1])
    /\ looking' = [p \in PipeId |-> IF looking[p] = t THEN "nobody" ELSE looking[p]]
    /\ pipeFault' = \E x \in Looks(t) : looking[x[1]] = t /\ x[2] \notin Alive(x[1])

\* read_with_status_flags: one byte, or sleep, or end of file, or a signal.
Read(t) ==
    LET p == call[t].from  r == ring[p] IN
    /\ In(t, "read") /\ Locked(t)
    /\ \/ /\ AvailableRead(r) > 0
          /\ ring' = [ring EXCEPT ![p] = AdvanceHead(r, 1)]
          /\ content' = [content EXCEPT ![p] = Tail(@)]
          /\ WakeWriters(t, p)
          /\ Finish(t) /\ UNCHANGED <<readq, blocked>>
       \/ /\ AvailableRead(r) = 0 /\ ("write" \notin Alive(p) \/ interrupt[t])
          /\ Finish(t) /\ UNCHANGED <<ring, content, wakes, writeq, outq, readq, blocked>>
       \/ /\ AvailableRead(r) = 0 /\ "write" \in Alive(p) /\ ~interrupt[t]
          /\ readq' = [readq EXCEPT ![p] = Append(@, t)] /\ Sleep(t)
          /\ UNCHANGED <<ring, content, wakes, writeq, outq, call>>
    /\ UNCHANGED <<ends, pollq, interrupt, stamp, signals>>

\* write_with_status_flags: as much as fits, then sleep for the rest; with O_NONBLOCK
\* the call returns instead.
Write(t) ==
    LET p == call[t].to  r == ring[p]
        bytes == SubSeq(call[t].left, 1, Min({AvailableWrite(r), Len(call[t].left)})) IN
    /\ In(t, "write") \/ In(t, "trywrite")
    /\ Locked(t)
    /\ \/ /\ "read" \in Alive(p) /\ AvailableWrite(r) > 0
          /\ ring' = [ring EXCEPT ![p] = WriteFrom(r, bytes)]
          /\ content' = [content EXCEPT ![p] = @ \o bytes]
          /\ WakeReaders(t, p)
          /\ IF Len(bytes) = Len(call[t].left) THEN Finish(t)
             ELSE call' = [call EXCEPT ![t].left = SubSeq(@, Len(bytes) + 1, Len(@))]
          /\ UNCHANGED <<writeq, blocked>>
       \/ /\ \/ "read" \notin Alive(p)
             \/ AvailableWrite(r) = 0 /\ (interrupt[t] \/ call[t].kind = "trywrite")
          /\ Finish(t) /\ UNCHANGED <<ring, content, wakes, readq, pollq, writeq, blocked>>
       \/ /\ "read" \in Alive(p) /\ AvailableWrite(r) = 0 /\ ~interrupt[t]
          /\ call[t].kind = "write"
          /\ writeq' = [writeq EXCEPT ![p] = Append(@, t)] /\ Sleep(t)
          /\ UNCHANGED <<ring, content, wakes, readq, pollq, call>>
    /\ UNCHANGED <<ends, outq, interrupt, stamp, signals>>

\* splice_pipe_to_pipe never blocks.
Splice(t) ==
    LET p == call[t].from  q == call[t].to
        both == TransferTo(ring[p], ring[q], 2)
        moved == AvailableRead(ring[p]) - AvailableRead(both[1]) IN
    /\ In(t, "splice") /\ Locked(t)
    /\ ring' = [ring EXCEPT ![p] = both[1], ![q] = both[2]]
    /\ content' = [content EXCEPT ![p] = SubSeq(@, moved + 1, Len(@)),
                                  ![q] = @ \o SubSeq(content[p], 1, moved)]
    /\ IF moved = 0 THEN UNCHANGED <<wakes, readq, writeq, pollq, outq>>
       ELSE /\ wakes' = [wakes EXCEPT ![t] =
                             First(writeq[p]) \cup First(readq[q]) \cup outq[p] \cup pollq[q]]
            /\ outq' = [outq EXCEPT ![p] = {}]
            /\ writeq' = [writeq EXCEPT ![p] = Others(@)]
            /\ readq' = [readq EXCEPT ![q] = Others(@)]
            /\ pollq' = [pollq EXCEPT ![q] = {}]
    /\ Finish(t)
    /\ UNCHANGED <<ends, blocked, interrupt, stamp, signals>>

\* tee_pipe_to_pipe waits as a reader of the first, then as a writer of the second.
Tee(t) ==
    LET p == call[t].from  q == call[t].to
        out == DuplicateTo(ring[p], ring[q], ring[p].head,
                           Min({2, AvailableRead(ring[p]), AvailableWrite(ring[q])}))
        copied == AvailableRead(out) - AvailableRead(ring[q])
        dry == AvailableRead(ring[p]) = 0
        full == ~dry /\ AvailableWrite(ring[q]) = 0 IN
    /\ In(t, "tee") /\ Locked(t)
    /\ \/ /\ ~dry /\ ~full
          /\ ring' = [ring EXCEPT ![q] = out]
          /\ content' = [content EXCEPT ![q] = @ \o SubSeq(content[p], 1, copied)]
          /\ WakeReaders(t, q) /\ Finish(t) /\ UNCHANGED <<writeq, blocked>>
       \/ /\ \/ dry /\ ("write" \notin Alive(p) \/ interrupt[t])
             \/ full /\ ("read" \notin Alive(q) \/ interrupt[t])
          /\ Finish(t) /\ UNCHANGED <<ring, content, wakes, readq, pollq, writeq, blocked>>
       \/ /\ dry /\ "write" \in Alive(p) /\ ~interrupt[t]
          /\ readq' = [readq EXCEPT ![p] = Append(@, t)] /\ Sleep(t)
          /\ UNCHANGED <<ring, content, wakes, pollq, writeq, call>>
       \/ /\ full /\ "read" \in Alive(q) /\ ~interrupt[t]
          /\ writeq' = [writeq EXCEPT ![q] = Append(@, t)] /\ Sleep(t)
          /\ UNCHANGED <<ring, content, wakes, pollq, readq, call>>
    /\ UNCHANGED <<ends, outq, interrupt, stamp, signals>>

\* poll_with_wait registers before it looks; a caller that finds nothing sleeps.
Poll(t) ==
    LET p == call[t].from IN
    /\ In(t, "poll") /\ Locked(t)
    /\ pollq' = [pollq EXCEPT ![p] = @ \cup {t}]
    /\ IF AvailableRead(ring[p]) > 0 \/ "write" \notin Alive(p) \/ interrupt[t]
       THEN Finish(t) /\ UNCHANGED blocked
       ELSE Sleep(t) /\ UNCHANGED call
    /\ UNCHANGED <<ring, ends, readq, writeq, outq, interrupt, wakes, content, stamp, signals>>

PollOut(t) ==
    LET p == call[t].to IN
    /\ In(t, "pollout") /\ Locked(t)
    /\ outq' = [outq EXCEPT ![p] = @ \cup {t}]
    /\ IF AvailableWrite(ring[p]) >= PipeBuf \/ "read" \notin Alive(p) \/ interrupt[t]
       THEN Finish(t) /\ UNCHANGED blocked
       ELSE Sleep(t) /\ UNCHANGED call
    /\ UNCHANGED <<ring, ends, readq, writeq, pollq, interrupt, wakes, content, stamp, signals>>

\* F_SETPIPE_SZ.
Resize(t) ==
    /\ In(t, "none")
    /\ \E x \in WriterOf, n \in Capacities :
        /\ x[1] = t /\ "write" \in ends[x[2]] /\ looking[x[2]] = "nobody"
        /\ n >= AvailableRead(ring[x[2]]) /\ n # Cap(ring[x[2]])
        /\ ring' = [ring EXCEPT ![x[2]] = Resized(@, n)]
    /\ UNCHANGED <<ends, readq, writeq, pollq, outq, call, blocked, interrupt, wakes, content, stamp, signals, looking, pipeFault>>

Users(p, e) ==
    {t \in PThread : /\ call[t].kind # "drop"
                     /\ \/ e = "read" /\ call[t].from = p
                        \/ e = "write" /\ call[t].to = p}

\* The last file of an end is closed; a call in progress keeps the file.  Pipe::drop
\* follows if this was the last reference to the end, not one that a call upgraded.
\* Closing a FIFO only counts.
Close(t, p, e) ==
    /\ In(t, "none") /\ e \in ends[p] /\ Users(p, e) = {}
    /\ <<t, p>> \in (IF e = "read" THEN ReaderOf ELSE WriterOf)
    /\ ends' = [ends EXCEPT ![p] = @ \ {e}]
    /\ IF p \in Fifo \/ (looking[p] # "nobody" /\ <<p, e>> \in Looks(looking[p]))
       THEN UNCHANGED call
       ELSE Begin(t, "drop", IF e = "write" THEN p ELSE 0, IF e = "read" THEN p ELSE 0, <<>>)
    /\ UNCHANGED <<ring, readq, writeq, pollq, outq, blocked, interrupt, wakes, content, stamp,
                   signals, looking, pipeFault>>

\* open_named_fifo: the first open makes the pipe; it does not wait for a peer.  The
\* last close has removed the entry, and the bytes in it.
OpenFifo(t, p, e) ==
    /\ In(t, "none") /\ p \in Fifo /\ e \notin ends[p]
    /\ <<t, p>> \in (IF e = "read" THEN ReaderOf ELSE WriterOf)
    /\ ends' = [ends EXCEPT ![p] = @ \cup {e}]
    /\ IF ends[p] # {} THEN UNCHANGED <<ring, readq, writeq, pollq, outq, content>>
       ELSE /\ ring' = [ring EXCEPT ![p] = NewRing]
            /\ readq' = [readq EXCEPT ![p] = <<>>] /\ writeq' = [writeq EXCEPT ![p] = <<>>]
            /\ pollq' = [pollq EXCEPT ![p] = {}] /\ outq' = [outq EXCEPT ![p] = {}]
            /\ content' = [content EXCEPT ![p] = <<>>]
    /\ UNCHANGED <<call, blocked, interrupt, wakes, stamp, signals, looking, pipeFault>>

\* Pipe::drop: all the waiters of the other side are taken, then woken.
Drop(t) ==
    LET p == call[t].from  q == call[t].to IN
    /\ In(t, "drop") /\ Locked(t)
    /\ IF p # 0
       THEN /\ wakes' = [wakes EXCEPT ![t] = ToSet(readq[p]) \cup pollq[p]]
            /\ readq' = [readq EXCEPT ![p] = <<>>]
            /\ pollq' = [pollq EXCEPT ![p] = {}] /\ UNCHANGED <<writeq, outq>>
       ELSE /\ wakes' = [wakes EXCEPT ![t] = ToSet(writeq[q]) \cup outq[q]]
            /\ writeq' = [writeq EXCEPT ![q] = <<>>]
            /\ outq' = [outq EXCEPT ![q] = {}] /\ UNCHANGED <<readq, pollq>>
    /\ Finish(t)
    /\ UNCHANGED <<ring, ends, blocked, interrupt, content, stamp, signals>>

\* A signal wakes a task out of its wait; its entry stays in the queue.
PipeSignal(t) ==
    /\ t \in PipeSignalled /\ ~interrupt[t] /\ signals < MaxSignals
    /\ signals' = signals + 1
    /\ interrupt' = [interrupt EXCEPT ![t] = TRUE]
    /\ blocked' = [blocked EXCEPT ![t] = FALSE]
    /\ UNCHANGED <<ring, ends, readq, writeq, pollq, outq, call, wakes, content, stamp, looking, pipeFault>>

PipeHandleSignal(t) ==
    /\ In(t, "none") /\ interrupt[t]
    /\ interrupt' = [interrupt EXCEPT ![t] = FALSE]
    /\ UNCHANGED <<ring, ends, readq, writeq, pollq, outq, call, blocked, wakes, content, stamp, signals, looking, pipeFault>>

PipeNext ==
    ~pipeFault /\ \E t \in PThread :
        \/ Enter(t) \/ Upgrade(t) \/ Read(t) \/ Write(t) \/ Splice(t) \/ Tee(t) \/ Poll(t) \/ PollOut(t)
        \/ Resize(t) \/ Drop(t) \/ WakeOne(t) \/ PipeSignal(t) \/ PipeHandleSignal(t)
        \/ \E p \in PipeId, e \in {"read", "write"} : Close(t, p, e) \/ OpenFifo(t, p, e)

PipeSpec == PipeInit /\ [][PipeNext]_pipeVars

-----------------------------------------------------------------------------
\* The ring with its three-valued status holds exactly the bytes that were
\* written and not yet read, in order, through wraps, splices, tees and resizes.
RingIsFifo == \A p \in PipeId : Peek(ring[p], AvailableRead(ring[p])) = content[p]

\* A waker holds t, or drops the end t waits for: after its last file was closed, or
\* after its last reference, which it had upgraded, was left to it.
BeingWoken(t) ==
    \/ \E p \in PipeId :
        /\ looking[p] # "nobody" /\ p \in {call[t].from, call[t].to}
        /\ \E x \in Looks(looking[p]) : x[1] = p /\ x[2] \notin Alive(p)
    \/ \E u \in PThread :
        \/ t \in wakes[u]
        \/ call[u].kind = "drop" /\ call[t].from # 0 /\ call[u].from = call[t].from
        \/ call[u].kind = "drop" /\ call[t].to # 0 /\ call[u].to = call[t].to

\* A thread asleep for bytes of a pipe that has some, or whose writers are gone,
\* is about to be woken: with one reader to a pipe no wakeup is lost, to a
\* reader that a signal took out of an earlier wait included.  Not once a CPU has
\* stopped in a ring lock (NoSelfDeadlock).
ReaderServed ==
    \A p \in PipeId, t \in PThread :
        /\ ~pipeFault /\ blocked[t] /\ call[t].from = p
        /\ call[t].kind \in {"read", "poll"}
             \/ (call[t].kind = "tee" /\ Contains(readq[p], t) /\ ~Contains(writeq[call[t].to], t))
        /\ AvailableRead(ring[p]) > 0 \/ "write" \notin Alive(p)
        => BeingWoken(t)

\* A writer, or a poller for POLLOUT, does not sleep on a pipe that has been emptied or
\* has no reader, with the same exception.
WriterServed ==
    \A p \in PipeId, t \in PThread :
        /\ ~pipeFault /\ blocked[t] /\ call[t].kind \in {"write", "pollout"} /\ call[t].to = p
        /\ AvailableRead(ring[p]) = 0 \/ "read" \notin Alive(p)
        => BeingWoken(t)

\* "recursive spin-lock acquisition" (sync/spin.rs): no critical section of a pipe
\* takes the ring lock it holds.  Where the last file of the peer end is closed on
\* another CPU between the upgrade and the drop of all_write_ends_closed, Pipe::drop
\* runs inside the critical section and takes it.
NoSelfDeadlock == ~pipeFault

\* A FIFO's reader does not sleep after the last writer has closed it.
FifoEndOfFile ==
    \A p \in Fifo, t \in PThread :
        blocked[t] /\ call[t].kind = "read" /\ call[t].from = p => "write" \in ends[p]
=============================================================================
