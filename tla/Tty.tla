------------------------------- MODULE Tty -------------------------------
(***************************************************************************)
(* Terminals: the pseudo-terminal pairs and their table (fs/devfs.rs), the *)
(* session-to-terminal map and the owner fields of a terminal, and the     *)
(* line discipline of the console (fs/console_tty.rs), with the open and   *)
(* ioctl handlers that call them (syscall/fs/path.rs, syscall/fs/tty.rs)   *)
(* and the exit of a session leader (task/mod.rs).                         *)
(*                                                                         *)
(* A step is one critical section: PTY_TABLE, SESSION_TTYS (with the       *)
(* settings lock it nests), PTY_TTY_SETTINGS, the lock of a pair, and the  *)
(* state lock of the console.  A wake-up follows the unlock in a step of   *)
(* its own.  Signals sent to a process group, termios and window size are  *)
(* left out (JobControl models the group signals); ISIG and ICANON are on. *)
(* Terminal 0 is the console; terminal i is the pty of table slot i.       *)
(***************************************************************************)
EXTENDS Naturals, Sequences, FiniteSets, SequencesExt

CONSTANTS
    TtyProc,         \* processes, positive numbers; each is its own group
    SessionOf,       \* process -> session id, the number of its leader
    TtyOps,          \* process -> the calls it makes
    PTY_TABLE_SIZE, PTY_BUFFER_CAPACITY,
    TtyWrites,       \* the character sequences a write may carry
    TtyKeys,         \* the keys typed at the console
    MaxPairs, MaxTtyCalls, MaxTtySignals, MaxTyped

VARIABLES
    slots,           \* PtyTable.slots: slot -> pair, 0 when empty
    slotHint,        \* PtyTable.next_hint
    pairs,           \* the pairs ever allocated, in order
    settings,        \* terminal -> its control state; live: registered
    sessions,        \* SESSION_TTYS: session -> terminal, NoTty when absent
    held,            \* process -> its open pty files, <<pair, endpoint>>
    detached,        \* the processes with controlling_tty_detached
    con,             \* the console: uart, line_buf, read_buf, queues
    tcall,           \* process -> the call it is in
    tAsleep,         \* the processes blocked by a terminal
    tNotified,       \* pollers whose PollWaiter was notified
    tSignal,         \* processes with an interrupting signal pending
    tCalls, tSignals, typed   \* how many calls, signals and keys so far

ttyVars == <<slots, slotHint, pairs, settings, sessions, held, detached, con,
             tcall, tAsleep, tNotified, tSignal, tCalls, tSignals, typed>>

Slots == 1..PTY_TABLE_SIZE
Console == 0
NoTty == PTY_TABLE_SIZE + 1
Nobody == 0

Irq == 0    \* the UART interrupt handler, an actor like the processes
Actors == TtyProc \cup {Irq}

NoSettings == [live |-> FALSE, session |-> Nobody, fg |-> Nobody, hung |-> FALSE]
NewSettings == [NoSettings EXCEPT !.live = TRUE]

NewBuffer == [data |-> <<>>, readq |-> <<>>, writeq |-> <<>>,
              rpoll |-> {}, wpoll |-> {}]
NewPair(id) == [id |-> id, locked |-> TRUE, master |-> 1, slave |-> 0,
                m2s |-> NewBuffer, s2m |-> NewBuffer]

Idle == [at |-> "idle", pair |-> 0, end |-> "none", tty |-> NoTty,
         todo |-> <<>>, wake |-> {}, polls |-> {}, then |-> "idle",
         hangup |-> FALSE, remove |-> FALSE]

NewConsole == [uart |-> <<>>, line |-> <<>>, buf |-> <<>>, eof |-> FALSE,
               readq |-> <<>>, polls |-> {}, drainer |-> NoTty]

TtyInit ==
    /\ slots = [i \in Slots |-> 0] /\ slotHint = 1
    /\ pairs = <<>>
    /\ settings = [i \in Slots \cup {Console} |->
                      IF i = Console THEN NewSettings ELSE NoSettings]
    /\ sessions = [s \in TtyProc |-> NoTty]
    /\ held = [p \in TtyProc |-> {}]
    /\ detached = {}
    /\ con = NewConsole
    /\ tcall = [p \in Actors |-> Idle]
    /\ tAsleep = {} /\ tNotified = {} /\ tSignal = {}
    /\ tCalls = 0 /\ tSignals = 0 /\ typed = 0

---------------------------------------------------------------------------
(* Entering, leaving and waking.                                           *)

Sid(p) == SessionOf[p]
IsLeader(p) == Sid(p) = p

Enter(p, op) ==
    /\ tcall[p].at = "idle" /\ op \in TtyOps[p]
    /\ tCalls < MaxTtyCalls /\ tCalls' = tCalls + 1

Goto(p, call) == tcall' = [tcall EXCEPT ![p] = call]
Done(p) == Goto(p, Idle)

ptyUnchanged == UNCHANGED <<slots, slotHint, pairs, held>>
ownerUnchanged == UNCHANGED <<settings, sessions, detached>>
sleepUnchanged == UNCHANGED <<tAsleep, tNotified, tSignal, tSignals>>
inputUnchanged == UNCHANGED <<con, typed>>

(* wake_tasks and PollWaiter::wake_all, after the lock was dropped.        *)
Wake(p) ==
    LET c == tcall[p] IN
    /\ c.at = "wake"
    /\ tAsleep' = tAsleep \ (c.wake \cup c.polls)
    /\ tNotified' = tNotified \cup c.polls
    /\ Goto(p, IF c.then = "idle" THEN Idle
               ELSE [c EXCEPT !.at = c.then, !.wake = {}, !.polls = {}])
    /\ ptyUnchanged /\ ownerUnchanged /\ inputUnchanged
    /\ UNCHANGED <<tSignal, tSignals, tCalls>>

(* An interrupting signal: it ends a sleep, and a call that meets it       *)
(* before sleeping returns.                                                *)
Interrupt(p) ==
    /\ tSignals < MaxTtySignals /\ tSignals' = tSignals + 1
    /\ p \in tAsleep
    /\ tSignal' = tSignal \cup {p} /\ tAsleep' = tAsleep \ {p}
    /\ ptyUnchanged /\ ownerUnchanged /\ inputUnchanged
    /\ UNCHANGED <<tcall, tNotified, tCalls>>

---------------------------------------------------------------------------
(* The table and the two ends of a pty.                                    *)

(* PtyTable::allocate: the first empty slot from next_hint on.             *)
Cyclic(k) == ((slotHint - 1 + k) % PTY_TABLE_SIZE) + 1
Allocated == CHOOSE id \in Slots : \E k \in 0..(PTY_TABLE_SIZE - 1) :
    /\ id = Cyclic(k) /\ slots[id] = 0
    /\ \A j \in 0..(k - 1) : slots[Cyclic(j)] # 0

OpenPtmx(p) ==
    /\ Enter(p, "ptmx") /\ Len(pairs) < MaxPairs
    /\ \E i \in Slots : slots[i] = 0
    /\ pairs' = Append(pairs, NewPair(Allocated))
    /\ slots' = [slots EXCEPT ![Allocated] = Len(pairs) + 1]
    /\ slotHint' = (Allocated % PTY_TABLE_SIZE) + 1
    /\ Goto(p, [Idle EXCEPT !.at = "register", !.pair = Len(pairs) + 1,
                            !.tty = Allocated])
    /\ ownerUnchanged /\ sleepUnchanged /\ inputUnchanged /\ UNCHANGED held

(* register_pty_tty: an entry that is already there is kept.               *)
RegisterPty(p) ==
    LET c == tcall[p] IN
    /\ c.at = "register"
    /\ settings' = [settings EXCEPT ![c.tty] =
                       IF @.live THEN @ ELSE NewSettings]
    /\ held' = [held EXCEPT ![p] = @ \cup {<<c.pair, "master">>}]
    /\ Done(p)
    /\ sleepUnchanged /\ inputUnchanged
    /\ UNCHANGED <<slots, slotHint, pairs, sessions, detached, tCalls>>

(* TIOCSPTLCK.                                                             *)
SetLocked(p) ==
    \E f \in held[p], locked \in BOOLEAN :
       /\ Enter(p, "unlock") /\ f[2] = "master"
       /\ locked # pairs[f[1]].locked
       /\ pairs' = [pairs EXCEPT ![f[1]].locked = locked]
       /\ ownerUnchanged /\ sleepUnchanged /\ inputUnchanged
       /\ UNCHANGED <<slots, slotHint, held, tcall>>

(* An open of /dev/pts/i, or of /dev/tty when the session's terminal is a  *)
(* pty, looks the pair up in the table ...                                 *)
OpenSlave(p) ==
    /\ \/ Enter(p, "slave") /\ \E i \in Slots :
             Goto(p, [Idle EXCEPT !.at = "lookup", !.tty = i])
       \/ /\ Enter(p, "devtty") /\ p \notin detached
          /\ sessions[Sid(p)] \in Slots
          /\ Goto(p, [Idle EXCEPT !.at = "lookup", !.tty = sessions[Sid(p)]])
    /\ ptyUnchanged /\ ownerUnchanged /\ sleepUnchanged /\ inputUnchanged

LookupPair(p) ==
    LET c == tcall[p]
        n == slots[c.tty] IN
    /\ c.at = "lookup"
    /\ IF n = 0 \/ <<n, "slave">> \in held[p] THEN Done(p)
       ELSE Goto(p, [c EXCEPT !.at = "open", !.pair = n])
    /\ ptyUnchanged /\ ownerUnchanged /\ sleepUnchanged /\ inputUnchanged
    /\ UNCHANGED tCalls

(* ... and takes a reference under the lock of the pair, unless the slave  *)
(* is locked or no master is left.                                         *)
SlaveMayOpen(pair) == ~pair.locked /\ pair.master > 0

OpenPair(p) ==
    LET c == tcall[p] IN
    /\ c.at = "open"
    /\ IF SlaveMayOpen(pairs[c.pair])
       THEN /\ pairs' = [pairs EXCEPT ![c.pair].slave = @ + 1]
            /\ held' = [held EXCEPT ![p] = @ \cup {<<c.pair, "slave">>}]
            /\ Goto(p, [c EXCEPT !.at = "auto"])
       ELSE Done(p) /\ UNCHANGED <<pairs, held>>
    /\ ownerUnchanged /\ sleepUnchanged /\ inputUnchanged
    /\ UNCHANGED <<slots, slotHint, tCalls>>

(* install_opened_file: a session leader without a terminal tries to make  *)
(* the opened slave its controlling terminal, unless O_NOCTTY.             *)
AutoAttach(p) ==
    LET c == tcall[p] IN
    /\ c.at = "auto"
    /\ \/ Done(p)
       \/ IsLeader(p) /\ sessions[p] = NoTty
          /\ Goto(p, [c EXCEPT !.at = "attach"])
    /\ ptyUnchanged /\ ownerUnchanged /\ sleepUnchanged /\ inputUnchanged
    /\ UNCHANGED tCalls

---------------------------------------------------------------------------
(* Ownership: SESSION_TTYS and the control state of a terminal.            *)

MayAttach(t, s, force) ==
    /\ sessions[s] \in {t, NoTty}
    /\ settings[t].live
    /\ settings[t].session \in {Nobody, s} \/ force

(* The session that a forced tty_attach takes the terminal from loses its  *)
(* entry in the map.                                                       *)
MutEvicted(t, s) == sessions
Evicted(t, s) ==
    LET owner == settings[t].session IN
    IF owner \in {Nobody, s} THEN sessions
    ELSE [sessions EXCEPT ![owner] = NoTty]

Attached(p, t, force) ==
    IF MayAttach(t, Sid(p), force)
    THEN /\ settings' = [settings EXCEPT ![t] =
                [@ EXCEPT !.session = Sid(p), !.fg = p, !.hung = FALSE]]
         /\ sessions' = [Evicted(t, Sid(p)) EXCEPT ![Sid(p)] = t]
         /\ detached' = detached \ {p}
    ELSE ownerUnchanged

Attach(p) ==
    /\ tcall[p].at = "attach"
    /\ Attached(p, tcall[p].tty, FALSE)
    /\ Done(p)
    /\ ptyUnchanged /\ sleepUnchanged /\ inputUnchanged /\ UNCHANGED tCalls

(* The terminals p has a descriptor of: its pty files and the console.     *)
Terminals(p) == {Console} \cup {pairs[f[1]].id : f \in held[p]}

SetCtty(p) ==
    \E t \in Terminals(p), force \in BOOLEAN :
       /\ Enter(p, "sctty") /\ IsLeader(p)
       /\ Attached(p, t, force)
       /\ ptyUnchanged /\ sleepUnchanged /\ inputUnchanged /\ UNCHANGED tcall

(* TIOCNOTTY: a session leader gives the terminal up for its session,      *)
(* another process only for itself.                                        *)
NoCtty(p) ==
    \E t \in Terminals(p) :
       /\ Enter(p, "notty")
       /\ p \notin detached /\ settings[t].session = Sid(p)
       /\ IF IsLeader(p)
          THEN Goto(p, [Idle EXCEPT !.at = "release", !.tty = t])
               /\ UNCHANGED detached
          ELSE detached' = detached \cup {p} /\ UNCHANGED tcall
       /\ ptyUnchanged /\ sleepUnchanged /\ inputUnchanged
       /\ UNCHANGED <<settings, sessions>>

Released(control) == [control EXCEPT !.session = Nobody, !.fg = Nobody]

Release(p) ==
    LET t == tcall[p].tty IN
    /\ tcall[p].at = "release"
    /\ IF settings[t].live /\ settings[t].session = Sid(p) /\ sessions[Sid(p)] = t
       THEN /\ settings' = [settings EXCEPT ![t] = Released(@)]
            /\ sessions' = [sessions EXCEPT ![Sid(p)] = NoTty]
       ELSE UNCHANGED <<settings, sessions>>
    /\ Done(p)
    /\ ptyUnchanged /\ sleepUnchanged /\ inputUnchanged
    /\ UNCHANGED <<detached, tCalls>>

HungUp(t) ==
    IF ~settings[t].live THEN UNCHANGED <<settings, sessions>>
    ELSE /\ sessions' = [s \in TtyProc |->
                IF s = settings[t].session /\ sessions[s] = t THEN NoTty
                ELSE sessions[s]]
         /\ settings' = [settings EXCEPT ![t] = [Released(@) EXCEPT !.hung = TRUE]]

VHangup(p) ==
    \E t \in Terminals(p) :
       /\ Enter(p, "vhangup")
       /\ HungUp(t)
       /\ ptyUnchanged /\ sleepUnchanged /\ inputUnchanged
       /\ UNCHANGED <<detached, tcall>>

(* TIOCSPGRP checks the owner in one section of the settings lock and      *)
(* stores the group in another.                                            *)
SetPgrp(p) ==
    \E t \in Terminals(p) :
       /\ Enter(p, "spgrp") /\ p \notin detached
       /\ settings[t].session = Sid(p) /\ ~settings[t].hung
       /\ Goto(p, [Idle EXCEPT !.at = "foreground", !.tty = t])
       /\ ptyUnchanged /\ ownerUnchanged /\ sleepUnchanged /\ inputUnchanged

SetForeground(p) ==
    LET t == tcall[p].tty IN
    /\ tcall[p].at = "foreground"
    /\ settings' = [settings EXCEPT ![t].fg = IF settings[t].live THEN p ELSE @]
    /\ Done(p)
    /\ ptyUnchanged /\ sleepUnchanged /\ inputUnchanged
    /\ UNCHANGED <<sessions, detached, tCalls>>

---------------------------------------------------------------------------
(* Closing: Drop of a PtyFile, and the exit of a process.                  *)

IsClosed(pair) == pair.master = 0 /\ pair.slave = 0

(* The last descriptor of one end goes: those who wait for that end at the *)
(* other one are woken.  A master wakes the readers of its output and the  *)
(* writers of its input.                                                   *)
DropWakes(b) == ToSet(b.readq) \cup ToSet(b.writeq)

Dropped(pair, end) ==
    LET readers == IF end = "master" THEN "m2s" ELSE "s2m"
        writers == IF end = "master" THEN "s2m" ELSE "m2s"
        wake == [NewBuffer EXCEPT !.readq = pair[readers].readq,
                                  !.writeq = pair[writers].writeq] IN
    [pair |-> [pair EXCEPT ![end] = @ - 1,
                           ![readers].readq = <<>>, ![readers].rpoll = {},
                           ![writers].writeq = <<>>, ![writers].wpoll = {}],
     wake |-> DropWakes(wake),
     polls |-> pair[readers].rpoll \cup pair[writers].wpoll]

CloseFile(p, f, then) ==
    LET d == Dropped(pairs[f[1]], f[2]) IN
    /\ held' = [held EXCEPT ![p] = @ \ {f}]
    /\ pairs' = [pairs EXCEPT ![f[1]] = d.pair]
    /\ Goto(p, [Idle EXCEPT !.at = "wake", !.then = "dropped", !.todo = then,
                            !.pair = f[1], !.tty = d.pair.id,
                            !.wake = d.wake, !.polls = d.polls,
                            !.hangup = f[2] = "master" /\ d.pair.master = 0,
                            !.remove = IsClosed(d.pair)])
    /\ ownerUnchanged /\ sleepUnchanged /\ inputUnchanged
    /\ UNCHANGED <<slots, slotHint>>

Close(p) == \E f \in held[p] : Enter(p, "close") /\ CloseFile(p, f, <<>>)

(* After the wake-ups: hang up when the last master went, take the pair    *)
(* out of the table and drop its settings when both ends are closed.       *)
AfterDrop(p) ==
    LET c == tcall[p] IN
    /\ c.at = "dropped"
    /\ IF c.hangup
       THEN HungUp(c.tty) /\ Goto(p, [c EXCEPT !.hangup = FALSE]) /\ UNCHANGED slots
       ELSE /\ UNCHANGED <<settings, sessions>>
            /\ IF c.remove
               THEN /\ slots' = [slots EXCEPT ![c.tty] = IF @ = c.pair THEN 0 ELSE @]
                    /\ Goto(p, [c EXCEPT !.at = "unregister"])
               ELSE /\ UNCHANGED slots
                    /\ Goto(p, IF c.todo = <<>> THEN Idle
                               ELSE [Idle EXCEPT !.at = "exiting"])
    /\ sleepUnchanged /\ inputUnchanged
    /\ UNCHANGED <<slotHint, pairs, held, detached, tCalls>>

(* unregister_pty_tty: hang up, then remove the settings.                  *)
Unregister(p) ==
    LET c == tcall[p] IN
    /\ \/ c.at = "unregister" /\ HungUp(c.tty) /\ Goto(p, [c EXCEPT !.at = "forget"])
       \/ /\ c.at = "forget"
          /\ settings' = [settings EXCEPT ![c.tty] = NoSettings]
          /\ UNCHANGED sessions
          /\ Goto(p, IF c.todo = <<>> THEN Idle ELSE [Idle EXCEPT !.at = "exiting"])
    /\ ptyUnchanged /\ sleepUnchanged /\ inputUnchanged
    /\ UNCHANGED <<detached, tCalls>>

(* exit_current: a session leader looks its terminal up and hangs it up;   *)
(* then its descriptors are closed.                                        *)
Exit(p) ==
    /\ Enter(p, "exit")
    /\ Goto(p, IF IsLeader(p) /\ sessions[p] # NoTty
               THEN [Idle EXCEPT !.at = "leave", !.tty = sessions[p]]
               ELSE [Idle EXCEPT !.at = "exiting"])
    /\ ptyUnchanged /\ ownerUnchanged /\ sleepUnchanged /\ inputUnchanged

Leave(p) ==
    /\ tcall[p].at = "leave"
    /\ HungUp(tcall[p].tty)
    /\ Goto(p, [Idle EXCEPT !.at = "exiting"])
    /\ ptyUnchanged /\ sleepUnchanged /\ inputUnchanged
    /\ UNCHANGED <<detached, tCalls>>

ExitClose(p) ==
    /\ tcall[p].at = "exiting"
    /\ \E f \in held[p] : CloseFile(p, f, <<"exit">>)
    /\ UNCHANGED tCalls

---------------------------------------------------------------------------
(* Reading, writing and polling a pty.                                     *)

In(end) == IF end = "master" THEN "s2m" ELSE "m2s"
Out(end) == IF end = "master" THEN "m2s" ELSE "s2m"
PeerOpen(pair, end) == IF end = "master" THEN pair.slave > 0 ELSE pair.master > 0

(* check_read and check_write: a slave whose terminal is hung up or gone   *)
(* refuses (the SIGTTIN and SIGTTOU cases also return without effect).     *)
Admitted(f) ==
    LET s == settings[pairs[f[1]].id] IN f[2] = "slave" => s.live /\ ~s.hung

Use(p) ==
    /\ \E f \in held[p] :
          \/ /\ Enter(p, "read") /\ Admitted(f)
             /\ Goto(p, [Idle EXCEPT !.at = "read", !.pair = f[1], !.end = f[2]])
          \/ /\ Enter(p, "write") /\ Admitted(f)
             /\ \E w \in TtyWrites :
                   Goto(p, [Idle EXCEPT !.at = "write", !.pair = f[1],
                                        !.end = f[2], !.todo = w])
          \/ \E want \in {"in", "out"} :
                /\ Enter(p, "poll")
                /\ Goto(p, [Idle EXCEPT !.at = "poll", !.pair = f[1],
                                        !.end = f[2], !.then = want])
    /\ ptyUnchanged /\ ownerUnchanged /\ sleepUnchanged /\ inputUnchanged

(* sleep_reader and sleep_writer: a pending signal ends the call instead.  *)
Doze(p, queue) ==
    IF p \in tSignal
    THEN Done(p) /\ tSignal' = tSignal \ {p} /\ UNCHANGED <<pairs, tAsleep>>
    ELSE /\ pairs' = queue /\ tAsleep' = tAsleep \cup {p}
         /\ UNCHANGED <<tcall, tSignal>>

(* read_pty takes what there is, one cell up to all of it, and wakes one   *)
(* writer and the pollers for room.                                        *)
ReadWakes(b) == IF b.writeq = <<>> THEN {} ELSE {Head(b.writeq)}

PtyRead(p) ==
    LET c == tcall[p]
        b == pairs[c.pair][In(c.end)] IN
    /\ c.at = "read" /\ p \notin tAsleep
    /\ IF b.data # <<>>
       THEN /\ \E n \in {1, Len(b.data)} :
                  pairs' = [pairs EXCEPT ![c.pair][In(c.end)] =
                     [b EXCEPT !.data = SubSeq(@, n + 1, Len(@)),
                               !.writeq = IF @ = <<>> THEN @ ELSE Tail(@),
                               !.wpoll = {}]]
            /\ Goto(p, [Idle EXCEPT !.at = "wake", !.wake = ReadWakes(b),
                                    !.polls = b.wpoll])
            /\ UNCHANGED <<tAsleep, tSignal>>
       ELSE IF ~PeerOpen(pairs[c.pair], c.end)
       THEN Done(p) /\ UNCHANGED <<pairs, tAsleep, tSignal>>
       ELSE Doze(p, [pairs EXCEPT ![c.pair][In(c.end)].readq = Append(@, p)])
    /\ ownerUnchanged /\ inputUnchanged
    /\ UNCHANGED <<slots, slotHint, held, tNotified, tSignals, tCalls>>

(* write_pty: a master writes one character at a time; the interrupt       *)
(* character ("c") empties both buffers and wakes every writer; otherwise  *)
(* what fits is stored and one reader and the read pollers are woken.      *)
Flushed(pair) ==
    [pair EXCEPT !.m2s = [@ EXCEPT !.data = <<>>, !.writeq = <<>>, !.wpoll = {}],
                 !.s2m = [@ EXCEPT !.data = <<>>, !.writeq = <<>>, !.wpoll = {}]]

After(n, todo) == IF n = Len(todo) THEN "idle" ELSE "write"

PtyWrite(p) ==
    LET c == tcall[p]
        pair == pairs[c.pair]
        b == pair[Out(c.end)]
        room == PTY_BUFFER_CAPACITY - Len(b.data)
        n == IF c.end = "master" \/ room < Len(c.todo)
             THEN IF c.end = "master" THEN 1 ELSE room
             ELSE Len(c.todo)
        on(k, wake, polls) ==
            [c EXCEPT !.at = "wake", !.then = After(k, c.todo),
                      !.todo = SubSeq(@, k + 1, Len(@)),
                      !.wake = wake, !.polls = polls] IN
    /\ c.at = "write" /\ p \notin tAsleep
    /\ IF ~PeerOpen(pair, c.end)
       THEN Done(p) /\ UNCHANGED <<pairs, tAsleep, tSignal>>
       ELSE IF c.end = "master" /\ settings[pair.id].live /\ Head(c.todo) = "c"
       THEN /\ pairs' = [pairs EXCEPT ![c.pair] = Flushed(pair)]
            /\ Goto(p, on(1, ToSet(pair.m2s.writeq) \cup ToSet(pair.s2m.writeq),
                          pair.m2s.wpoll \cup pair.s2m.wpoll))
            /\ UNCHANGED <<tAsleep, tSignal>>
       ELSE IF room = 0
       THEN Doze(p, [pairs EXCEPT ![c.pair][Out(c.end)].writeq = Append(@, p)])
       ELSE /\ pairs' = [pairs EXCEPT ![c.pair][Out(c.end)] =
                  [b EXCEPT !.data = @ \o SubSeq(c.todo, 1, n),
                            !.readq = IF @ = <<>> THEN @ ELSE Tail(@),
                            !.rpoll = {}]]
            /\ Goto(p, on(n, IF b.readq = <<>> THEN {} ELSE {Head(b.readq)}, b.rpoll))
            /\ UNCHANGED <<tAsleep, tSignal>>
    /\ ownerUnchanged /\ inputUnchanged
    /\ UNCHANGED <<slots, slotHint, held, tNotified, tSignals, tCalls>>

(* poll_with_wait registers the waiter and looks in one section; a waiter  *)
(* that was notified before it sleeps looks again.                         *)
Ready(pair, end, want) ==
    \/ ~PeerOpen(pair, end)
    \/ want = "in" /\ pair[In(end)].data # <<>>
    \/ want = "out" /\ Len(pair[Out(end)].data) < PTY_BUFFER_CAPACITY

PollBuffer(c) == IF c.then = "in" THEN In(c.end) ELSE Out(c.end)
PollQueue(c) == IF c.then = "in" THEN "rpoll" ELSE "wpoll"

(* The waiter dies with the call, and its registrations with it.           *)
Unregistered(p) ==
    LET c == tcall[p] IN
    [pairs EXCEPT ![c.pair][PollBuffer(c)][PollQueue(c)] = @ \ {p}]

PtyPoll(p) ==
    LET c == tcall[p] IN
    /\ c.at = "poll" /\ p \notin tAsleep
    /\ IF Ready(pairs[c.pair], c.end, c.then)
       THEN Done(p) /\ pairs' = Unregistered(p)
       ELSE /\ pairs' = [pairs EXCEPT ![c.pair][PollBuffer(c)][PollQueue(c)] = @ \cup {p}]
            /\ Goto(p, [c EXCEPT !.at = "pollsleep"])
    /\ tNotified' = tNotified \ {p}
    /\ ownerUnchanged /\ inputUnchanged
    /\ UNCHANGED <<slots, slotHint, held, tAsleep, tSignal, tSignals, tCalls>>

PollSleep(p) ==
    LET c == tcall[p] IN
    /\ c.at \in {"pollsleep", "conpollsleep"} /\ p \notin tAsleep
    /\ IF p \in tSignal
       THEN /\ Done(p) /\ tSignal' = tSignal \ {p} /\ UNCHANGED tAsleep
            /\ pairs' = IF c.at = "pollsleep" THEN Unregistered(p) ELSE pairs
            /\ con' = [con EXCEPT !.polls = @ \ {p}]
       ELSE IF p \in tNotified
       THEN /\ Goto(p, [c EXCEPT !.at = IF @ = "pollsleep" THEN "poll" ELSE "conpoll"])
            /\ UNCHANGED <<tAsleep, tSignal, pairs, con>>
       ELSE tAsleep' = tAsleep \cup {p} /\ UNCHANGED <<tcall, tSignal, pairs, con>>
    /\ ownerUnchanged
    /\ UNCHANGED <<slots, slotHint, held, typed, tNotified, tSignals, tCalls>>

---------------------------------------------------------------------------
(* The console: typed bytes reach the UART, and whoever drains it runs     *)
(* them through the line discipline under input_drain_lock.                *)

(* ensure_foreground_pgid for the process that runs on this CPU.           *)
Foreground(p) ==
    settings' = [settings EXCEPT ![Console].fg = IF @ = Nobody THEN p ELSE @]

Type ==
    \E ch \in TtyKeys :
       /\ typed < MaxTyped /\ typed' = typed + 1
       /\ con' = [con EXCEPT !.uart = Append(@, ch)]
       /\ IF tcall[Irq].at = "idle"
          THEN Goto(Irq, [Idle EXCEPT !.at = "drain"]) ELSE UNCHANGED tcall
       /\ ptyUnchanged /\ ownerUnchanged /\ sleepUnchanged /\ UNCHANGED tCalls

EnterConsole(p) ==
    /\ \/ Enter(p, "conread") /\ Goto(p, [Idle EXCEPT !.at = "drain", !.then = "conread"])
       \/ Enter(p, "conpoll") /\ Goto(p, [Idle EXCEPT !.at = "conpoll"])
    /\ Foreground(p)
    /\ ptyUnchanged /\ sleepUnchanged /\ inputUnchanged
    /\ UNCHANGED <<sessions, detached>>

(* process_input.  A line becomes readable when it is complete; the end of *)
(* file character makes an incomplete line readable, or marks end of file. *)
Completes(ch) == ch \in {"nl", "eof", "intr"}

Input(c, ch) ==
    CASE ch = "intr" -> [c EXCEPT !.line = <<>>, !.buf = <<>>, !.eof = FALSE]
      [] ch = "eof" /\ c.line = <<>> -> [c EXCEPT !.eof = TRUE]
      [] ch = "eof" -> [c EXCEPT !.buf = @ \o c.line, !.line = <<>>]
      [] ch = "erase" /\ c.line # <<>> -> [c EXCEPT !.line = Front(@)]
      [] ch = "kill" -> [c EXCEPT !.line = <<>>]
      [] ch = "nl" -> [c EXCEPT !.buf = @ \o c.line \o <<ch>>, !.line = <<>>]
      [] ch = "x" -> [c EXCEPT !.line = Append(@, ch)]
      [] OTHER -> c

(* console_tty_drain_uart: take the drain lock, consume the UART a byte at *)
(* a time, then wake one reader and every poller if a byte asked for it.   *)
DrainLock(p) ==
    /\ tcall[p].at = "drain" /\ con.drainer = NoTty
    /\ con' = [con EXCEPT !.drainer = p]
    /\ Goto(p, [tcall[p] EXCEPT !.at = "draining", !.hangup = FALSE])
    /\ ptyUnchanged /\ ownerUnchanged /\ sleepUnchanged /\ UNCHANGED <<typed, tCalls>>

AsksWake(ch) == Completes(ch)

DrainByte(p) ==
    LET c == tcall[p] IN
    /\ c.at = "draining" /\ con.uart # <<>>
    /\ con' = [Input(con, Head(con.uart)) EXCEPT !.uart = Tail(@)]
    /\ Goto(p, [c EXCEPT !.hangup = @ \/ AsksWake(Head(con.uart))])
    /\ Foreground(p)
    /\ ptyUnchanged /\ sleepUnchanged
    /\ UNCHANGED <<sessions, detached, typed, tCalls>>

(* The pop of a reader and the drain of the pollers are two sections of    *)
(* two locks; no step of another process between them sees a difference.   *)
DrainEnd(p) ==
    LET c == tcall[p] IN
    /\ c.at = "draining" /\ con.uart = <<>>
    /\ IF c.hangup
       THEN /\ con' = [con EXCEPT !.readq = IF @ = <<>> THEN @ ELSE Tail(@),
                                  !.polls = {}]
            /\ Goto(p, [c EXCEPT !.at = "drainwake", !.hangup = FALSE,
                                 !.wake = IF con.readq = <<>> THEN {}
                                          ELSE {Head(con.readq)},
                                 !.polls = con.polls])
       ELSE con' = con /\ Goto(p, [c EXCEPT !.at = "drainwake"])
    /\ ptyUnchanged /\ ownerUnchanged /\ sleepUnchanged /\ UNCHANGED <<typed, tCalls>>

DrainWake(p) ==
    LET c == tcall[p] IN
    /\ c.at = "drainwake"
    /\ tAsleep' = tAsleep \ (c.wake \cup c.polls)
    /\ tNotified' = tNotified \cup c.polls
    /\ con' = [con EXCEPT !.drainer = NoTty]
    /\ Goto(p, IF p = Irq
               THEN IF con.uart = <<>> THEN Idle ELSE [Idle EXCEPT !.at = "drain"]
               ELSE [Idle EXCEPT !.at = c.then])
    /\ ptyUnchanged /\ ownerUnchanged
    /\ UNCHANGED <<typed, tSignal, tSignals, tCalls>>

(* console_tty_read: data, then a pending end of file, else sleep; every   *)
(* attempt drains the UART first.                                          *)
ConRead(p) ==
    LET c == tcall[p] IN
    /\ c.at = "conread"
    /\ IF con.buf # <<>>
       THEN /\ \E n \in {1, Len(con.buf)} :
                  con' = [con EXCEPT !.buf = SubSeq(@, n + 1, Len(@))]
            /\ Done(p) /\ UNCHANGED <<tAsleep, tSignal>>
       ELSE IF con.eof
       THEN con' = [con EXCEPT !.eof = FALSE] /\ Done(p) /\ UNCHANGED <<tAsleep, tSignal>>
       ELSE IF p \in tSignal
       THEN /\ con' = [con EXCEPT !.readq = SelectSeq(@, LAMBDA q : q # p)]
            /\ Done(p) /\ tSignal' = tSignal \ {p} /\ UNCHANGED tAsleep
       ELSE /\ con' = [con EXCEPT !.readq = Append(SelectSeq(@, LAMBDA q : q # p), p)]
            /\ tAsleep' = tAsleep \cup {p}
            /\ Goto(p, [Idle EXCEPT !.at = "conslept"])
            /\ UNCHANGED tSignal
    /\ ptyUnchanged /\ ownerUnchanged
    /\ UNCHANGED <<typed, tNotified, tSignals, tCalls>>

ConAgain(p) ==
    /\ tcall[p].at = "conslept" /\ p \notin tAsleep
    /\ Goto(p, [Idle EXCEPT !.at = "drain", !.then = "conread"])
    /\ ptyUnchanged /\ ownerUnchanged /\ sleepUnchanged /\ inputUnchanged
    /\ UNCHANGED tCalls

(* console_tty_poll_with_wait registers first, then drains and looks.      *)
ConPoll(p) ==
    LET c == tcall[p] IN
    /\ \/ /\ c.at = "conpoll"
          /\ con' = [con EXCEPT !.polls = @ \cup {p}]
          /\ tNotified' = tNotified \ {p}
          /\ Goto(p, [Idle EXCEPT !.at = "drain", !.then = "conlook"])
       \/ /\ c.at = "conlook" /\ UNCHANGED tNotified
          /\ IF con.buf # <<>> \/ con.eof
             THEN Done(p) /\ con' = [con EXCEPT !.polls = @ \ {p}]
             ELSE Goto(p, [Idle EXCEPT !.at = "conpollsleep"]) /\ con' = con
    /\ ptyUnchanged /\ ownerUnchanged
    /\ UNCHANGED <<typed, tAsleep, tSignal, tSignals, tCalls>>

---------------------------------------------------------------------------
TtyNext ==
    \/ \E p \in TtyProc :
          \/ OpenPtmx(p) \/ RegisterPty(p) \/ SetLocked(p)
          \/ OpenSlave(p) \/ LookupPair(p) \/ OpenPair(p) \/ AutoAttach(p)
          \/ Attach(p) \/ SetCtty(p) \/ NoCtty(p) \/ Release(p) \/ VHangup(p)
          \/ SetPgrp(p) \/ SetForeground(p)
          \/ Close(p) \/ AfterDrop(p) \/ Unregister(p)
          \/ Exit(p) \/ Leave(p) \/ ExitClose(p)
          \/ Use(p) \/ PtyRead(p) \/ PtyWrite(p) \/ PtyPoll(p) \/ PollSleep(p)
          \/ EnterConsole(p) \/ ConRead(p) \/ ConAgain(p) \/ ConPoll(p)
          \/ Interrupt(p) \/ Wake(p)
    \/ \E p \in Actors : DrainLock(p) \/ DrainByte(p) \/ DrainEnd(p) \/ DrainWake(p)
    \/ Type

TtySpec == TtyInit /\ [][TtyNext]_ttyVars

---------------------------------------------------------------------------
(* Properties                                                              *)

(* The session map and the owner fields of the terminals are two halves of *)
(* one relation: a session's entry names a registered terminal owned by    *)
(* it, an owned terminal is its owner's entry, and a pty has a foreground  *)
(* group exactly while it has an owner.  tty_attach, tty_release,          *)
(* tty_hangup, unregister_pty_tty and set_tty_foreground_pgid each touch   *)
(* only some of these fields (console_tty.rs, "Keep the session-to-TTY map *)
(* and the TTY owner fields under one serialization boundary").            *)
OwnersAgree ==
    /\ \A s \in TtyProc : sessions[s] # NoTty =>
          settings[sessions[s]].live /\ settings[sessions[s]].session = s
    /\ \A t \in Slots \cup {Console} :
          /\ settings[t].session # Nobody => sessions[settings[t].session] = t
          /\ t # Console => (settings[t].fg = Nobody <=> settings[t].session = Nobody)

(* A pty stays reachable and configured as long as a descriptor of either  *)
(* end is open: its slot in PTY_TABLE leads to its pair and its settings   *)
(* are registered, however the opens and the Drops of both ends interleave *)
(* (open_ptmx, open_pty_slave, Drop for PtyFile, unregister_pty_tty).      *)
OpenPtyIsRegistered ==
    \A p \in TtyProc : \A f \in held[p] :
        slots[pairs[f[1]].id] = f[1] /\ settings[pairs[f[1]].id].live

(* Wakes that were taken off a queue and are on their way.                 *)
Coming == UNION {tcall[p].wake \cup tcall[p].polls : p \in Actors}

(* A process sleeps in a pty read, write or poll only while it has to: the *)
(* buffer is still empty (full) and the other end still open, unless its   *)
(* wake-up is on the way.  read_pty, write_pty, the flush of an interrupt  *)
(* character and Drop each decide on their own whom they wake.             *)
PtySleepersMustWait ==
    \A p \in tAsleep \ Coming :
        LET c == tcall[p] IN
        /\ c.at = "read" =>
              pairs[c.pair][In(c.end)].data = <<>> /\ PeerOpen(pairs[c.pair], c.end)
        /\ c.at = "write" =>
              /\ Len(pairs[c.pair][Out(c.end)].data) = PTY_BUFFER_CAPACITY
              /\ PeerOpen(pairs[c.pair], c.end)
        /\ c.at = "pollsleep" => ~Ready(pairs[c.pair], c.end, c.then)

(* A process sleeps in a console read or poll only while there is nothing  *)
(* to read, unless whoever holds the drain lock has still to wake it; and  *)
(* typed bytes never stay in the UART with nobody to drain them            *)
(* (console_tty_read and console_tty_drain_uart take the state lock in     *)
(* several sections, and the handler competes with readers and pollers).   *)
ConsoleSleepersMustWait ==
    \A p \in tAsleep \ Coming :
        tcall[p].at \in {"conslept", "conpollsleep"} =>
            /\ con.buf # <<>> \/ con.eof =>
                  \E q \in Actors : tcall[q].at = "draining" /\ tcall[q].hangup
            /\ con.uart # <<>> =>
                  tcall[Irq].at # "idle" \/ \E q \in TtyProc : tcall[q].at = "draining"

==========================================================================
