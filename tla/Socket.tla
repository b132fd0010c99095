------------------------------- MODULE Socket -------------------------------
(***************************************************************************)
(* Local sockets: net/socket.rs, the poll side of net/file.rs and the      *)
(* calls of syscall/net.rs.  Stream and datagram sockets of the Unix and   *)
(* Internet domains are both queues of the kernel's loopback; a Unix name  *)
(* is an alias of a loopback port.                                         *)
(*                                                                         *)
(* A step is one critical section: of the LOOPBACK table or of the inner   *)
(* lock of one socket.  The tasks a section takes off a wait queue are     *)
(* woken by the next step of the same thread, after the lock is released.  *)
(* Bytes carry no values; a datagram is its length.  An inner is freed     *)
(* when no LocalSocket, no accept queue of a live listener and no running  *)
(* call holds it; the tables and peers hold weak references.               *)
(***************************************************************************)
EXTENDS Naturals, Sequences, FiniteSets, SequencesExt

CONSTANTS
    SockThread, SockOps, UseOf, \* what each thread calls, and on which sockets
    Sock,                       \* 1..n, in order of creation
    Port, Ephemeral,            \* Ephemeral: the ports alloc_port goes round
    SockName,                   \* Unix addresses
    RcvBuf, MaxSend, Backlog,
    SockCpus,                   \* with 1 a call runs until it blocks or returns
    SockSignalled, MaxSockSignals

VARIABLES
    sock,        \* LocalSocketInner of each socket
    tcpListeners, connectWaiters, udpBound, unixBound, nextEphemeral, \* LOOPBACK
    scall,       \* the call each thread is in
    sAsleep,     \* blocked threads
    notified,    \* pollers whose PollWaiter was woken since its last scan
    sSignal, sSignals,
    sTimers,     \* <<thread, "new">>: the timer of its connect; "old": of an earlier one
    overdue,     \* connecting threads whose deadline has passed
    earlyEof     \* a receive returned 0 with bytes queued or the peer writing

sockVars == <<sock, tcpListeners, connectWaiters, udpBound, unixBound,
              nextEphemeral, scall, sAsleep, notified, sSignal, sSignals,
              sTimers, overdue, earlyEof>>

None == 0
Polls == {"pollin", "pollout"}
NoName == "unnamed"

New(domain, kind) ==
    [made |-> TRUE, fd |-> TRUE, domain |-> domain, kind |-> kind,
     bound |-> FALSE, local |-> None, peer |-> FALSE, peerPort |-> None, uname |-> NoName, peerSocket |-> None,
     acceptQueue |-> <<>>, bytes |-> 0, datagrams |-> <<>>, readq |-> <<>>,
     writeq |-> <<>>, rpoll |-> {}, wpoll |-> {}, listening |-> FALSE,
     readShutdown |-> FALSE, writeShutdown |-> FALSE,
     peerWriteShutdown |-> FALSE]

Connected(domain, kind, local, peerSocket, uname) ==
    [New(domain, kind) EXCEPT !.bound = TRUE, !.local = local, !.peer = TRUE,
        !.peerSocket = peerSocket, !.uname = uname]

Idle == [op |-> "none", s |-> None, at |-> "idle", then |-> "idle",
         other |-> None, port |-> None, left |-> 0, nonblock |-> FALSE,
         name |-> NoName, wake |-> {}]

SockInit ==
    /\ sock = [s \in Sock |-> [New("inet", "stream") EXCEPT !.made = FALSE, !.fd = FALSE]]
    /\ tcpListeners = [p \in Port |-> None]
    /\ connectWaiters = [p \in Port |-> <<>>]
    /\ udpBound = [p \in Port |-> <<>>]
    /\ unixBound = [n \in SockName |-> None]
    /\ nextEphemeral = Ephemeral[1]
    /\ scall = [t \in SockThread |-> Idle]
    /\ sAsleep = {} /\ notified = {} /\ sSignal = {} /\ sSignals = 0
    /\ sTimers = {} /\ overdue = {} /\ earlyEof = FALSE

-----------------------------------------------------------------------------
(* Reference counts.                                                       *)

\* A call keeps the LocalSocket it was given (with_socket).
InUse(s) == \E t \in SockThread : scall[t].s = s
File(s) == sock[s].made /\ (sock[s].fd \/ InUse(s))
Pinned(s) == File(s) \/ \E t \in SockThread : scall[t].other = s
\* Weak::upgrade succeeds.
Alive(s) ==
    /\ s # None
    /\ \/ Pinned(s)
       \/ \E l \in Sock : Pinned(l) /\ s \in Range(sock[l].acceptQueue)

Upgrade(s) == IF Alive(s) THEN s ELSE None

\* The tables after prune(): without their dead entries.
Listeners == [p \in Port |-> Upgrade(tcpListeners[p])]
UdpBound == [p \in Port |-> SelectSeq(udpBound[p], Alive)]
UnixBound == [n \in SockName |-> Upgrade(unixBound[n])]
Prune == tcpListeners' = Listeners /\ udpBound' = UdpBound /\ unixBound' = UnixBound

Fresh == CHOOSE s \in Sock : ~sock[s].made /\ \A r \in Sock : r < s => sock[r].made
HasFresh(n) == Cardinality({s \in Sock : ~sock[s].made}) >= n

\* alloc_port: the first ephemeral port from the cursor that no table holds.
Cyclic(i) == Ephemeral[1 + ((i - 1) % Len(Ephemeral))]
AllocPort ==
    LET from == CHOOSE i \in DOMAIN Ephemeral : Ephemeral[i] = nextEphemeral
        good(i) == Listeners[Cyclic(i)] = None /\ UdpBound[Cyclic(i)] = <<>>
        i == CHOOSE i \in from..(from + Len(Ephemeral)) :
                 good(i) /\ \A j \in from..(i - 1) : ~good(j)
    IN  [port |-> Cyclic(i), next |-> Cyclic(i + 1)]
CanAllocPort == \E i \in DOMAIN Ephemeral :
    Listeners[Ephemeral[i]] = None /\ UdpBound[Ephemeral[i]] = <<>>

-----------------------------------------------------------------------------
(* Running, sleeping and waking.                                           *)

MayRun(t) == SockCpus > 1 \/ \A u \in SockThread \ {t} : scall[u].at \in {"idle", "slept"}

At(t, at) == scall[t].at = at /\ MayRun(t)

\* The call goes on at `at`, after waking the tasks the section collected.
Goto(t, at, wake, other) ==
    scall' = [scall EXCEPT ![t].at = IF wake = {} THEN at ELSE "wake", ![t].wake = wake,
                           ![t].then = IF wake = {} THEN "idle" ELSE at, ![t].other = other]

Tables == <<tcpListeners, connectWaiters, udpBound, unixBound, nextEphemeral>>
Tasks == <<sAsleep, notified, sSignal, sSignals, sTimers, overdue>>

WakeStep(t) ==
    /\ At(t, "wake")
    /\ sAsleep' = sAsleep \ scall[t].wake
    /\ notified' = notified \cup {u \in scall[t].wake : scall[u].op \in Polls}
    /\ scall' = [scall EXCEPT ![t].at = scall[t].then, ![t].then = "idle", ![t].wake = {}]
    /\ UNCHANGED <<sock, Tables, sSignal, sSignals, sTimers, overdue, earlyEof>>

\* A woken thread leaves schedule() and goes round its loop again.
Resume(t) ==
    /\ At(t, "slept") /\ t \notin sAsleep
    /\ scall' = [scall EXCEPT ![t].at = scall[t].then, ![t].then = "idle"]
    /\ UNCHANGED <<sock, Tables, Tasks, earlyEof>>

\* A signal the caller does not ignore is queued for the thread and wakes it.
QueueSignal(t) ==
    /\ t \in SockSignalled \ sSignal /\ sSignals < MaxSockSignals
    /\ scall[t].at # "idle"
    /\ sSignal' = sSignal \cup {t} /\ sSignals' = sSignals + 1
    /\ sAsleep' = sAsleep \ {t}
    /\ UNCHANGED <<sock, Tables, scall, notified, sTimers, overdue, earlyEof>>

First(q) == IF q = <<>> THEN {} ELSE {Head(q)}
Rest(q) == IF q = <<>> THEN <<>> ELSE Tail(q)

Slept(t, back) == [scall EXCEPT ![t].at = "slept", ![t].then = back]

\* sleep_reader, sleep_writer: blocked and queued, or out of the queue and
\* interrupted, when a signal is pending.
Sleep(t, s, queue, back) ==
    IF t \in sSignal
    THEN /\ sock' = [sock EXCEPT ![s][queue] = RemoveFirst(@, t)]
         /\ scall' = [scall EXCEPT ![t].at = "return"]
         /\ UNCHANGED sAsleep
    ELSE /\ sock' = [sock EXCEPT ![s][queue] = Append(@, t)]
         /\ scall' = Slept(t, back)
         /\ sAsleep' = sAsleep \cup {t}

-----------------------------------------------------------------------------
(* Calls: entry, and the return that may drop the last LocalSocket.        *)

EntryOf(op) ==
    CASE op = "bind" -> "bind" [] op = "bindname" -> "nameCheck"
      [] op = "listen" -> "bound" [] op = "accept" -> "accept"
      [] op = "connect" -> "resolve" [] op = "send" -> "sendCheck"
      [] op = "recv" -> "recv" [] op = "route" -> "route"
      [] op = "recvmsg" -> "recv"
      [] op = "shutdown" -> "shutdown" [] op \in Polls -> "pollScan"
      [] op = "close" -> "close"

Suits(s, op) ==
    CASE op \in {"listen", "accept"} -> sock[s].kind = "stream" /\ sock[s].domain # "netlink"
      [] op = "bindname" -> sock[s].domain = "unix"
      [] op = "bind" -> sock[s].domain = "inet"
      [] op = "connect" -> sock[s].domain # "netlink"
      [] op = "route" -> sock[s].domain = "netlink"
      [] op = "send" -> sock[s].domain # "netlink"
      [] op = "recvmsg" -> sock[s].kind = "datagram"
      [] OTHER -> TRUE

EnterCall(t) ==
    /\ At(t, "idle")
    /\ \E op \in SockOps[t] \cap ({"bind", "bindname", "listen", "accept", "connect",
                "send", "recv", "recvmsg", "route", "shutdown", "close"} \cup Polls) :
       \E s \in {r \in UseOf[t] : sock[r].made /\ sock[r].fd /\ Suits(r, op)} :
       \E p \in IF op \in {"bind", "connect", "send"} THEN Port \cup {None} ELSE {None} :
       \E n \in IF op = "send" THEN 1..MaxSend ELSE {1} :
       \E b \in IF op \in {"send", "recv", "accept"} THEN BOOLEAN ELSE {FALSE} :
          scall' = [scall EXCEPT ![t] = [Idle EXCEPT !.op = op, !.s = s,
                        !.at = EntryOf(op), !.port = p, !.left = n, !.nonblock = b]]
    /\ overdue' = overdue \ {t}
    /\ sTimers' = {<<r[1], IF r[1] = t THEN "old" ELSE r[2]>> : r \in sTimers}
    /\ UNCHANGED <<sock, Tables, sAsleep, notified, sSignal, sSignals, earlyEof>>

\* socket(2) and socketpair(2).
Create(t) ==
    /\ At(t, "idle")
    /\ \E op \in SockOps[t] \cap {"inet", "unix", "udp", "netlink"} :
          /\ HasFresh(1) /\ Fresh \in UseOf[t]
          /\ sock' = [sock EXCEPT ![Fresh] = New(
                 CASE op \in {"inet", "udp"} -> "inet" [] OTHER -> op,
                 IF op \in {"udp", "netlink"} THEN "datagram" ELSE "stream")]
    /\ UNCHANGED <<Tables, scall, Tasks, earlyEof>>

NewPair(t) ==
    /\ At(t, "idle") /\ HasFresh(2)
    /\ \E op \in SockOps[t] \cap {"pair", "dgrampair"} :
          LET kind == IF op = "pair" THEN "stream" ELSE "datagram"
              a == Fresh
          IN  sock' = [sock EXCEPT ![a] = Connected("unix", kind, None, a + 1, NoName),
                                   ![a + 1] = Connected("unix", kind, None, a, NoName)]
    /\ UNCHANGED <<Tables, scall, Tasks, earlyEof>>

Close(t) ==
    /\ At(t, "close")
    /\ sock' = [sock EXCEPT ![scall[t].s].fd = FALSE]
    /\ scall' = [scall EXCEPT ![t].at = "return"]
    /\ UNCHANGED <<Tables, Tasks, earlyEof>>

\* The Arc goes with the call; the last one runs Drop.
LastFile(t, s) == ~sock[s].fd /\ \A u \in SockThread \ {t} : scall[u].s # s

Return(t) ==
    /\ At(t, "return")
    /\ scall' = IF LastFile(t, scall[t].s) THEN [scall EXCEPT ![t].at = "drop", ![t].other = None]
                ELSE [scall EXCEPT ![t] = Idle]
    /\ sock' = [s \in Sock |-> [sock[s] EXCEPT !.rpoll = @ \ {t}, !.wpoll = @ \ {t}]]
    /\ notified' = notified \ {t} /\ sSignal' = sSignal \ {t}
    /\ UNCHANGED <<Tables, sAsleep, sSignals, sTimers, overdue, earlyEof>>

\* Everything the teardown of a socket wakes.
Sleepers(s) == Range(sock[s].readq) \cup Range(sock[s].writeq)
               \cup sock[s].rpoll \cup sock[s].wpoll

DropSelf(t) ==
    /\ At(t, "drop")
    /\ LET s == scall[t].s
       IN  /\ sock' = [sock EXCEPT ![s].readShutdown = TRUE, ![s].writeShutdown = TRUE,
                           ![s].readq = <<>>, ![s].writeq = <<>>,
                           ![s].rpoll = {}, ![s].wpoll = {}]
           /\ Goto(t, IF Alive(sock[s].peerSocket) THEN "dropPeer" ELSE "dropNames",
                   Sleepers(s), Upgrade(sock[s].peerSocket))
    /\ UNCHANGED <<Tables, Tasks, earlyEof>>

\* The other end sees end of file: Drop and shutdown(SHUT_WR).
EofWakes(p) == Range(sock[p].readq) \cup sock[p].rpoll
EndOfFile(t, at) ==
    LET p == scall[t].other
    IN  /\ sock' = [sock EXCEPT ![p].peerWriteShutdown = TRUE,
                        ![p].readq = <<>>, ![p].rpoll = {}]
        /\ Goto(t, at, EofWakes(p), None)

DropPeer(t) ==
    /\ At(t, "dropPeer")
    /\ EndOfFile(t, "dropNames")
    /\ UNCHANGED <<Tables, Tasks, earlyEof>>

DropNames(t) ==
    /\ At(t, "dropNames")
    /\ LET s == scall[t].s
           p == sock[s].local
       IN  IF p = None
           THEN UNCHANGED <<tcpListeners, udpBound, unixBound>>
           ELSE /\ tcpListeners' = IF sock[s].kind = "stream" /\ sock[s].listening
                                   THEN [tcpListeners EXCEPT ![p] = None] ELSE tcpListeners
                /\ udpBound' = IF sock[s].kind = "datagram"
                               THEN [udpBound EXCEPT ![p] = SelectSeq(@, LAMBDA r : r # s /\ Alive(r))]
                               ELSE udpBound
                /\ unixBound' = IF sock[s].uname # NoName
                                THEN [unixBound EXCEPT ![sock[s].uname] = None] ELSE unixBound
    /\ scall' = [scall EXCEPT ![t] = Idle]
    /\ UNCHANGED <<sock, connectWaiters, nextEphemeral, Tasks, earlyEof>>

-----------------------------------------------------------------------------
(* Addresses: bind, the implicit bind, listen, accept.                     *)

\* bind_endpoint; port 0 asks for an ephemeral port.
Taken(s, p) ==
    IF sock[s].kind = "stream" THEN Listeners[p] # None ELSE UdpBound[p] # <<>>

\* A datagram socket is listed under its port.
Listed(s, p) ==
    IF sock[s].kind = "datagram" THEN [UdpBound EXCEPT ![p] = Append(@, s)] ELSE UdpBound

Bind(t) ==
    /\ At(t, "bind")
    /\ LET s == scall[t].s
           p == IF scall[t].port = None THEN AllocPort.port ELSE scall[t].port
       IN  IF sock[s].bound \/ (scall[t].port # None /\ Taken(s, p))
           THEN Prune /\ UNCHANGED <<sock, nextEphemeral>>
           ELSE /\ scall[t].port = None => CanAllocPort
                /\ sock' = [sock EXCEPT ![s].bound = TRUE, ![s].local = p]
                /\ udpBound' = Listed(s, p)
                /\ tcpListeners' = Listeners /\ unixBound' = UnixBound
                /\ nextEphemeral' = IF scall[t].port = None THEN AllocPort.next ELSE nextEphemeral
    /\ scall' = [scall EXCEPT ![t].at = "return"]
    /\ UNCHANGED <<connectWaiters, Tasks, earlyEof>>

\* bind_unix looks at the socket, then at the name, and then takes both.
NameCheck(t) ==
    /\ At(t, "nameCheck")
    /\ \E n \in SockName :
          scall' = IF sock[scall[t].s].bound THEN [scall EXCEPT ![t].at = "return"]
                   ELSE [scall EXCEPT ![t].at = "nameLook", ![t].name = n]
    /\ UNCHANGED <<sock, Tables, Tasks, earlyEof>>

NameLook(t) ==
    /\ At(t, "nameLook")
    /\ Prune
    /\ scall' = [scall EXCEPT ![t].at = IF Alive(unixBound[scall[t].name]) THEN "return" ELSE "namePut"]
    /\ UNCHANGED <<sock, connectWaiters, nextEphemeral, Tasks, earlyEof>>

NamePut(t) ==
    /\ At(t, "namePut") /\ CanAllocPort
    /\ LET s == scall[t].s
           n == scall[t].name
       IN  /\ sock' = [sock EXCEPT ![s].bound = TRUE, ![s].local = AllocPort.port, ![s].uname = n]
           /\ udpBound' = Listed(s, AllocPort.port)
           /\ tcpListeners' = Listeners
           /\ unixBound' = [UnixBound EXCEPT ![n] = s]
           /\ nextEphemeral' = AllocPort.next
    /\ scall' = [scall EXCEPT ![t].at = "return"]
    /\ UNCHANGED <<connectWaiters, Tasks, earlyEof>>

\* ensure_bound: the socket's lock, then LOOPBACK.
AfterBound(t) ==
    CASE scall[t].op = "listen" -> "listen" [] scall[t].op = "send" -> "sendPeer"
      [] sock[scall[t].s].kind = "datagram" -> "connectPeer" [] OTHER -> "connectLook"

EnsureBound(t) ==
    /\ At(t, "bound")
    /\ scall' = [scall EXCEPT ![t].at = IF sock[scall[t].s].bound THEN AfterBound(t) ELSE "boundPut"]
    /\ UNCHANGED <<sock, Tables, Tasks, earlyEof>>

BoundPut(t) ==
    /\ At(t, "boundPut") /\ CanAllocPort
    /\ sock' = [sock EXCEPT ![scall[t].s].bound = TRUE, ![scall[t].s].local = AllocPort.port]
    /\ udpBound' = Listed(scall[t].s, AllocPort.port)
    /\ tcpListeners' = Listeners /\ unixBound' = UnixBound
    /\ nextEphemeral' = AllocPort.next
    /\ scall' = [scall EXCEPT ![t].at = AfterBound(t)]
    /\ UNCHANGED <<connectWaiters, Tasks, earlyEof>>

Listen(t) ==
    /\ At(t, "listen")
    /\ sock' = [sock EXCEPT ![scall[t].s].listening = TRUE]
    /\ scall' = [scall EXCEPT ![t].at = "listenPut"]
    /\ UNCHANGED <<Tables, Tasks, earlyEof>>

\* The connecting threads that wait for a listener on the port.
ConnectWaiters(p) == Range(connectWaiters[p])

ListenPut(t) ==
    /\ At(t, "listenPut")
    /\ LET p == sock[scall[t].s].local
       IN  /\ tcpListeners' = [Listeners EXCEPT ![p] = scall[t].s]
           /\ udpBound' = UdpBound /\ unixBound' = UnixBound
           /\ connectWaiters' = [connectWaiters EXCEPT ![p] = <<>>]
           /\ Goto(t, "return", ConnectWaiters(p), None)
    /\ UNCHANGED <<sock, nextEphemeral, Tasks, earlyEof>>

\* accept: a signal makes it return a closed placeholder socket.
Placeholder(s) ==
    [Connected("inet", "stream", sock[s].local, None, NoName) EXCEPT
        !.readShutdown = TRUE, !.writeShutdown = TRUE, !.peerWriteShutdown = TRUE]

Accept(t) ==
    /\ At(t, "accept")
    /\ LET s == scall[t].s
           q == sock[s].acceptQueue
       IN  IF q # <<>> /\ sock[s].listening
           THEN /\ sock' = [sock EXCEPT ![s].acceptQueue = Tail(q), ![Head(q)].fd = TRUE]
                /\ scall' = [scall EXCEPT ![t].at = "return"]
                /\ UNCHANGED sAsleep
           ELSE IF ~sock[s].listening \/ scall[t].nonblock
           THEN /\ scall' = [scall EXCEPT ![t].at = "return"]
                /\ UNCHANGED <<sock, sAsleep>>
           ELSE IF t \in sSignal
           THEN /\ HasFresh(1)
                /\ sock' = [sock EXCEPT ![s].readq = RemoveFirst(@, t), ![Fresh] = Placeholder(s)]
                /\ scall' = [scall EXCEPT ![t].at = "return"]
                /\ UNCHANGED sAsleep
           ELSE Sleep(t, s, "readq", "accept")
    /\ UNCHANGED <<Tables, notified, sSignal, sSignals, sTimers, overdue, earlyEof>>

-----------------------------------------------------------------------------
(* connect                                                                 *)

\* resolve_remote_address: a name is looked up for its socket's port.
Resolve(t) ==
    /\ At(t, "resolve")
    /\ LET s == scall[t].s
       IN  \/ /\ sock[s].domain = "inet"
              /\ scall' = [scall EXCEPT ![t].at =
                     IF scall[t].port = None \/ (sock[s].kind = "stream" /\ sock[s].peer)
                     THEN "return" ELSE "bound"]
              /\ UNCHANGED <<tcpListeners, udpBound, unixBound>>
           \/ /\ sock[s].domain = "unix"
              /\ Prune
              /\ \E n \in SockName :
                    scall' = IF ~Alive(unixBound[n]) \/ (sock[s].kind = "stream" /\ sock[s].peer)
                             THEN [scall EXCEPT ![t].at = "return"]
                             ELSE [scall EXCEPT ![t].at = "bound",
                                      ![t].port = sock[unixBound[n]].local]
    /\ UNCHANGED <<sock, connectWaiters, nextEphemeral, Tasks, earlyEof>>

\* A datagram socket only remembers its peer.
ConnectPeer(t) ==
    /\ At(t, "connectPeer")
    /\ sock' = [sock EXCEPT ![scall[t].s].peer = TRUE, ![scall[t].s].peerPort = scall[t].port]
    /\ scall' = [scall EXCEPT ![t].at = "return"]
    /\ UNCHANGED <<Tables, Tasks, earlyEof>>

\* The head of the loop: past the deadline the thread leaves the queue;
\* otherwise find_tcp_listener_or_block.
ConnectLook(t) ==
    /\ At(t, "connectLook")
    /\ LET p == scall[t].port
           out == [connectWaiters EXCEPT ![p] = RemoveFirst(@, t)]
           l == Upgrade(tcpListeners[p])
       IN  CASE t \in overdue ->
                  /\ connectWaiters' = out
                  /\ scall' = [scall EXCEPT ![t].at = "return"]
                  /\ UNCHANGED <<sAsleep, tcpListeners, udpBound, unixBound>>
             [] t \notin overdue /\ l # None ->
                  /\ Prune
                  /\ scall' = [scall EXCEPT ![t].at = "connectPush", ![t].other = l]
                  /\ UNCHANGED <<connectWaiters, sAsleep>>
             [] t \notin overdue /\ l = None /\ t \in sSignal ->
                  /\ Prune
                  /\ connectWaiters' = out
                  /\ scall' = [scall EXCEPT ![t].at = "return"]
                  /\ UNCHANGED sAsleep
             [] OTHER ->
                  /\ Prune
                  /\ connectWaiters' = [out EXCEPT ![p] = Append(@, t)]
                  /\ scall' = [scall EXCEPT ![t].at = "connectTimer"]
                  /\ sAsleep' = sAsleep \cup {t}
    /\ UNCHANGED <<sock, nextEphemeral, notified, sSignal, sSignals, sTimers, overdue, earlyEof>>

\* add_timer, after LOOPBACK is released; the thread is already blocked.
ConnectTimer(t) ==
    /\ At(t, "connectTimer")
    /\ sTimers' = sTimers \cup {<<t, "new">>}
    /\ scall' = Slept(t, "connectLook")
    /\ UNCHANGED <<sock, Tables, sAsleep, notified, sSignal, sSignals, overdue, earlyEof>>

\* check_timer: the deadline of the connect that armed it has come.  A timer
\* is never cancelled, so one of an earlier connect may wake a later sleep.
TimerFires(t) ==
    /\ \E age \in {"new", "old"} :
          /\ <<t, age>> \in sTimers
          /\ sTimers' = sTimers \ {<<t, age>>}
          /\ overdue' = IF age = "new" /\ scall[t].op = "connect" THEN overdue \cup {t} ELSE overdue
    /\ sAsleep' = sAsleep \ {t}
    /\ UNCHANGED <<sock, Tables, scall, notified, sSignal, sSignals, earlyEof>>

\* The listener takes a connected server socket into its queue, or refuses.
Refuses(l) ==
    \/ ~sock[l].listening \/ sock[l].readShutdown
    \/ Len(sock[l].acceptQueue) >= Backlog

ConnectPush(t) ==
    /\ At(t, "connectPush")
    /\ LET s == scall[t].s
           l == scall[t].other
           server == [Connected(sock[s].domain, "stream", scall[t].port, s, sock[l].uname)
                         EXCEPT !.fd = FALSE]
       IN  IF Refuses(l)
           THEN /\ scall' = [scall EXCEPT ![t].at = "return", ![t].other = None]
                /\ UNCHANGED sock
           ELSE /\ HasFresh(1)
                /\ sock' = [sock EXCEPT ![Fresh] = server,
                       ![s].peer = TRUE, ![s].peerPort = scall[t].port, ![s].peerSocket = Fresh,
                       ![l].acceptQueue = Append(@, Fresh),
                       ![l].readq = Rest(@), ![l].rpoll = {}]
                /\ Goto(t, "return", First(sock[l].readq) \cup sock[l].rpoll, None)
    /\ UNCHANGED <<Tables, Tasks, earlyEof>>

-----------------------------------------------------------------------------
(* Sending and receiving.                                                  *)

\* send_stream: one turn of the loop looks at its own socket ...
SendCheck(t) ==
    /\ At(t, "sendCheck")
    /\ LET s == scall[t].s
           p == Upgrade(sock[s].peerSocket)
       IN  scall' = CASE sock[s].kind = "datagram" -> [scall EXCEPT ![t].at = "bound"]
                      [] sock[s].kind = "stream" /\ (sock[s].writeShutdown \/ p = None) ->
                             [scall EXCEPT ![t].at = "return", ![t].other = None]
                      [] OTHER -> [scall EXCEPT ![t].at = "sendPush", ![t].other = p]
    /\ UNCHANGED <<sock, Tables, Tasks, earlyEof>>

Least(a, b) == IF a < b THEN a ELSE b

\* ... and then fills the buffer of its peer, or sleeps at the peer.
SendPush(t) ==
    /\ At(t, "sendPush")
    /\ LET p == scall[t].other
           room == IF RcvBuf > sock[p].bytes THEN RcvBuf - sock[p].bytes ELSE 0
           n == Least(room, scall[t].left)
           after == IF n = scall[t].left THEN "return" ELSE "sendCheck"
           wake == First(sock[p].readq) \cup sock[p].rpoll
       IN  IF sock[p].readShutdown \/ (room = 0 /\ scall[t].nonblock)
           THEN /\ scall' = [scall EXCEPT ![t].at = "return", ![t].other = None]
                /\ UNCHANGED <<sock, sAsleep>>
           ELSE IF room = 0
           THEN Sleep(t, p, "writeq", "sendCheck")
           ELSE /\ sock' = [sock EXCEPT ![p].bytes = @ + n, ![p].readq = Rest(@), ![p].rpoll = {}]
                /\ scall' = [scall EXCEPT ![t].left = @ - n, ![t].other = None, ![t].wake = wake,
                       ![t].at = IF wake = {} THEN after ELSE "wake",
                       ![t].then = IF wake = {} THEN "idle" ELSE after]
                /\ UNCHANGED sAsleep
    /\ UNCHANGED <<Tables, notified, sSignal, sSignals, sTimers, overdue, earlyEof>>

\* send_datagram: to the connected peer, or to the sockets of a port.
SendPeer(t) ==
    /\ At(t, "sendPeer")
    /\ LET s == scall[t].s
           p == Upgrade(sock[s].peerSocket)
       IN  scall' = CASE scall[t].port = None /\ p # None ->
                           [scall EXCEPT ![t].at = "sendDatagram", ![t].other = p]
                      [] scall[t].port = None /\ p = None /\ sock[s].peerPort = None ->
                           [scall EXCEPT ![t].at = "return"]
                      [] OTHER -> [scall EXCEPT ![t].at = "sendLook", ![t].port =
                                      IF @ = None THEN sock[s].peerPort ELSE @]
    /\ UNCHANGED <<sock, Tables, Tasks, earlyEof>>

\* The first socket of the port whose peer is the sender, or the first that
\* has no peer.
SendLook(t) ==
    /\ At(t, "sendLook")
    /\ Prune
    /\ LET mine == SelectSeq(UdpBound[scall[t].port],
                      LAMBDA r : sock[r].peer /\ sock[r].peerPort = sock[scall[t].s].local)
           q == mine \o SelectSeq(UdpBound[scall[t].port], LAMBDA r : ~sock[r].peer)
       IN  scall' = IF q = <<>> THEN [scall EXCEPT ![t].at = "return"]
                    ELSE [scall EXCEPT ![t].at = "sendDatagram", ![t].other = Head(q)]
    /\ UNCHANGED <<sock, connectWaiters, nextEphemeral, Tasks, earlyEof>>

Fits(p, n) == sock[p].bytes + n <= RcvBuf

\* A socket found by its port drops what does not fit; a peer makes the
\* sender wait.
SendDatagram(t) ==
    /\ At(t, "sendDatagram")
    /\ LET p == scall[t].other
           n == scall[t].left
           wake == First(sock[p].readq) \cup sock[p].rpoll
           byPort == scall[t].port # None
       IN  IF ~byPort /\ sock[p].readShutdown
           THEN /\ scall' = [scall EXCEPT ![t].at = "return", ![t].other = None]
                /\ UNCHANGED <<sock, sAsleep>>
           ELSE IF Fits(p, n)
           THEN /\ sock' = [sock EXCEPT ![p].datagrams = Append(@, n), ![p].bytes = @ + n,
                               ![p].readq = Rest(@), ![p].rpoll = {}]
                /\ Goto(t, "return", wake, None)
                /\ UNCHANGED sAsleep
           ELSE IF byPort \/ scall[t].nonblock
           THEN /\ scall' = [scall EXCEPT ![t].at = "return", ![t].other = None]
                /\ UNCHANGED <<sock, sAsleep>>
           ELSE Sleep(t, p, "writeq", "sendDatagram")
    /\ UNCHANGED <<Tables, notified, sSignal, sSignals, sTimers, overdue, earlyEof>>

\* send_netlink_route: the replies go into the sender's own queue.
Route(t) ==
    /\ At(t, "route") /\ Len(sock[scall[t].s].datagrams) < RcvBuf
    /\ LET s == scall[t].s
       IN  /\ sock' = [sock EXCEPT ![s].datagrams = Append(@, 1), ![s].bytes = @ + 1, ![s].rpoll = {}]
           /\ Goto(t, "return", sock[s].rpoll, None)
    /\ UNCHANGED <<Tables, Tasks, earlyEof>>

\* What a receive that returns 0 must not have: bytes left, or a peer that
\* still writes.
StillWriting(s) ==
    LET p == sock[s].peerSocket
    IN  sock[s].bytes > 0 \/ (p # None /\ File(p) /\ ~sock[p].writeShutdown)

AtEnd(s) == sock[s].bytes = 0 /\ sock[s].peerWriteShutdown

\* recv_stream: bytes before end of file; one writer is woken.
RecvStream(t) ==
    /\ At(t, "recv") /\ sock[scall[t].s].kind = "stream"
    /\ LET s == scall[t].s
       IN  IF AtEnd(s)
           THEN /\ scall' = [scall EXCEPT ![t].at = "return"]
                /\ earlyEof' = (earlyEof \/ StillWriting(s))
                /\ UNCHANGED <<sock, sAsleep>>
           ELSE IF sock[s].bytes > 0
           THEN /\ \E n \in 1..sock[s].bytes :
                      sock' = [sock EXCEPT ![s].bytes = @ - n, ![s].writeq = Rest(@)]
                /\ Goto(t, "recvPeer", First(sock[s].writeq), Upgrade(sock[s].peerSocket))
                /\ UNCHANGED <<sAsleep, earlyEof>>
           ELSE IF scall[t].nonblock
           THEN /\ scall' = [scall EXCEPT ![t].at = "return"]
                /\ UNCHANGED <<sock, sAsleep, earlyEof>>
           ELSE Sleep(t, s, "readq", "recv") /\ UNCHANGED earlyEof
    /\ UNCHANGED <<Tables, notified, sSignal, sSignals, sTimers, overdue>>

\* The peer's pollers for writing are told of the room.
WritePollers(p) == IF p = None THEN {} ELSE sock[p].wpoll

RecvPeer(t) ==
    /\ At(t, "recvPeer")
    /\ LET p == scall[t].other
           wake == WritePollers(p)
       IN  /\ sock' = IF p = None THEN sock ELSE [sock EXCEPT ![p].wpoll = @ \ wake]
           /\ Goto(t, "return", wake, None)
    /\ UNCHANGED <<Tables, Tasks, earlyEof>>

\* recv_datagram and recv_raw_datagram (recvmsg) pop a datagram and a writer
\* under the lock, and sleep in another section.  The first tells the pollers
\* of its peer of the room, the second those of the socket itself.
RecvDatagram(t) ==
    /\ At(t, "recv") /\ sock[scall[t].s].kind = "datagram"
    /\ LET s == scall[t].s
           q == sock[s].datagrams
           raw == scall[t].op = "recvmsg"
       IN  IF q # <<>>
           THEN /\ sock' = [sock EXCEPT ![s].datagrams = Tail(q), ![s].bytes = @ - Head(q),
                               ![s].writeq = Rest(@), ![s].wpoll = IF raw THEN {} ELSE @]
                /\ Goto(t, IF raw THEN "return" ELSE "recvPeer",
                        First(sock[s].writeq) \cup (IF raw THEN sock[s].wpoll ELSE {}),
                        IF raw THEN None ELSE Upgrade(sock[s].peerSocket))
           ELSE /\ sock' = [sock EXCEPT ![s].writeq = Rest(@)]
                /\ scall' = [scall EXCEPT ![t].at =
                       IF scall[t].nonblock THEN "return" ELSE "recvSleep"]
    /\ UNCHANGED <<Tables, Tasks, earlyEof>>

RecvSleep(t) ==
    /\ At(t, "recvSleep")
    /\ Sleep(t, scall[t].s, "readq", "recv")
    /\ UNCHANGED <<Tables, notified, sSignal, sSignals, sTimers, overdue, earlyEof>>

-----------------------------------------------------------------------------
(* shutdown and poll                                                       *)

Shutdown(t) ==
    /\ At(t, "shutdown")
    /\ \E how \in {"read", "write", "both"} :
          LET s == scall[t].s
              p == Upgrade(sock[s].peerSocket)
          IN  /\ sock' = [sock EXCEPT ![s].readShutdown = @ \/ how # "write",
                     ![s].writeShutdown = @ \/ how # "read",
                     ![s].readq = <<>>, ![s].writeq = <<>>, ![s].rpoll = {}, ![s].wpoll = {}]
              /\ Goto(t, IF how # "read" /\ p # None THEN "shutdownPeer" ELSE "return",
                      Sleepers(s), p)
    /\ UNCHANGED <<Tables, Tasks, earlyEof>>

ShutdownPeer(t) ==
    /\ At(t, "shutdownPeer")
    /\ EndOfFile(t, "return")
    /\ UNCHANGED <<Tables, Tasks, earlyEof>>

\* poll_with_wait: registration and the read side under the socket's lock,
\* the write side under the peer's.
Readable(s) ==
    CASE sock[s].kind = "datagram" -> sock[s].datagrams # <<>> \/ sock[s].peerWriteShutdown
      [] sock[s].kind = "stream" /\ sock[s].listening -> sock[s].acceptQueue # <<>>
      [] OTHER -> sock[s].bytes > 0 \/ sock[s].peerWriteShutdown

Room(p) == sock[p].bytes < RcvBuf

PollScan(t) ==
    /\ At(t, "pollScan")
    /\ LET s == scall[t].s
           out == scall[t].op = "pollout"
           p == Upgrade(sock[s].peerSocket)
           listener == sock[s].kind = "stream" /\ sock[s].listening
       IN  /\ sock' = IF out THEN [sock EXCEPT ![s].wpoll = @ \cup {t}]
                      ELSE [sock EXCEPT ![s].rpoll = @ \cup {t}]
           /\ scall' =
                CASE ~out -> [scall EXCEPT ![t].at = IF Readable(s) THEN "return" ELSE "pollSleep"]
                  [] out /\ sock[s].writeShutdown -> [scall EXCEPT ![t].at = "pollSleep"]
                  [] out /\ ~sock[s].writeShutdown /\ p # None /\ ~listener ->
                         [scall EXCEPT ![t].at = "pollPeer", ![t].other = p]
                  [] OTHER -> [scall EXCEPT ![t].at =
                         IF sock[s].kind = "stream" /\ ~listener THEN "pollSleep" ELSE "return"]
    /\ notified' = notified \ {t}
    /\ UNCHANGED <<Tables, sAsleep, sSignal, sSignals, sTimers, overdue, earlyEof>>

PollPeer(t) ==
    /\ At(t, "pollPeer")
    /\ scall' = [scall EXCEPT ![t].other = None,
                    ![t].at = IF Room(scall[t].other) THEN "return" ELSE "pollSleep"]
    /\ UNCHANGED <<sock, Tables, Tasks, earlyEof>>

\* The poll loop sleeps unless its waiter was woken or a signal came.
PollSleep(t) ==
    /\ At(t, "pollSleep")
    /\ scall' = CASE t \in sSignal -> [scall EXCEPT ![t].at = "return"]
                  [] t \notin sSignal /\ t \in notified -> [scall EXCEPT ![t].at = "pollScan"]
                  [] OTHER -> Slept(t, "pollScan")
    /\ sAsleep' = IF t \in sSignal \cup notified THEN sAsleep ELSE sAsleep \cup {t}
    /\ UNCHANGED <<sock, Tables, notified, sSignal, sSignals, sTimers, overdue, earlyEof>>

-----------------------------------------------------------------------------
SockStep(t) ==
    \/ WakeStep(t) \/ Resume(t) \/ Close(t) \/ Return(t)
    \/ DropSelf(t) \/ DropPeer(t) \/ DropNames(t)
    \/ Bind(t) \/ NameCheck(t) \/ NameLook(t) \/ NamePut(t)
    \/ EnsureBound(t) \/ BoundPut(t) \/ Listen(t) \/ ListenPut(t) \/ Accept(t)
    \/ Resolve(t) \/ ConnectPeer(t) \/ ConnectLook(t) \/ ConnectTimer(t) \/ ConnectPush(t)
    \/ SendCheck(t) \/ SendPush(t) \/ SendPeer(t) \/ SendLook(t) \/ SendDatagram(t) \/ Route(t)
    \/ RecvStream(t) \/ RecvPeer(t) \/ RecvDatagram(t) \/ RecvSleep(t)
    \/ Shutdown(t) \/ ShutdownPeer(t) \/ PollScan(t) \/ PollPeer(t) \/ PollSleep(t)

SockNext == \E t \in SockThread :
    SockStep(t) \/ EnterCall(t) \/ Create(t) \/ NewPair(t) \/ QueueSignal(t) \/ TimerFires(t)

SockSpec == SockInit /\ [][SockNext]_sockVars

-----------------------------------------------------------------------------
(* Properties                                                              *)

\* Some thread holds t in the list of tasks it is about to wake.
Waking(t) == \E u \in SockThread : t \in scall[u].wake
Waits(t, back) == t \in sAsleep /\ scall[t].at = "slept" /\ scall[t].then = back /\ ~Waking(t)

\* A receiver is about to take the pollers for writing of s.
Draining(s) == \E u \in SockThread :
    scall[u].other = s /\ "recvPeer" \in {scall[u].at, scall[u].then}

\* A thread asleep in recv has nothing to receive; on a stream it has no end
\* of file to see, and a peer that is still there; and one asleep in accept has an empty accept queue: whatever fills the
\* queue, shuts the peer down or drops it wakes the reader it finds
\* (recv_stream, recv_datagram, accept, send_*, connect_stream, shutdown, Drop).
ReadersMustWait ==
    \A t \in SockThread :
        /\ Waits(t, "recv") =>
               LET r == sock[scall[t].s]
               IN  IF r.kind = "datagram" THEN r.datagrams = <<>>
                   ELSE /\ r.bytes = 0 /\ ~r.peerWriteShutdown
                        /\ r.peer => Alive(r.peerSocket)
        /\ Waits(t, "accept") => sock[scall[t].s].acceptQueue = <<>>

\* A thread asleep in send waits at a peer that is open for reading and has
\* no room for it (send_stream, send_datagram against recv_*, shutdown, Drop).
WritersMustWait ==
    \A t \in SockThread :
        LET p == scall[t].other
        IN  /\ Waits(t, "sendCheck") => ~sock[p].readShutdown /\ ~Room(p)
            /\ Waits(t, "sendDatagram") => ~sock[p].readShutdown /\ ~Fits(p, scall[t].left)

\* A thread asleep in connect has no listener to connect to and a timer that
\* ends its wait (find_tcp_listener_or_block against listen and check_timer).
ConnectorsMustWait ==
    \A t \in SockThread :
        Waits(t, "connectLook") => <<t, "new">> \in sTimers /\ Listeners[scall[t].port] = None

\* A thread asleep in poll would find its event not ready if it looked again
\* (poll_with_wait against every section that drains the poll queues).
PollersMustWait ==
    \A t \in SockThread :
        LET s == scall[t].s
        IN  Waits(t, "pollScan") /\ t \notin notified =>
                IF scall[t].op = "pollin" THEN ~Readable(s)
                ELSE ~sock[s].writeShutdown /\ Alive(sock[s].peerSocket)
                         => ~Room(sock[s].peerSocket) \/ Draining(s)

\* A receive reports end of file only after the last byte, when the other
\* end can send no more (recv_stream looks at stream_rx before
\* peer_write_shutdown).
EofIsLast == ~earlyEof

\* A Unix name leads to the socket that bound it for as long as that socket
\* is open (bind_unix, lookup_unix_endpoint, Drop).
NamesLeadHome ==
    \A s \in Sock : sock[s].fd /\ ~sock[s].peer /\ sock[s].uname # NoName
        => unixBound[sock[s].uname] = s

=============================================================================
