------------------------------- MODULE Notify -------------------------------
(***************************************************************************)
(* File change notification: the inotify and fanotify groups of            *)
(* syscall/fs/inotify.rs and syscall/fs/fanotify.rs and the calls that      *)
(* publish to them (open, write, chmod, close, create, unlink, rename).     *)
(*                                                                         *)
(* The file system is one directory Dir whose names lead to inode numbers;  *)
(* a number is free again once it has no name and nobody has it open.       *)
(* Publishing is a list of jobs: a job takes the groups alive when it       *)
(* starts and visits them one at a time, each under that group's lock.      *)
(* Left out: directories other than Dir, overlay mounts, event file         *)
(* descriptors, the encoding of records, mounts, path-based mark targets.   *)
(***************************************************************************)
EXTENDS Naturals, Sequences, FiniteSets, SequencesExt

CONSTANTS
  NThread,      \* threads
  NOps,         \* the calls each thread makes: [NThread -> SUBSET STRING]
  Group,        \* groups
  GroupKind,    \* "in" (inotify) or "fan" (fanotify), per group
  FanFlags,     \* what a fanotify group reports: SUBSET {"fid","dirfid","name","target"}
  Dir, NIno,    \* the directory and the inode numbers of files
  NName,        \* names in the directory
  Masks,        \* the watch masks used: a sequence of [mask, oneshot, excl, add]
  Marks,        \* the fanotify marks used: records [op, on, mask, ignore, surv, evict]
  MAX_QUEUED,   \* INOTIFY_MAX_QUEUED_EVENTS, MAX_QUEUED_EVENTS
  ReadCap,      \* records that fit the reader's buffer
  MaxNCalls,    \* bound: calls made
  MaxNSignals,  \* bound: signals sent to readers
  NoIno, NoName

VARIABLES
  link,         \* name -> inode number, NoIno when the name is free
  handle,       \* the file each thread has open, NoIno if none
  grp,          \* the groups
  unlinked,     \* INOTIFY_UNLINKED_NODES
  named,        \* INOTIFY_NODE_NAMES and FANOTIFY_NODE_NAMES
  ncall,        \* the call each thread is in
  nAsleep,      \* threads blocked
  nWoken,       \* pollers whose PollWaiter was notified
  nSignal,      \* threads with an interrupting signal pending
  nSignals, ncalls,
  lost          \* history: groups that dropped an event since their reader
                \* last took an overflow record

nVars == <<link, handle, grp, unlinked, named, ncall, nAsleep, nWoken, nSignal,
           nSignals, ncalls, lost>>

Dirents == {"create", "delete", "from", "to"}
Selfs == {"deleteself", "moveself"}

\* A queued record. An inotify record uses id (the watch descriptor), mask,
\* name and cookie; a fanotify record everything but id and cookie.
Record == [id |-> 0, mask |-> {}, name |-> NoName, cookie |-> FALSE, pid |-> NoName,
           node |-> NoIno, child |-> NoIno, self |-> FALSE, source |-> NoIno]
Overflow == [Record EXCEPT !.mask = {"overflow"}]

NoGroup == [fd |-> FALSE, users |-> {}, closed |-> FALSE, watches |-> <<>>, nextWd |-> 1,
            marks |-> <<>>, events |-> <<>>, over |-> FALSE, readers |-> {}, pollers |-> {}]

Idle == [op |-> "none", at |-> "idle", jobs |-> <<>>, todo |-> <<>>, wake |-> {},
         node |-> NoIno, other |-> NoIno, name |-> NoName, name2 |-> NoName,
         grp |-> NoName, mask |-> 0, got |-> 0]

NInit ==
  /\ link = [n \in NName |-> NoIno]
  /\ handle = [t \in NThread |-> NoIno]
  /\ grp = [g \in Group |-> NoGroup]
  /\ unlinked = {}
  /\ named = [a \in {"in", "fan"} |-> [i \in NIno |-> NoName]]
  /\ ncall = [t \in NThread |-> Idle]
  /\ nAsleep = {} /\ nWoken = {} /\ nSignal = {}
  /\ nSignals = 0 /\ ncalls = 0 /\ lost = {}

\* The file behind a group: an fd, or a read in progress, holds the Arc.
Live(g) == grp[g].fd \/ grp[g].users # {}
LiveGroups(kind) == {g \in Group : GroupKind[g] = kind /\ Live(g)}

\* Inode numbers somebody holds: a name, an open file or O_PATH handle, the
\* source of a queued fanotify record.
Held ==
  {link[n] : n \in NName} \cup {handle[t] : t \in NThread}
    \cup UNION {{ncall[t].node, ncall[t].other} : t \in NThread}
    \cup UNION {{r.source : r \in ToSet(grp[g].events)} : g \in Group}

-----------------------------------------------------------------------------
(* Queues. *)

\* Appending under a group's lock: `same` is the position of a record the new
\* one is merged with, 0 if there is none.
Enqueued(G, r, same) ==
  IF same # 0
  THEN [G EXCEPT !.events[same].mask = @ \cup r.mask,
                 !.events[same].source = IF @ = NoIno THEN r.source ELSE @]
  ELSE IF Len(G.events) < MAX_QUEUED THEN [G EXCEPT !.events = Append(@, r)]
  ELSE IF G.over THEN G
  ELSE [G EXCEPT !.events = Append(@, Overflow), !.over = TRUE]

\* The record is gone; nothing was queued or merged, so nobody is woken.
Dropped(G, same) == same = 0 /\ Len(G.events) >= MAX_QUEUED
Told(G, same) == same # 0 \/ Len(G.events) < MAX_QUEUED \/ ~G.over

\* enqueue_event_locked: a record equal to the last one is dropped. Two moves
\* have different cookies, so their records are never equal.
SameIn(G, r) ==
  IF G.events # <<>> /\ Last(G.events) = r /\ ~r.cookie THEN Len(G.events) ELSE 0

\* FanotifyGroup::enqueue_event: the record it may be merged with.
SameFan(G, r) ==
  LET fits == {i \in DOMAIN G.events :
                 /\ G.events[i].mask # {"overflow"}
                 /\ \A f \in {"pid", "node", "child", "name", "self"} : G.events[i][f] = r[f]}
      pastTail == r.name = NoName
                    \/ r.mask \cap ({"closewrite"} \cup Dirents \cup Selfs) # {}
      cands == IF pastTail THEN fits ELSE fits \cap {Len(G.events)}
  IN IF cands = {} THEN 0 ELSE CHOOSE i \in cands : \A j \in cands : j <= i

Added(acc, r, same) ==
  [G |-> Enqueued(acc.G, r, same), drop |-> acc.drop \/ Dropped(acc.G, same),
   told |-> acc.told \/ Told(acc.G, same)]
Nothing(G) == [G |-> G, drop |-> FALSE, told |-> FALSE]

\* Several inotify records in a row.
EnqueueAll(G, rs) ==
  FoldLeft(LAMBDA acc, r : Added(acc, r, SameIn(acc.G, r)), Nothing(G), rs)

\* The waiters of a group, taken under its lock and woken after it.
Waiters(G) == G.readers \cup G.pollers
Drained(G) == [G EXCEPT !.readers = {}, !.pollers = {}]

-----------------------------------------------------------------------------
(* inotify groups. *)

Ignored(wd) == [Record EXCEPT !.id = wd, !.mask = {"ignored"}]

Without(G, wds) == [G EXCEPT !.watches = SelectSeq(@, LAMBDA w : w.wd \notin wds)]

\* InotifyGroup::add_watch
Watched(G, node, m) ==
  LET at == {i \in DOMAIN G.watches : G.watches[i].node = node}
  IN IF at # {}
     THEN LET i == CHOOSE i \in at : TRUE
          IN [G EXCEPT !.watches[i] =
                IF m.add THEN [@ EXCEPT !.mask = @ \cup m.mask, !.excl = @ \/ m.excl,
                                        !.oneshot = @ \/ m.oneshot]
                         ELSE [@ EXCEPT !.mask = m.mask, !.excl = m.excl,
                                        !.oneshot = m.oneshot]]
     ELSE [G EXCEPT !.nextWd = @ + 1,
                    !.watches = Append(@, [wd |-> G.nextWd, node |-> node, mask |-> m.mask,
                                           excl |-> m.excl, oneshot |-> m.oneshot])]

\* The watches of a group an event reaches (publish).
Hits(G, j) ==
  SelectSeq(G.watches, LAMBDA w :
    LET direct == j.act # "child" /\ w.node = j.node
        child == j.act # "self" /\ w.node = Dir
    IN /\ direct \/ child
       /\ ~(child /\ w.excl /\ j.node \in unlinked)
       /\ w.mask \cap j.ev # {})

InRecord(w, j) ==
  [Record EXCEPT !.id = w.wd, !.mask = j.ev, !.cookie = j.cookie,
                 !.name = IF w.node = Dir /\ j.act # "self" THEN j.name ELSE NoName]

\* IN_ONESHOT watches are removed after the event, with an IN_IGNORED record.
OneShots(hits) == {w.wd : w \in {w \in ToSet(hits) : w.oneshot}}

\* InotifyGroup::publish
PublishIn(G, j) ==
  LET hits == Hits(G, j)
      gone == SelectSeq(hits, LAMBDA w : w.wd \in OneShots(hits))
  IN EnqueueAll(Without(G, OneShots(hits)),
       [i \in DOMAIN hits |-> InRecord(hits[i], j)]
         \o [i \in DOMAIN gone |-> Ignored(gone[i].wd)])

\* remove_matching_watches, remove_watch: IN_IGNORED for every watch removed.
Unwatched(G, wds) ==
  LET gone == SelectSeq(G.watches, LAMBDA w : w.wd \in wds)
  IN EnqueueAll(Without(G, wds), [i \in DOMAIN gone |-> Ignored(gone[i].wd)])

-----------------------------------------------------------------------------
(* fanotify groups. *)

\* FanotifyMarkTarget::applies_to; the mark on the file system applies to all.
Applies(on, mask, j) ==
  \/ on = NoIno
  \/ on = j.node
  \/ "child" \in mask /\ j.parent = on

\* event_bits_for_mark
EventBits(m, mask, j) ==
  IF ~Applies(m.on, mask, j) \/ (j.ev \cap Selfs # {} /\ m.on \notin {NoIno, j.node})
  THEN {} ELSE j.ev \cap mask

\* A modification ends an ignore mask that is not to survive it.
AfterModify(m, j) ==
  IF "modify" \in j.ev /\ m.ignored # {} /\ ~m.surv /\ Applies(m.on, m.mask \cup m.ignored, j)
  THEN [m EXCEPT !.ignored = {}] ELSE m

Emitted(G, flags, j) ==
  LET bits(f) == UNION {EventBits(G.marks[i], G.marks[i][f], j) : i \in DOMAIN G.marks}
      out == bits("mask") \ bits("ignored")
  IN IF "fid" \in flags THEN out ELSE out \ Selfs

FanRecord(flags, j, bits, t) ==
  LET dirent == j.ev \cap Dirents # {}
      self == j.ev \cap Selfs # {}
  IN [Record EXCEPT
        !.mask = bits, !.pid = t, !.self = self,
        !.node = IF dirent THEN Dir
                 ELSE IF "dirfid" \in flags /\ ~self THEN Dir ELSE j.node,
        !.child = IF dirent THEN (IF "target" \in flags THEN j.file ELSE NoIno)
                  ELSE IF ~self /\ {"fid", "dirfid"} \subseteq flags THEN j.file ELSE NoIno,
        !.name = IF "name" \in flags /\ ~self THEN j.name ELSE NoName,
        !.source = IF dirent \/ self THEN NoIno ELSE j.file]

\* FanotifyGroup::publish
PublishFan(G, flags, j, t) ==
  LET bits == Emitted(G, flags, j)
      marked == [G EXCEPT !.marks = [i \in DOMAIN @ |-> AfterModify(@[i], j)]]
      r == FanRecord(flags, j, bits, t)
  IN IF G.closed THEN Nothing(G)
     ELSE IF bits = {} THEN Nothing(marked)
     ELSE Added(Nothing(marked), r, SameFan(marked, r))

\* update_mark
Marked(G, k) ==
  LET at == {i \in DOMAIN G.marks : G.marks[i].on = k.on}
      i == CHOOSE i \in at : TRUE
      field == IF k.ignore THEN "ignored" ELSE "mask"
      less == [G.marks[i] EXCEPT ![field] = @ \ k.mask]
  IN CASE k.op = "flush" -> [G EXCEPT !.marks = <<>>]
       [] k.op = "add" /\ at = {} ->
            [G EXCEPT !.marks = Append(@,
               [on |-> k.on, mask |-> IF k.ignore THEN {} ELSE k.mask,
                ignored |-> IF k.ignore THEN k.mask ELSE {}, surv |-> k.surv, evict |-> k.evict])]
       [] k.op = "add" /\ at # {} /\ k.evict /\ ~G.marks[i].evict -> G
       [] k.op = "add" /\ at # {} /\ (k.evict => G.marks[i].evict) ->
            [G EXCEPT !.marks[i] = [[@ EXCEPT ![field] = @ \cup k.mask]
                                     EXCEPT !.evict = k.evict, !.surv = @ \/ k.surv]]
       [] k.op = "remove" /\ at = {} -> G
       [] k.op = "remove" /\ at # {} ->
            IF less.mask = {} /\ less.ignored = {}
            THEN [G EXCEPT !.marks = SelectSeq(@, LAMBDA m : m.on # k.on)]
            ELSE [G EXCEPT !.marks[i] = less]

\* FanotifyGroup::close
Closed(G) ==
  [Drained(G) EXCEPT !.closed = TRUE, !.marks = <<>>, !.over = FALSE, !.events = <<>>]

-----------------------------------------------------------------------------
(* Publishing. *)

Job(api, act, ev, file, name) ==
  [api |-> api, act |-> act, ev |-> ev, file |-> file, name |-> name, cookie |-> FALSE,
   node |-> IF api = "fan" /\ act = "child" THEN Dir ELSE file,
   parent |-> IF api = "fan" /\ act = "child" THEN NoIno ELSE Dir, skip |-> 0]
Prelude(act, file, skip) == [Job("in", act, {}, file, NoName) EXCEPT !.skip = skip]
Cookie(j) == [j EXCEPT !.cookie = TRUE]

FileEvents(ev, i, n) == <<Job("fan", "file", ev, i, n), Job("in", "file", ev, i, n)>>

CreateEvents(i, n) ==
  <<Job("fan", "child", {"create"}, i, n), Prelude("linked", i, 1),
    Job("in", "child", {"create"}, i, n)>>

DeleteEvents(i, n) ==
  <<Job("fan", "child", {"delete"}, i, n), Job("fan", "self", {"deleteself"}, i, n),
    Prelude("unlinked", i, 4), Job("in", "child", {"delete"}, i, n),
    Job("in", "self", {"attrib"}, i, NoName), Job("in", "self", {"deleteself"}, i, NoName),
    Job("in", "forget", {}, i, NoName)>>

MoveEvents(i, n, i2, n2) ==
  <<Job("fan", "child", {"from"}, i, n), Job("fan", "child", {"to"}, i2, n2),
    Job("fan", "self", {"moveself"}, i2, n2),
    Cookie(Job("in", "child", {"from"}, i, n)), Cookie(Job("in", "child", {"to"}, i2, n2)),
    Job("in", "self", {"moveself"}, i, NoName), Job("in", "self", {"moveself"}, i2, NoName)>>

Set(t, c) == ncall' = [ncall EXCEPT ![t] = c]

\* The wake-ups a lock section leaves to do once the lock is released.
Wake(t) ==
  LET c == ncall[t] IN
  /\ c.wake # {}
  /\ nAsleep' = nAsleep \ c.wake
  /\ nWoken' = nWoken \cup {u \in c.wake : ncall[u].op = "poll"}
  /\ Set(t, [c EXCEPT !.wake = {}])
  /\ UNCHANGED <<link, handle, grp, unlinked, named, nSignal, nSignals, ncalls, lost>>

\* mark_node_unlinked and clear_node_unlinked
NowUnlinked(j) ==
  IF j.act = "unlinked" THEN unlinked \cup {j.file}
  ELSE IF j.act = "linked" THEN unlinked \ {j.file} ELSE unlinked

\* publish_file_event, publish_child_event, publish_self_event and their
\* fanotify twins: the groups alive now are the ones that are told. A file
\* event without a path takes the name remembered for the node. The preludes
\* of inotify_notify_create and inotify_notify_delete give up without groups.
StartJob(t) ==
  LET c == ncall[t]
      j == Head(c.jobs)
      live == LiveGroups(j.api)
      remembers == live # {} /\ j.name # NoName
  IN /\ c.at = "publish" /\ c.wake = {} /\ c.todo = <<>> /\ c.jobs # <<>>
     /\ unlinked' = IF live = {} THEN unlinked ELSE NowUnlinked(j)
     /\ named' = IF remembers THEN [named EXCEPT ![j.api][j.file] = j.name] ELSE named
     /\ Set(t, IF live = {} \/ j.act \in {"unlinked", "linked"}
               THEN [c EXCEPT !.jobs = SubSeq(@, 2 + (IF live = {} THEN j.skip ELSE 0), Len(@))]
               ELSE [c EXCEPT !.todo = SetToSeq(live),
                              !.jobs = IF j.act = "file" /\ j.name = NoName
                                       THEN [@ EXCEPT ![1].name = named[j.api][j.file]] ELSE @])
     /\ UNCHANGED <<link, handle, grp, nAsleep, nWoken, nSignal, nSignals, ncalls, lost>>

\* One group of the job, under its lock; a group that queued something loses
\* its waiters to this thread.
Publish(t) ==
  LET c == ncall[t]
      j == Head(c.jobs)
      g == Head(c.todo)
      told == IF j.api = "fan" THEN PublishFan(grp[g], FanFlags[g], j, t)
              ELSE IF j.act = "forget"
                   THEN Unwatched(grp[g], {w.wd : w \in {w \in ToSet(grp[g].watches) : w.node = j.file}})
                   ELSE PublishIn(grp[g], j)
  IN /\ c.at = "publish" /\ c.wake = {} /\ c.todo # <<>>
     /\ \E out \in {told} :
          /\ grp' = [grp EXCEPT ![g] = IF out.told THEN Drained(out.G) ELSE out.G]
          /\ lost' = IF out.drop THEN lost \cup {g} ELSE lost
          /\ Set(t, [c EXCEPT !.todo = Tail(@), !.wake = IF out.told THEN Waiters(grp[g]) ELSE {},
                              !.jobs = IF Len(c.todo) = 1 THEN Tail(@) ELSE @])
     /\ UNCHANGED <<link, handle, unlinked, named, nAsleep, nWoken, nSignal, nSignals, ncalls>>

Finish(t) ==
  LET c == ncall[t] IN
  /\ c.at = "publish" /\ c.wake = {} /\ c.todo = <<>> /\ c.jobs = <<>>
  /\ handle' = IF c.op = "close" THEN [handle EXCEPT ![t] = NoIno] ELSE handle
  /\ Set(t, Idle)
  /\ UNCHANGED <<link, grp, unlinked, named, nAsleep, nWoken, nSignal, nSignals, ncalls, lost>>

-----------------------------------------------------------------------------
(* Calls on files. *)

May(t, op) ==
  /\ ncall[t] = Idle /\ op \in NOps[t] /\ ncalls < MaxNCalls
  /\ ncalls' = ncalls + 1
Enter(t, op, c) == May(t, op) /\ Set(t, [c EXCEPT !.op = op])
Quick(t, op) == May(t, op) /\ UNCHANGED ncall

Publishing(c, jobs) == [c EXCEPT !.at = "publish", !.jobs = jobs]

\* openat with O_CREAT, of a name that is free
Create(t) == \E n \in NName, i \in NIno \ Held :
  /\ handle[t] = NoIno /\ link[n] = NoIno
  /\ Enter(t, "create", Publishing([Idle EXCEPT !.node = i],
             CreateEvents(i, n) \o FileEvents({"open"}, i, n)))
  /\ link' = [link EXCEPT ![n] = i]
  /\ handle' = [handle EXCEPT ![t] = i]
  /\ UNCHANGED <<grp, unlinked, named, nAsleep, nWoken, nSignal, nSignals, lost>>

\* openat of a name that exists
Open(t) == \E n \in NName :
  /\ handle[t] = NoIno /\ link[n] # NoIno
  /\ Enter(t, "open", Publishing([Idle EXCEPT !.node = link[n]],
                                 FileEvents({"open"}, link[n], n)))
  /\ handle' = [handle EXCEPT ![t] = link[n]]
  /\ UNCHANGED <<link, grp, unlinked, named, nAsleep, nWoken, nSignal, nSignals, lost>>

\* write, fchmod and close of the open file
Use(t) == \E op \in {"write", "chmod", "close"} :
  /\ handle[t] # NoIno
  /\ Enter(t, op, Publishing(Idle, FileEvents(
       {CASE op = "write" -> "modify" [] op = "chmod" -> "attrib" [] OTHER -> "closewrite"},
       handle[t], NoName)))
  /\ UNCHANGED <<link, handle, grp, unlinked, named, nAsleep, nWoken, nSignal, nSignals, lost>>

\* unlinkat and renameat2 open an O_PATH handle for the notification first.
Handle(t) == \E op \in {"unlink", "rename"}, n, n2 \in NName :
  /\ (op = "rename") = (n # n2)
  /\ Enter(t, op, [Idle EXCEPT !.at = op, !.node = link[n], !.name = n, !.name2 = n2])
  /\ UNCHANGED <<link, handle, grp, unlinked, named, nAsleep, nWoken, nSignal, nSignals, lost>>

Unlink(t) ==
  LET c == ncall[t] IN
  /\ c.at = "unlink"
  /\ link' = [link EXCEPT ![c.name] = NoIno]
  /\ Set(t, IF link[c.name] = NoIno \/ c.node = NoIno THEN Idle
            ELSE Publishing(c, DeleteEvents(c.node, c.name)))
  /\ UNCHANGED <<handle, grp, unlinked, named, nAsleep, nWoken, nSignal, nSignals, ncalls, lost>>

Rename(t) ==
  LET c == ncall[t] IN
  /\ c.at = "rename"
  /\ IF link[c.name] = NoIno THEN link' = link /\ Set(t, Idle)
     ELSE /\ link' = [link EXCEPT ![c.name] = NoIno, ![c.name2] = link[c.name]]
          /\ Set(t, [c EXCEPT !.at = "renamed"])
  /\ UNCHANGED <<handle, grp, unlinked, named, nAsleep, nWoken, nSignal, nSignals, ncalls, lost>>

\* The handle on the new name decides which node the move is reported for.
Renamed(t) ==
  LET c == ncall[t]
      new == link[c.name2]
  IN /\ c.at = "renamed"
     /\ Set(t, IF c.node = NoIno \/ new = NoIno THEN Idle
               ELSE Publishing([c EXCEPT !.other = new], MoveEvents(c.node, c.name, new, c.name2)))
     /\ UNCHANGED <<link, handle, grp, unlinked, named, nAsleep, nWoken, nSignal, nSignals, ncalls, lost>>

-----------------------------------------------------------------------------
(* Calls on groups. *)

\* sys_inotify_init1, sys_fanotify_init
InitGroup(t) == \E g \in Group :
  /\ ~Live(g) /\ \A u \in NThread : g \notin ToSet(ncall[u].todo) /\ ncall[u].grp # g
  /\ Quick(t, "init")
  /\ grp' = [grp EXCEPT ![g] = [NoGroup EXCEPT !.fd = TRUE]]
  /\ lost' = lost \ {g}
  /\ UNCHANGED <<link, handle, unlinked, named, nAsleep, nWoken, nSignal, nSignals>>

\* sys_inotify_add_watch: the lookup, then the watch
AddLook(t) == \E g \in Group, n \in NName \cup {NoName}, m \in DOMAIN Masks :
  LET i == IF n = NoName THEN Dir ELSE link[n] IN
  /\ grp[g].fd /\ GroupKind[g] = "in" /\ i # NoIno
  /\ Enter(t, "add", [Idle EXCEPT !.at = "add", !.grp = g, !.node = i, !.name = n, !.mask = m])
  /\ UNCHANGED <<link, handle, grp, unlinked, named, nAsleep, nWoken, nSignal, nSignals, lost>>

AddPut(t) ==
  LET c == ncall[t] IN
  /\ c.at = "add"
  /\ grp' = [grp EXCEPT ![c.grp] = Watched(@, c.node, Masks[c.mask])]
  /\ named' = IF c.node = Dir THEN named ELSE [named EXCEPT !["in"][c.node] = c.name]
  /\ Set(t, Idle)
  /\ UNCHANGED <<link, handle, unlinked, nAsleep, nWoken, nSignal, nSignals, ncalls, lost>>

MutRmWaiters(G) == {}

\* remove_watch takes the waiters whatever became of its record.
RmWaiters(G) == Waiters(G)

\* sys_inotify_rm_watch
RmWatch(t) == \E g \in Group : \E w \in ToSet(grp[g].watches) :
  LET out == Unwatched(grp[g], {w.wd}) IN
  /\ grp[g].fd
  /\ Enter(t, "rm", [Publishing(Idle, <<>>) EXCEPT !.wake = RmWaiters(grp[g])])
  /\ grp' = [grp EXCEPT ![g] = [out.G EXCEPT !.readers = @ \ RmWaiters(grp[g]),
                                             !.pollers = @ \ RmWaiters(grp[g])]]
  /\ lost' = IF out.drop THEN lost \cup {g} ELSE lost
  /\ UNCHANGED <<link, handle, unlinked, named, nAsleep, nWoken, nSignal, nSignals>>

\* sys_fanotify_mark
Mark(t) == \E g \in Group, k \in Marks :
  /\ grp[g].fd /\ GroupKind[g] = "fan"
  /\ Quick(t, "mark")
  /\ grp' = [grp EXCEPT ![g] = Marked(@, k)]
  /\ UNCHANGED <<link, handle, unlinked, named, nAsleep, nWoken, nSignal, nSignals, lost>>

\* fanotify_evict_evictable_marks, from a write to drop_caches
Evict(t) ==
  /\ Quick(t, "evict")
  /\ grp' = [g \in Group |-> [grp[g] EXCEPT !.marks = SelectSeq(@, LAMBDA m : ~m.evict)]]
  /\ UNCHANGED <<link, handle, unlinked, named, nAsleep, nWoken, nSignal, nSignals, lost>>

\* The file is dropped with its last reference; a fanotify file closes its group.
FileDropped(g, G) ==
  IF GroupKind[g] = "fan" /\ ~G.fd /\ G.users = {} /\ ~G.closed THEN Closed(G) ELSE G

\* close, and the close of process teardown, which closes a fanotify group
\* even while a read still holds its file.
CloseGroup(t) == \E g \in Group, op \in {"closegroup", "exit"} :
  LET G == [grp[g] EXCEPT !.fd = FALSE]
      forced == op = "exit" /\ GroupKind[g] = "fan" /\ ~G.closed
  IN /\ grp[g].fd
     /\ Enter(t, op, [Publishing(Idle, <<>>) EXCEPT !.wake = IF forced THEN Waiters(G) ELSE {}])
     /\ grp' = [grp EXCEPT ![g] = IF forced THEN Closed(G) ELSE FileDropped(g, G)]
     /\ lost' = IF grp'[g].closed THEN lost \ {g} ELSE lost
     /\ UNCHANGED <<link, handle, unlinked, named, nAsleep, nWoken, nSignal, nSignals>>

\* read and poll hold the group's file.
EnterWait(t) == \E g \in Group, op \in {"read", "poll"} :
  /\ grp[g].fd
  /\ Enter(t, op, [Idle EXCEPT !.at = op, !.grp = g])
  /\ grp' = [grp EXCEPT ![g].users = @ \cup {t}]
  /\ nWoken' = nWoken \ {t}
  /\ UNCHANGED <<link, handle, unlinked, named, nAsleep, nSignal, nSignals, lost>>

Returned(t, g, G) == FileDropped(g, [G EXCEPT !.users = @ \ {t}, !.pollers = @ \ {t}])

\* read_events, first loop: sleep while there is nothing to read
ReadWait(t) ==
  LET c == ncall[t]
      G == grp[c.grp]
      go == G.closed \/ G.events # <<>> \/ t \in nSignal
  IN /\ c.at = "read" /\ t \notin nAsleep
     /\ Set(t, IF go THEN [c EXCEPT !.at = "pop"] ELSE c)
     /\ grp' = IF go THEN grp ELSE [grp EXCEPT ![c.grp].readers = @ \cup {t}]
     /\ nAsleep' = IF go THEN nAsleep ELSE nAsleep \cup {t}
     /\ UNCHANGED <<link, handle, unlinked, named, nWoken, nSignal, nSignals, ncalls, lost>>

\* One record taken; the overflow record may be queued again afterwards.
Popped(G) == [G EXCEPT !.events = Tail(@),
                       !.over = IF Head(G.events) = Overflow THEN FALSE ELSE @]

\* read_events, second loop: records are taken while they fit
ReadPop(t) ==
  LET c == ncall[t]
      G == grp[c.grp]
      more == G.events # <<>> /\ c.got < ReadCap
  IN /\ c.at = "pop"
     /\ Set(t, IF more THEN [c EXCEPT !.got = @ + 1] ELSE Idle)
     /\ grp' = [grp EXCEPT ![c.grp] = IF more THEN Popped(@) ELSE Returned(t, c.grp, @)]
     /\ lost' = IF more /\ Head(G.events) = Overflow THEN lost \ {c.grp}
                ELSE IF grp'[c.grp].closed THEN lost \ {c.grp} ELSE lost
     /\ nSignal' = IF more THEN nSignal ELSE nSignal \ {t}
     /\ UNCHANGED <<link, handle, unlinked, named, nAsleep, nWoken, nSignals, ncalls>>

\* poll_with_wait: register and look under the group's lock
PollLook(t) ==
  LET c == ncall[t]
      G == grp[c.grp]
      ready == G.closed \/ G.events # <<>> \/ t \in nSignal
  IN /\ c.at = "poll" /\ t \notin nAsleep
     /\ nWoken' = nWoken \ {t}
     /\ IF ready
        THEN /\ grp' = [grp EXCEPT ![c.grp] = Returned(t, c.grp, @)]
             /\ Set(t, Idle)
             /\ nSignal' = nSignal \ {t}
             /\ lost' = IF grp'[c.grp].closed THEN lost \ {c.grp} ELSE lost
        ELSE /\ grp' = [grp EXCEPT ![c.grp].pollers = @ \cup {t}]
             /\ Set(t, [c EXCEPT !.at = "doze"])
             /\ UNCHANGED <<nSignal, lost>>
     /\ UNCHANGED <<link, handle, unlinked, named, nAsleep, nSignals, ncalls>>

\* The poller sleeps unless its PollWaiter was notified or a signal came.
PollDoze(t) ==
  LET c == ncall[t]
      go == t \in nWoken \/ t \in nSignal
  IN /\ c.at = "doze" /\ t \notin nAsleep
     /\ nAsleep' = IF go THEN nAsleep ELSE nAsleep \cup {t}
     /\ Set(t, IF go THEN [c EXCEPT !.at = "poll"] ELSE c)
     /\ UNCHANGED <<link, handle, grp, unlinked, named, nWoken, nSignal, nSignals, ncalls, lost>>

Interrupt(t) ==
  /\ ncall[t].op \in {"read", "poll"} /\ t \notin nSignal /\ nSignals < MaxNSignals
  /\ nSignal' = nSignal \cup {t} /\ nSignals' = nSignals + 1
  /\ nAsleep' = nAsleep \ {t}
  /\ UNCHANGED <<link, handle, grp, unlinked, named, ncall, nWoken, ncalls, lost>>

NNext == \E t \in NThread :
  \/ Wake(t) \/ StartJob(t) \/ Publish(t) \/ Finish(t)
  \/ Create(t) \/ Open(t) \/ Use(t) \/ Handle(t) \/ Unlink(t) \/ Rename(t) \/ Renamed(t)
  \/ InitGroup(t) \/ AddLook(t) \/ AddPut(t) \/ RmWatch(t) \/ Mark(t) \/ Evict(t)
  \/ CloseGroup(t) \/ EnterWait(t) \/ ReadWait(t) \/ ReadPop(t) \/ PollLook(t)
  \/ PollDoze(t) \/ Interrupt(t)

NSpec == NInit /\ [][NNext]_nVars

-----------------------------------------------------------------------------
(* Properties. *)

\* A thread asleep in read or poll of a group has nothing to return for: the
\* queue is empty, the group open and the thread registered, or the wake-up is
\* on its way. (publish and remove_watch take the waiters under the lock that
\* queues the record and wake them after it; close does the same.)
NotifySleepersMustWait ==
  \A t \in nAsleep :
    \/ \E u \in NThread : t \in ncall[u].wake
    \/ LET G == grp[ncall[t].grp] IN
       /\ G.events = <<>> /\ ~G.closed
       /\ t \in (IF ncall[t].op = "read" THEN G.readers ELSE G.pollers)

\* A group that dropped a record since its reader last took an overflow record
\* has one queued: no loss goes unreported, however often the queue fills up
\* and is drained again.
LossReported ==
  \A g \in Group :
    /\ g \in lost /\ Live(g) => Overflow \in ToSet(grp[g].events)
    /\ grp[g].over <=> Overflow \in ToSet(grp[g].events)
    /\ Len(grp[g].events) <= MAX_QUEUED + 1

\* IN_IGNORED is the last record of a watch descriptor: nothing follows it in
\* the queue and no watch in place has had it.
IgnoredIsLast ==
  \A g \in Group : \A i \in DOMAIN grp[g].events :
    grp[g].events[i].mask = {"ignored"} =>
      /\ \A j \in (i + 1)..Len(grp[g].events) : grp[g].events[j].id # grp[g].events[i].id
      /\ \A w \in ToSet(grp[g].watches) : w.wd # grp[g].events[i].id

\* A file watch is on a file that has a name, unless its unlink is still being
\* published: inotify_notify_delete leaves no watch on a number the file system
\* may give to another file.
WatchesOnLinked ==
  \A g \in Group : \A w \in ToSet(grp[g].watches) :
    \/ w.node \in {Dir} \cup {link[n] : n \in NName}
    \/ \E t \in NThread : ncall[t].op = "unlink" /\ ncall[t].node = w.node

\* A number marked unlinked (IN_EXCL_UNLINK watches then skip its events) has
\* no name, unless the create that reused it is still being published.
UnlinkedIsDead ==
  \A i \in unlinked :
    \/ i \notin {link[n] : n \in NName}
    \/ \E t \in NThread : ncall[t].op = "create" /\ ncall[t].node = i

=============================================================================
