------------------------------- MODULE Mounts -------------------------------
(* The dynamic mount table of os/src/fs/mount.rs: mount, bind, move, umount,  *)
(* propagation between shared and slave mounts, mount namespaces, the         *)
(* snapshot that path lookup reads, and the table of mounted filesystems.     *)
(*                                                                            *)
(* A path is the sequence of its components, a node is a filesystem and a     *)
(* directory of it.  The components of the model have one length, so the      *)
(* length of a path string orders paths as its number of components does.     *)
(* A lookup walks in one step; `..`, symbolic links, static mounts, mount     *)
(* flags and the compatibility tables (nfs, ext scratch) are left out.        *)
EXTENDS Naturals, Sequences, FiniteSets, SequencesExt

CONSTANTS MntThread,   \* processes, one thread each
          MntOps,      \* the calls each of them makes
          Tree,        \* directories of the root filesystem, mount id 0
          Sub,         \* directories of every other filesystem
          MntPaths,    \* the paths that calls name
          Devices,     \* mount ids 1..Devices are block devices
          MaxMntOps,   \* bound on calls
          NoMntThread

VARIABLES table,         \* DYNAMIC_MOUNTS
          fast,          \* DYNAMIC_MOUNTS_FAST
          expirePending, \* DYNAMIC_MOUNT_EXPIRE_PENDING_COUNT
          fastWriter,    \* holder of DYNAMIC_MOUNTS_FAST_WRITER
          fsLive,        \* the mount ids with a MountedFs in MOUNTS
          ids,           \* NEXT_MOUNT_ID, _NAMESPACE_ID, _PROPAGATION_GROUP, _EVENT_ID
          mcwd,          \* the working directory of each process
          mns,           \* the mount namespace of each process
          mnt,           \* the call each process is in
          mntOps,        \* calls begun
          touched,       \* mounts looked up since the call that marked them to expire returned
          expiredBusy    \* such a mount was unmounted by MNT_EXPIRE

mountVars == <<table, fast, expirePending, fastWriter, fsLive, ids, mcwd, mns, mnt, mntOps,
               touched, expiredBusy>>

-----------------------------------------------------------------------------
(* Paths and the search operators on a table.                                *)

\* the empty propagation_parent_path
NoPath == <<"">>

\* path_suffix is Some
Under(base, path) == path # NoPath /\ IsPrefix(base, path)

Suffix(base, path) == SubSeq(path, Len(base) + 1, Len(path))

NoMount == [ns |-> 0, target |-> <<0, NoPath>>, source |-> 0, root |-> <<0, NoPath>>,
            spath |-> NoPath, tpath |-> NoPath, bind |-> FALSE, rec |-> FALSE, event |-> 0,
            ppath |-> NoPath, pgroup |-> 0, prop |-> "private", peer |-> 0, master |-> 0,
            uncloned |-> {}, expires |-> FALSE]

\* iter().rev().find(..)
LastThat(ms, Test(_)) ==
  LET I == {i \in DOMAIN ms : Test(ms[i])}
  IN  IF I = {} THEN 0 ELSE CHOOSE i \in I : \A j \in I : j <= i

\* filter(..).max_by_key(|mount| mount.target_path.len()), which keeps the last maximum
LongestThat(ms, Test(_)) ==
  LET I == {i \in DOMAIN ms : Test(ms[i])}
      Below(j, i) == \/ Len(ms[j].tpath) < Len(ms[i].tpath)
                     \/ Len(ms[j].tpath) = Len(ms[i].tpath) /\ j <= i
  IN  IF I = {} THEN NoMount ELSE ms[CHOOSE i \in I : \A j \in I : Below(j, i)]

\* mount_blocks_uncloned_subtree
BlocksUncloned(m, p) == \E s \in m.uncloned : Under(m.tpath \o s, p)

\* nearest_propagation_mount, propagation_parent_for_new_mount
Nearest(ms, n, p) ==
  LongestThat(ms, LAMBDA m : m.ns = n /\ Under(m.tpath, p) /\ ~BlocksUncloned(m, p))

\* propagation_parent_for_existing_mount
ParentOfExisting(ms, n, p) ==
  LongestThat(ms, LAMBDA m : m.ns = n /\ m.tpath # p /\ Under(m.tpath, p))

\* top_mount_at_path
TopAt(ms, n, p) ==
  LET i == LastThat(ms, LAMBDA m : m.ns = n /\ m.tpath = p) IN IF i = 0 THEN NoMount ELSE ms[i]

IsShared(m) == m.prop = "shared" /\ m.peer # 0

-----------------------------------------------------------------------------
(* Propagation of a mount.  A working value [ms, next] is the table and the   *)
(* next propagation group.                                                    *)

\* record_propagation_parent
WithParent(e, parent) ==
  IF parent.peer # 0 THEN [e EXCEPT !.ppath = parent.tpath, !.pgroup = parent.peer]
  ELSE [e EXCEPT !.ppath = NoPath, !.pgroup = 0]

\* initialize_propagation_from_parent
FromParent(e, parent, next) ==
  LET p == WithParent([e EXCEPT !.prop = "private", !.peer = 0, !.master = 0], parent)
  IN  IF IsShared(parent) THEN [m |-> [p EXCEPT !.prop = "shared", !.peer = next], next |-> next + 1]
      ELSE [m |-> p, next |-> next]

\* copy_bind_propagation_from_source
FromSource(e, s) ==
  IF s.master # 0 /\ s.peer # 0
  THEN [e EXCEPT !.prop = "slave", !.peer = 0, !.master = s.peer]
  ELSE [e EXCEPT !.prop = s.prop, !.peer = s.peer, !.master = s.master]

\* propagated_target_base
TargetBase(source, peer) ==
  IF source.bind /\ source.spath # source.tpath /\ Under(peer.tpath, source.spath)
  THEN source.spath ELSE peer.tpath

SameCopy(m, c) == m.ns = c.ns /\ m.target = c.target /\ m.tpath = c.tpath /\ m.event = c.event

Append1(ms, c) == IF \E i \in DOMAIN ms : SameCopy(ms[i], c) THEN ms ELSE Append(ms, c)

\* one peer of propagate_mount_event; st also has the group map and the queue
ToPeer(st, e, source, suffix, group, peer) ==
  LET base == TargetBase(source, peer)
      path == base \o suffix
      known(g) == IF g \in DOMAIN st.map THEN st.map[g] ELSE 0
      placed == [e EXCEPT !.ns = peer.ns, !.tpath = path, !.ppath = base, !.pgroup = peer.peer,
                          !.target = IF base = peer.tpath /\ suffix = <<>> THEN peer.target ELSE @]
      child == IF known(peer.peer) # 0 THEN known(peer.peer) ELSE st.next
  IN  IF peer.ns = e.ns /\ path = e.tpath THEN st
      ELSE IF peer.peer = group
      THEN [st EXCEPT !.ms = Append1(@, [placed EXCEPT
                                !.prop = "shared", !.peer = st.map[group],
                                !.master = IF e.master # 0 THEN e.master ELSE known(peer.master)])]
      ELSE IF peer.peer # 0
      THEN [ms |-> Append1(st.ms, [placed EXCEPT !.prop = "shared", !.peer = child,
                                                 !.master = st.map[group]]),
            next |-> IF known(peer.peer) # 0 THEN st.next ELSE st.next + 1,
            map |-> (peer.peer :> child) @@ st.map,
            queue |-> IF peer.peer \in ToSet(st.queue) THEN st.queue
                      ELSE Append(st.queue, peer.peer)]
      ELSE [st EXCEPT !.ms = Append1(@, [placed EXCEPT !.prop = "slave", !.peer = 0,
                                                       !.master = st.map[group]])]

\* a mount event stays in its own namespace
MutReceiversOf(ms, e, group) ==
  SelectSeq(ms, LAMBDA m : m.event # e.event /\ m.ns = e.ns /\ (m.peer = group \/ m.master = group))

ReceiversOf(ms, e, group) ==
  SelectSeq(ms, LAMBDA m : m.event # e.event /\ (m.peer = group \/ m.master = group))

RECURSIVE ToGroups(_, _, _, _, _)
ToGroups(st, index, e, source, suffix) ==
  IF index > Len(st.queue) THEN st
  ELSE LET group == st.queue[index]
       IN  ToGroups(FoldLeft(LAMBDA s, peer : ToPeer(s, e, source, suffix, group, peer), st,
                             ReceiversOf(st.ms, e, group)),
                    index + 1, e, source, suffix)

\* propagate_mount_event
Propagate(ms, next, e, source) ==
  IF source.peer = 0 \/ e.peer = 0 \/ ~Under(source.tpath, e.tpath) THEN [ms |-> ms, next |-> next]
  ELSE LET st == ToGroups([ms |-> ms, next |-> next, map |-> source.peer :> e.peer,
                           queue |-> <<source.peer>>],
                          1, e, source, Suffix(source.tpath, e.tpath))
       IN  [ms |-> st.ms, next |-> st.next]

-----------------------------------------------------------------------------
(* Mounting a filesystem.                                                     *)

\* the locked part of mount_block_device_at, mount_new_fs_on_target and
\* mount_pseudo_fs_on_target
Mounted(ms, next, event, n, node, p, source) ==
  LET parent == Nearest(ms, n, p)
      new == FromParent([NoMount EXCEPT !.ns = n, !.target = node, !.source = source,
                                        !.root = <<source, <<>>>>, !.spath = <<"dev">>,
                                        !.tpath = p, !.event = event], parent, next)
  IN  Propagate(Append(ms, new.m), new.next, new.m, parent)

\* one recursive child of mount_bind_at, copied below one root copy
ChildCopy(ms, n, sp, child, root, group) ==
  LET suffix == Suffix(sp, child.tpath)
      c == [child EXCEPT !.tpath = root.tpath \o suffix, !.spath = sp \o suffix]
      ppath == root.tpath \o Suffix(sp, c.ppath)
      above == TopAt(ms, n, ppath)
      near == LongestThat(ms, LAMBDA m : m.ns = n /\ m.peer # 0 /\ Under(m.tpath, c.tpath))
      placed == IF Under(sp, c.ppath)
                THEN [c EXCEPT !.ppath = ppath,
                               !.pgroup = IF above.peer # 0 THEN above.peer ELSE root.peer]
                ELSE IF group # 0 /\ near # NoMount
                THEN [c EXCEPT !.ppath = near.tpath, !.pgroup = near.peer]
                ELSE c
  IN  IF group = 0 THEN placed
      ELSE [placed EXCEPT !.prop = "shared", !.peer = group, !.master = 0]

\* the locked part of mount_bind_at; the refusal of an unbindable source is BindRefused
BindRefused(ms, n, sp) == Nearest(ms, n, sp).prop = "unbindable"

Bound(ms, next0, event, n, node, p, snode, sp, recursive) ==
  LET children == IF recursive
                  THEN SelectSeq(ms, LAMBDA m : m.ns = n /\ m.tpath # sp /\ Under(sp, m.tpath))
                  ELSE <<>>
      uncloned == {Suffix(sp, m.tpath) : m \in {c \in ToSet(children) : c.prop = "unbindable"}}
      parent == Nearest(ms, n, p)
      top == TopAt(ms, n, sp)
      source == IF top # NoMount THEN top ELSE IF sp # p THEN Nearest(ms, n, sp) ELSE NoMount
      e == [NoMount EXCEPT !.ns = n, !.target = node, !.source = snode[1], !.root = snode,
                           !.spath = sp, !.tpath = p, !.bind = TRUE, !.rec = recursive,
                           !.event = event, !.uncloned = uncloned]
      Own(m) == IF m.peer = 0 /\ IsShared(parent)
                THEN [m |-> [m EXCEPT !.peer = next0, !.prop = "shared"], next |-> next0 + 1]
                ELSE [m |-> m, next |-> next0]
      Attached(new) == Propagate(Append(ms, new.m), new.next, new.m, parent)
      Child(st, child, roots) ==
        LET own == Len(roots) > 1 /\ child.peer = 0
            group == IF own THEN st.next ELSE 0
            under == SelectSeq(roots, LAMBDA r : own \/ r.tpath = p)
            Copy(ms1, r) == Append(ms1, ChildCopy(ms1, n, sp, child, r, group))
        IN  IF \E u \in uncloned : Under(u, Suffix(sp, child.tpath)) THEN st
            ELSE [ms |-> FoldLeft(Copy, st.ms, under), next |-> IF own THEN st.next + 1 ELSE st.next]
      Copied(rooted, roots) == FoldLeft(LAMBDA st, child : Child(st, child, roots), rooted, children)
      WithChildren(rooted) ==
        Copied(rooted, SelectSeq(rooted.ms, LAMBDA m : m.ns = n /\ m.event = event))
  IN  WithChildren(Attached(IF source = NoMount THEN FromParent(e, parent, next0)
                            ELSE Own(WithParent(FromSource(e, source), parent))))

-----------------------------------------------------------------------------
(* Moving a mount, and changing how one propagates.                           *)

\* update_moved_tree_parents, for one mount below the new place of the root
MovedParent(ms, n, sp, p, rootGroup, m) ==
  LET near == LongestThat(ms, LAMBDA a : /\ a.ns = n /\ a.tpath # m.tpath /\ a.peer # 0
                                         /\ Under(p, a.tpath) /\ Under(a.tpath, m.tpath))
  IN  IF m.ns # n \/ m.tpath = p \/ ~Under(p, m.tpath) THEN m
      ELSE IF Under(sp, m.ppath) THEN [m EXCEPT !.ppath = p \o Suffix(sp, m.ppath)]
      ELSE IF m.pgroup # 0 THEN m
      ELSE IF near # NoMount THEN [m EXCEPT !.ppath = near.tpath, !.pgroup = near.peer]
      ELSE IF rootGroup # 0 THEN [m EXCEPT !.ppath = p, !.pgroup = rootGroup]
      ELSE m

\* clone_moved_tree_to_propagation_peers, for one peer
MovedTo(ms, tree, root, suffix, peer) ==
  LET place == peer.tpath \o suffix
      Clone(m) ==
        LET c == [m EXCEPT !.ns = peer.ns, !.tpath = place \o Suffix(root.tpath, m.tpath)]
        IN  IF m.tpath = root.tpath THEN [c EXCEPT !.ppath = peer.tpath, !.pgroup = peer.peer]
            ELSE IF Under(root.tpath, m.ppath)
            THEN [c EXCEPT !.ppath = place \o Suffix(root.tpath, m.ppath)]
            ELSE [c EXCEPT !.ppath = place]
  IN  IF peer.ns = root.ns /\ place = root.tpath THEN ms
      ELSE FoldLeft(LAMBDA ms1, m : Append1(ms1, Clone(m)), ms, tree)

\* the refusals of move_mount_at
MoveRefused(ms, n, sp, p) ==
  \/ TopAt(ms, n, sp) = NoMount
  \/ IsShared(ParentOfExisting(ms, n, sp))
  \/ /\ IsShared(Nearest(ms, n, p))
     /\ \E i \in DOMAIN ms : ms[i].ns = n /\ ms[i].prop = "unbindable" /\ Under(sp, ms[i].tpath)

\* the locked part of move_mount_at
Moved(ms, next, n, node, p, sp) ==
  LET index == LastThat(ms, LAMBDA m : m.ns = n /\ m.tpath = sp)
      parent == Nearest(ms, n, p)
      at == [ms[index] EXCEPT !.target = node, !.tpath = p]
      Below(m) == IF m.ns = n /\ m.tpath \notin {p, sp} /\ Under(sp, m.tpath)
                  THEN [m EXCEPT !.tpath = p \o Suffix(sp, @)] ELSE m
      Renamed(pushed) == [i \in DOMAIN pushed |-> Below(pushed[i])]
      Placed(renamed, peer) ==
        [i \in DOMAIN renamed |-> MovedParent(renamed, n, sp, p, peer, renamed[i])]
      Reached(placed, root) ==
        LET tree == SelectSeq(placed, LAMBDA m : m.ns = n /\ Under(p, m.tpath))
            peers == SelectSeq(placed, LAMBDA m : m.peer = parent.peer \/ m.master = parent.peer)
        IN  IF parent.peer = 0 \/ ~Under(parent.tpath, p) THEN placed
            ELSE FoldLeft(LAMBDA ms1, peer : MovedTo(ms1, tree, root, Suffix(parent.tpath, p), peer),
                          placed, peers)
      Put(new) == [ms |-> Reached(Placed(Renamed(Append(RemoveAt(ms, index), new.m)), new.m.peer), new.m),
                   next |-> new.next]
  IN  Put(IF at.peer = 0 /\ parent.prop = "shared" THEN FromParent(at, parent, next)
          ELSE [m |-> WithParent(at, parent), next |-> next])

\* set_mount_propagation_at
Labelled(m, prop, next) ==
  CASE prop = "shared" -> [m EXCEPT !.prop = prop, !.peer = IF @ = 0 THEN next ELSE @]
    [] prop = "slave" -> [m EXCEPT !.prop = prop, !.master = IF @ = 0 THEN m.peer ELSE @, !.peer = 0]
    [] OTHER -> [m EXCEPT !.prop = prop, !.peer = 0, !.master = 0]

Matches(m, n, p, recursive) == m.ns = n /\ (m.tpath = p \/ (recursive /\ Under(p, m.tpath)))

Relabelled(ms, next, n, p, recursive, prop) ==
  LET Label(st, m) ==
        IF ~Matches(m, n, p, recursive) THEN [st EXCEPT !.ms = Append(@, m)]
        ELSE [ms |-> Append(st.ms, Labelled(m, prop, st.next)),
              next |-> IF prop = "shared" /\ m.peer = 0 THEN st.next + 1 ELSE st.next]
  IN  FoldLeft(Label, [ms |-> <<>>, next |-> next], ms)

\* clone_mount_namespace
ClonedNs(ms, n, n2) ==
  ms \o FoldLeft(LAMBDA c, m : IF m.ns = n THEN Append(c, [m EXCEPT !.ns = n2]) ELSE c, <<>>, ms)

-----------------------------------------------------------------------------
(* Unmounting.                                                                *)

UnmountPeers(ms, group) == SelectSeq(ms, LAMBDA m : m.peer = group \/ m.master = group)

\* propagate_unmount_event, once its source mount and suffix are known
RECURSIVE UnmountGroups(_, _, _, _, _, _)
UnmountGroups(ms, queue, index, e, source, suffix) ==
  IF index > Len(queue) THEN ms
  ELSE LET group == queue[index]
           peers == UnmountPeers(ms, group)
           slaves == SelectSeq(peers, LAMBDA m : m.master = group /\ m.peer # 0)
           Enqueue(q, m) == IF m.peer \in ToSet(q) THEN q ELSE Append(q, m.peer)
           Place(peer) == (IF source = NoMount THEN peer.tpath ELSE TargetBase(source, peer)) \o suffix
           Peel(ms1, peer) ==
             IF peer.ns = e.ns /\ Place(peer) = e.ppath THEN ms1
             ELSE SelectSeq(ms1, LAMBDA m : ~(/\ m.ns = peer.ns /\ m.tpath = Place(peer)
                                             /\ m.event = e.event))
       IN  UnmountGroups(FoldLeft(Peel, ms, peers), FoldLeft(Enqueue, queue, slaves), index + 1,
                         e, source, suffix)

PropagateUnmount(ms, e) ==
  IF e.pgroup = 0 \/ ~Under(e.ppath, e.tpath) THEN ms
  ELSE LET found == SelectSeq(ms, LAMBDA m : /\ m.ns = e.ns /\ m.tpath = e.ppath
                                             /\ (m.peer = e.pgroup \/ m.master = e.pgroup))
       IN  UnmountGroups(ms, <<e.pgroup>>, 1, e, IF found = <<>> THEN NoMount ELSE found[1],
                         Suffix(e.ppath, e.tpath))

\* is_mount_descendant
IsDescendant(root, m) ==
  /\ m.ns = root.ns
  /\ m.event > root.event \/ (m.ppath = root.tpath /\ m.pgroup = root.peer)
  /\ m.tpath # root.tpath /\ Under(root.tpath, m.tpath)

\* detach_mount_descendants: deepest first
DetachDescendants(ms, root) ==
  LET I == {i \in DOMAIN ms : IsDescendant(root, ms[i])}
      Deeper(i, j) == \/ Len(ms[i].tpath) > Len(ms[j].tpath)
                      \/ Len(ms[i].tpath) = Len(ms[j].tpath) /\ i < j
      Detach(ms1, k) ==
        LET i == LastThat(ms1, LAMBDA m : m.ns = ms[k].ns /\ m.tpath = ms[k].tpath
                                          /\ m.event = ms[k].event)
        IN  IF i = 0 THEN ms1 ELSE PropagateUnmount(RemoveAt(ms1, i), ms1[i])
  IN  FoldLeft(Detach, ms, SetToSortSeq(I, Deeper))

\* is_recursive_bind_child
IsRecursiveChild(root, m) ==
  /\ root.rec /\ m.ns = root.ns
  /\ m.tpath # root.tpath /\ Under(root.tpath, m.tpath)
  /\ Under(root.spath, m.spath) /\ Suffix(root.spath, m.spath) = Suffix(root.tpath, m.tpath)

\* the locked part of unmount_at once nothing refuses it
Unmounted(ms, i) ==
  LET e == ms[i]
      alone == SelectSeq(DetachDescendants(RemoveAt(ms, i), e), LAMBDA m : ~IsRecursiveChild(e, m))
  IN  PropagateUnmount(alone, e)

-----------------------------------------------------------------------------
(* Path lookup.                                                               *)

NoNode == <<0, NoPath>>

DirsOf(m) == IF m = 0 THEN Tree ELSE Sub

\* mounted_root_for, follow_mounted_root: the newest mount on this node and path
FollowMount(ms, n, cur) ==
  LET i == LastThat(ms, LAMBDA m : m.ns = n /\ m.target = cur.node /\ m.tpath = cur.path)
  IN  IF i = 0 \/ cur.node = NoNode THEN cur
      ELSE [cur EXCEPT !.node = ms[i].root, !.hits = @ \cup {i}]

\* lookup_child_raw
ChildOf(cur, name) ==
  LET dir == Append(cur.node[2], name)
  IN  [cur EXCEPT !.path = Append(@, name),
                  !.node = IF cur.node # NoNode /\ cur.node[1] \in fsLive /\ dir \in DirsOf(cur.node[1])
                           THEN <<cur.node[1], dir>> ELSE NoNode]

\* resolve_path_inner: `final` is LookupMode::follow_final_mount
Walk(ms, n, p, final) ==
  LET root == [node |-> <<0, <<>>>>, path |-> <<>>, hits |-> {}]
      Component(cur, i) ==
        LET child == ChildOf(cur, p[i])
        IN  IF i < Len(p) \/ final THEN FollowMount(ms, n, child) ELSE child
  IN  IF p = <<>> /\ final THEN FollowMount(ms, n, root)
      ELSE FoldLeft(Component, root, [i \in 1..Len(p) |-> i])

-----------------------------------------------------------------------------
(* The calls.                                                                 *)

NoKey == <<0, 0, NoPath>>

KeyOf(m) == <<m.ns, m.event, m.tpath>>

Idle == [op |-> "none", at |-> "idle", then |-> "idle", path |-> <<>>, spath |-> <<>>, node |-> NoNode,
         snode |-> NoNode, id |-> 0, key |-> NoKey, staged |-> <<>>]

Labels == [shared |-> "shared", rshared |-> "shared", slave |-> "slave", rslave |-> "slave",
           private |-> "private", rprivate |-> "private", unbindable |-> "unbindable"]

Recursive == {"rbind", "rshared", "rslave", "rprivate"}

Count(ms) == Cardinality({i \in DOMAIN ms : ms[i].expires})

MntInit ==
  /\ table = <<>> /\ fast = <<>> /\ expirePending = 0 /\ fastWriter = NoMntThread
  /\ fsLive = {0} /\ ids = [mount |-> Devices + 1, ns |-> 1, group |-> 1, event |-> 1]
  /\ mcwd = [t \in MntThread |-> <<0, <<>>>>]
  /\ mns = [t \in MntThread |-> 0]
  /\ mnt = [t \in MntThread |-> Idle]
  /\ mntOps = 0 /\ touched = {} /\ expiredBusy = FALSE

\* the table after a lookup that crossed these mounts of it
Activity(hits) == [i \in DOMAIN table |-> [table[i] EXCEPT !.expires = @ /\ i \notin hits]]

\* What a call does once its target, or its source, is found.  The file system types
\* come down to two: one opens the backend of a block device, the others register a
\* new file system.
Dispatch(c, node) ==
  CASE c.at = "source" -> [c EXCEPT !.snode = node, !.at = "edit"]
    [] c.op = "look" -> Idle
    [] c.op = "chdir" -> [c EXCEPT !.node = node, !.at = "setcwd"]
    [] c.op \in {"bind", "rbind", "move"} -> [c EXCEPT !.node = node, !.at = "source"]
    [] c.op \in {"new", "device"} -> [c EXCEPT !.node = node, !.at = "busy"]
    [] OTHER -> [c EXCEPT !.node = node, !.at = "edit"]

\* A lookup.  While no mount is marked to expire it reads the snapshot; otherwise it
\* reads the table, clears the marks of the mounts it crosses, and publishes.
Lookup(t, c, p, final) ==
  LET ms == IF expirePending = 0 THEN fast ELSE table
  IN  \E w \in {Walk(ms, mns[t], p, final)} :
      LET cleared == expirePending # 0 /\ Activity(w.hits) # table
          then == IF w.node = NoNode THEN Idle ELSE Dispatch(c, w.node)
      IN
      /\ table' = IF cleared THEN Activity(w.hits) ELSE table
      /\ touched' = touched \cup ({KeyOf(ms[i]) : i \in w.hits} \ {mnt[u].key : u \in MntThread})
      /\ mnt' = [mnt EXCEPT ![t] = IF cleared THEN [then EXCEPT !.op = c.op, !.at = "clone", !.then = then.at]
                                   ELSE then]

\* sys_mount, sys_umount2 and chdir up to and including the lookup of their target
Target(t) ==
  /\ mnt[t].op = "none" /\ mntOps < MaxMntOps
  /\ \E op \in MntOps[t] \ {"unshare"}, p \in MntPaths :
       \E sp \in IF op \in {"bind", "rbind", "move"} THEN MntPaths ELSE {<<>>} :
         LET c == [Idle EXCEPT !.op = op, !.path = p, !.spath = sp]
         IN  Lookup(t, c, p, op \in {"look", "chdir"})
  /\ mntOps' = mntOps + 1
  /\ UNCHANGED <<fast, expirePending, fastWriter, fsLive, ids, mcwd, mns, expiredBusy>>

\* the lookup of the source of a bind or a move
Source(t) ==
  LET c == mnt[t] IN
  /\ c.at = "source"
  /\ Lookup(t, c, c.spath, c.op # "move")
  /\ UNCHANGED <<fast, expirePending, fastWriter, fsLive, ids, mcwd, mns, mntOps, expiredBusy>>

Chdir(t) ==
  /\ mnt[t].at = "setcwd"
  /\ mcwd' = [mcwd EXCEPT ![t] = mnt[t].node]
  /\ mnt' = [mnt EXCEPT ![t] = Idle]
  /\ UNCHANGED <<table, fast, expirePending, fastWriter, fsLive, ids, mns, mntOps, touched, expiredBusy>>

\* a filesystem root is no mount target, and one node takes one filesystem
BusyTarget(n, node) == \E i \in DOMAIN table : table[i].ns = n /\ table[i].target = node

CheckBusy(t) ==
  LET c == mnt[t] IN
  /\ c.at = "busy"
  /\ mnt' = [mnt EXCEPT ![t] = IF c.node[2] = <<>> \/ BusyTarget(mns[t], c.node) THEN Idle
                               ELSE [c EXCEPT !.at = IF c.op = "new" THEN "register" ELSE "open"]]
  /\ UNCHANGED <<table, fast, expirePending, fastWriter, fsLive, ids, mcwd, mns, mntOps, touched, expiredBusy>>

\* covered_parent_for_target fails on a filesystem that is gone; register_mount
RegisterMount(t) ==
  LET c == mnt[t] IN
  /\ c.at = "register"
  /\ IF c.node[1] \in fsLive
     THEN /\ fsLive' = fsLive \cup {ids.mount}
          /\ ids' = [ids EXCEPT !.mount = @ + 1]
          /\ mnt' = [mnt EXCEPT ![t] = [c EXCEPT !.id = ids.mount, !.at = "install"]]
     ELSE mnt' = [mnt EXCEPT ![t] = Idle] /\ UNCHANGED <<fsLive, ids>>
  /\ UNCHANGED <<table, fast, expirePending, fastWriter, mcwd, mns, mntOps, touched, expiredBusy>>

\* ensure_mount_open: the backend is opened between its two looks at the slot
OpenDevice(t) ==
  LET c == mnt[t] IN
  /\ \/ /\ c.at = "open" /\ UNCHANGED fsLive
        /\ \E d \in 1..Devices :
             mnt' = [mnt EXCEPT ![t] = IF c.node[1] \notin fsLive THEN Idle
                                       ELSE [c EXCEPT !.id = d,
                                                      !.at = IF d \in fsLive THEN "install" ELSE "opening"]]
     \/ /\ c.at = "opening" /\ fsLive' = fsLive \cup {c.id}
        /\ mnt' = [mnt EXCEPT ![t].at = "install"]
  /\ UNCHANGED <<table, fast, expirePending, fastWriter, ids, mcwd, mns, mntOps, touched, expiredBusy>>

\* the call's table edit is done: refresh_dynamic_mount_snapshot comes next
Refresh(c, then) == [c EXCEPT !.at = "clone", !.then = then]

Install(t) ==
  LET c == mnt[t]
  IN
  /\ c.at = "install"
  /\ IF BusyTarget(mns[t], c.node)
     THEN mnt' = [mnt EXCEPT ![t] = Idle] /\ UNCHANGED <<table, ids>>
     ELSE \E new \in {Mounted(table, ids.group, ids.event, mns[t], c.node, c.path, c.id)} :
          /\ table' = new.ms
          /\ ids' = [ids EXCEPT !.group = new.next, !.event = @ + 1]
          /\ mnt' = [mnt EXCEPT ![t] = Refresh(c, "idle")]
  /\ UNCHANGED <<fast, expirePending, fastWriter, fsLive, mcwd, mns, mntOps, touched, expiredBusy>>

Edit(t, refused, new, event) ==
  /\ mnt[t].at = "edit"
  /\ IF refused THEN mnt' = [mnt EXCEPT ![t] = Idle] /\ UNCHANGED <<table, ids>>
     ELSE /\ table' = new.ms
          /\ ids' = [ids EXCEPT !.group = new.next, !.event = @ + event]
          /\ mnt' = [mnt EXCEPT ![t] = Refresh(mnt[t], "idle")]
  /\ UNCHANGED <<fast, expirePending, fastWriter, fsLive, mcwd, mns, mntOps, touched, expiredBusy>>

\* mount_bind_at
BindMount(t) ==
  LET c == mnt[t] IN
  /\ c.op \in {"bind", "rbind"}
  /\ Edit(t, c.node[2] = <<>> \/ c.node[1] \notin fsLive \/ BindRefused(table, mns[t], c.spath),
          Bound(table, ids.group, ids.event, mns[t], c.node, c.path, c.snode, c.spath, c.op \in Recursive), 1)

\* move_mount_at
MoveMount(t) ==
  LET c == mnt[t]
      refused == \/ c.node[2] = <<>> \/ c.node[1] \notin fsLive
                 \/ MoveRefused(table, mns[t], c.spath, c.path)
  IN
  /\ c.op = "move"
  /\ Edit(t, refused, IF refused THEN <<>>
                      ELSE Moved(table, ids.group, mns[t], c.node, c.path, c.spath), 0)

SetPropagation(t) ==
  LET c == mnt[t] IN
  /\ c.op \in DOMAIN Labels
  /\ Edit(t, \A i \in DOMAIN table : ~Matches(table[i], mns[t], c.path, c.op \in Recursive),
          Relabelled(table, ids.group, mns[t], c.path, c.op \in Recursive, Labels[c.op]), 0)

\* any_process_references_mount
Referenced(m) == \E t \in MntThread : mcwd[t][1] = m

\* unmount_at up to the end of its table edit
Unmount(t) ==
  LET c == mnt[t]
      i == LastThat(table, LAMBDA m : m.ns = mns[t] /\ m.tpath = c.path)
      m == table[i]
  IN
  /\ c.at = "edit" /\ c.op \in {"umount", "detach", "expire"}
  /\ IF c.node = <<0, <<>>>> \/ i = 0
     THEN mnt' = [mnt EXCEPT ![t] = Idle] /\ UNCHANGED <<table, touched, expiredBusy>>
     ELSE IF c.op = "expire" /\ ~m.expires
     THEN /\ table' = [table EXCEPT ![i].expires = TRUE]
          /\ touched' = touched \ {KeyOf(m)}
          /\ mnt' = [mnt EXCEPT ![t] = Refresh([c EXCEPT !.key = KeyOf(m)], "idle")]
          /\ UNCHANGED expiredBusy
     ELSE IF c.op # "detach" /\ ~m.bind /\ Referenced(m.source)
     THEN mnt' = [mnt EXCEPT ![t] = Idle] /\ UNCHANGED <<table, touched, expiredBusy>>
     ELSE /\ table' = Unmounted(table, i)
          /\ mnt' = [mnt EXCEPT ![t] = IF m.bind THEN Refresh(c, "idle")
                                       ELSE Refresh([c EXCEPT !.id = m.source], "check")]
          /\ expiredBusy' = (expiredBusy \/ (c.op = "expire" /\ KeyOf(m) \in touched))
          /\ UNCHANGED touched
  /\ UNCHANGED <<fast, expirePending, fastWriter, fsLive, ids, mcwd, mns, mntOps>>

\* sys_unshare(CLONE_NEWNS): clone_mount_namespace, then set_mount_namespace_id
Unshare(t) ==
  /\ mnt[t].op = "none" /\ "unshare" \in MntOps[t] /\ mntOps < MaxMntOps
  /\ table' = ClonedNs(table, mns[t], ids.ns)
  /\ ids' = [ids EXCEPT !.ns = @ + 1]
  /\ mntOps' = mntOps + 1
  /\ mnt' = [mnt EXCEPT ![t] = Refresh([Idle EXCEPT !.op = "unshare", !.id = ids.ns], "setns")]
  /\ UNCHANGED <<fast, expirePending, fastWriter, fsLive, mcwd, mns, touched, expiredBusy>>

SetNamespace(t) ==
  /\ mnt[t].at = "setns"
  /\ mns' = [mns EXCEPT ![t] = mnt[t].id]
  /\ mnt' = [mnt EXCEPT ![t] = Idle]
  /\ UNCHANGED <<table, fast, expirePending, fastWriter, fsLive, ids, mcwd, mntOps, touched, expiredBusy>>

\* refresh_dynamic_mount_snapshot: clone the table under the writer lock, store the
\* number of marked mounts, publish the clone
CloneTable(t) ==
  /\ mnt[t].at = "clone" /\ fastWriter = NoMntThread
  /\ fastWriter' = t
  /\ mnt' = [mnt EXCEPT ![t].staged = table, ![t].at = "count"]
  /\ UNCHANGED <<table, fast, expirePending, fsLive, ids, mcwd, mns, mntOps, touched, expiredBusy>>

StoreCount(t) ==
  /\ mnt[t].at = "count"
  /\ expirePending' = Count(mnt[t].staged)
  /\ mnt' = [mnt EXCEPT ![t].at = "publish"]
  /\ UNCHANGED <<table, fast, fastWriter, fsLive, ids, mcwd, mns, mntOps, touched, expiredBusy>>

PublishTable(t) ==
  LET c == mnt[t] IN
  /\ c.at = "publish"
  /\ fast' = c.staged /\ fastWriter' = NoMntThread
  /\ mnt' = [mnt EXCEPT ![t] = IF c.then = "idle" THEN Idle
                               ELSE [c EXCEPT !.at = c.then, !.then = "idle", !.staged = <<>>]]
  /\ UNCHANGED <<table, expirePending, fsLive, ids, mcwd, mns, mntOps, touched, expiredBusy>>

\* release_dynamic_mount_source_if_unused: the mount table, then the processes, then
\* the slot in MOUNTS
CheckSource(t) ==
  LET c == mnt[t]
      used == c.id <= Devices \/ \E i \in DOMAIN table : table[i].source = c.id
  IN
  /\ c.at = "check"
  /\ mnt' = [mnt EXCEPT ![t] = IF used THEN Idle ELSE [c EXCEPT !.at = "refs"]]
  /\ UNCHANGED <<table, fast, expirePending, fastWriter, fsLive, ids, mcwd, mns, mntOps, touched, expiredBusy>>

CheckReferences(t) ==
  LET c == mnt[t] IN
  /\ c.at = "refs"
  /\ mnt' = [mnt EXCEPT ![t] = IF Referenced(c.id) THEN Idle ELSE [c EXCEPT !.at = "drop"]]
  /\ UNCHANGED <<table, fast, expirePending, fastWriter, fsLive, ids, mcwd, mns, mntOps, touched, expiredBusy>>

DropSource(t) ==
  /\ mnt[t].at = "drop"
  /\ fsLive' = fsLive \ {mnt[t].id}
  /\ mnt' = [mnt EXCEPT ![t] = Idle]
  /\ UNCHANGED <<table, fast, expirePending, fastWriter, ids, mcwd, mns, mntOps, touched, expiredBusy>>

MntNext ==
  \E t \in MntThread :
    \/ Target(t) \/ Source(t) \/ Chdir(t)
    \/ CheckBusy(t) \/ RegisterMount(t) \/ OpenDevice(t) \/ Install(t)
    \/ BindMount(t) \/ MoveMount(t) \/ SetPropagation(t)
    \/ Unmount(t) \/ Unshare(t) \/ SetNamespace(t)
    \/ CloneTable(t) \/ StoreCount(t) \/ PublishTable(t)
    \/ CheckSource(t) \/ CheckReferences(t) \/ DropSource(t)

MntSpec == MntInit /\ [][MntNext]_mountVars

-----------------------------------------------------------------------------
(* Properties.                                                                *)

\* When no call is between its table edit and the end of its refresh, the snapshot
\* that lookups read is the table, and the count of marked mounts is exact: of two
\* refreshes the later clone is published last.
SnapshotCurrent ==
  (\A t \in MntThread : mnt[t].at \notin {"clone", "count", "publish"})
    => fast = table /\ expirePending = Count(table)

\* Every mount in the table shows a filesystem that is still in MOUNTS:
\* release_dynamic_mount_source_if_unused never drops one that is mounted.
SourcesLive == \A i \in DOMAIN table : table[i].source \in fsLive

\* A mount that umount2(MNT_EXPIRE) removes has not been looked up since the call
\* that marked it returned.
ExpireMeansIdle == ~expiredBusy

\* where a filesystem could be mounted now
Places(n) ==
  {p \in Tree \cup {q \o s : q \in MntPaths, s \in Sub} :
     LET node == Walk(table, n, p, FALSE).node
     IN  node # NoNode /\ node[2] # <<>> /\ ~BusyTarget(n, node)}

Trial(n, p) == Mounted(table, ids.group, ids.event, n, Walk(table, n, p, FALSE).node, p, Devices + 1).ms

\* the groups that receive what group g sends: itself, and the peer groups of the
\* slaves of such a group
Receivers(g) ==
  LET G == {table[i].peer : i \in DOMAIN table} \cup {g}
      Closed(S) == \A i \in DOMAIN table : table[i].master \in S /\ table[i].peer # 0 => table[i].peer \in S
  IN  {h \in G : \A S \in SUBSET G : g \in S /\ Closed(S) => h \in S}

\* A mount made below a shared mount appears once below each mount that receives from
\* it, its peers and its slaves and theirs, in every namespace, and nowhere else.
MountsReachPeers ==
  \A n \in 0..ids.ns - 1 : \A p \in Places(n) :
    LET parent == Nearest(table, n, p)
        R == IF IsShared(parent) THEN Receivers(parent.peer) ELSE {}
        reached == {i \in DOMAIN table : table[i].peer \in R \/ table[i].master \in R}
    IN  \A ms \in {Trial(n, p)} :
        LET copies == {i \in DOMAIN ms : ms[i].event = ids.event}
            placed == {<<ms[i].ns, ms[i].tpath>> : i \in copies}
        IN
        /\ placed = {<<n, p>>} \cup
                     {<<table[i].ns, TargetBase(parent, table[i]) \o Suffix(parent.tpath, p)>> : i \in reached}
        /\ Cardinality(placed) = Cardinality(copies)

\* Whatever the sharing of the mounts around it, unmounting what was just mounted
\* takes the mount and all its propagated copies away and nothing else:
\* propagate_unmount_event undoes propagate_mount_event.
UnmountUndoes ==
  \A n \in 0..ids.ns - 1 : \A p \in Places(n) :
    LET ms == Trial(n, p)
    IN  Unmounted(ms, LastThat(ms, LAMBDA m : m.ns = n /\ m.tpath = p)) = table

=============================================================================
