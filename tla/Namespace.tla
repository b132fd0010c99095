------------------------------ MODULE Namespace ------------------------------
(***************************************************************************)
(* Path lookup, stat and the namespace calls of one ext4 mount: the dentry  *)
(* cache validated by directory versions, the inode metadata cache          *)
(* validated by metadata versions, the per-CPU direct-stat cache validated  *)
(* by epochs, and the version leases every mutation runs under              *)
(* (fs/inode_state.rs, fs/dentry_cache.rs, fs/vfs/path.rs, fs/inode.rs and  *)
(* the stat paths of fs/vfs/file.rs).                                       *)
(*                                                                         *)
(* The mutation wrappers of inode_state.rs are higher-order functions: each  *)
(* brackets a body with epoch bumps, leases and cache updates.  They are     *)
(* operators here that bracket a sequence of instructions, so a call is the  *)
(* program its body and wrappers spell out, run one instruction at a time.   *)
(***************************************************************************)
EXTENDS Integers, Sequences, FiniteSets

CONSTANTS
    NsThread,     \* threads
    NsOps,        \* the calls each thread makes
    NsCpu,        \* CPU of each thread
    Root, Dirs,   \* directory nodes; Root is one of them
    Regs,         \* regular-file nodes
    Leaf,         \* names
    Tree,         \* the entries at the start
    DentryMax,    \* entries of a dentry-cache shard
    MaxMutations, \* bound: namespace and attribute calls
    MaxStats,     \* bound: stat calls
    NoNsThread

VARIABLES
    entry,        \* on-disk directories: <<dir, leaf>> -> node, 0 for none
    attr,         \* on-disk attributes of a node, as a change count
    ver,          \* versions of the three domains of a node's InodeState
    lease,        \* their SleepRwLocks
    slot,         \* cached metadata of a node
    slotLock,     \* holder of the metadata cache's write lock
    dcache,       \* a dentry-cache shard, oldest insertion first
    flight,       \* holder of a lookup's single-flight mutex
    epochs,       \* mount epoch, direct-stat epoch
    nodeEpoch,    \* direct-stat metadata epoch of a node
    direct,       \* direct-stat cache slot of each CPU
    ns,           \* running calls
    done,         \* calls made: mutations and stats
    settled,      \* entries and attributes when last no mutation was running
    stale         \* a stat returned what was never true during the call

nsVars == <<entry, attr, ver, lease, slot, slotLock, dcache, flight, epochs,
            nodeEpoch, direct, ns, done, settled, stale>>

Nodes == Dirs \cup Regs

Keys == Dirs \X Leaf

Domains == {"meta", "dir", "map"}

NoSlot == [ver |-> -1, val |-> 0]

NoDirect == [epoch |-> -1, nepoch |-> 0, key |-> <<0, 0>>, node |-> 0, val |-> 0]

NsIdle == [op |-> "idle", pc |-> "", key |-> <<0, 0>>, key2 |-> <<0, 0>>, node |-> 0,
           prog |-> << >>, after |-> << >>, failed |-> FALSE,
           tries |-> 0, flying |-> FALSE, e |-> 0, m |-> 0, v |-> 0, n |-> 0, val |-> 0,
           bind |-> {}, low |-> << >>]

NsInit ==
    /\ entry = Tree
    /\ attr = [n \in Nodes |-> 0]
    /\ ver = [n \in Nodes |-> [d \in Domains |-> 0]]
    /\ lease = [n \in Nodes |-> [d \in Domains |-> [w |-> NoNsThread, r |-> {}]]]
    /\ slot = [n \in Nodes |-> NoSlot]
    /\ slotLock = [n \in Nodes |-> NoNsThread]
    /\ dcache = << >>
    /\ flight = [k \in Keys |-> NoNsThread]
    /\ epochs = [mount |-> 0, direct |-> 0]
    /\ nodeEpoch = [n \in Nodes |-> 0]
    /\ direct = [c \in {NsCpu[t] : t \in NsThread} |-> NoDirect]
    /\ ns = [t \in NsThread |-> NsIdle]
    /\ done = [mutations |-> 0, stats |-> 0]
    /\ settled = [entry |-> Tree, attr |-> [n \in Nodes |-> 0]]
    /\ stale = FALSE

Idle(t) == ns[t].op = "idle"

Return(t) == ns' = [ns EXCEPT ![t] = NsIdle]

At(t, pc) == ns[t].op = "stat" /\ ns[t].pc = pc

Set(t, r) == ns' = [ns EXCEPT ![t] = r]

-----------------------------------------------------------------------------
(* The mutation wrappers of inode_state.rs.                                 *)

Ins(what, on, dom) == [what |-> what, on |-> on, dom |-> dom]

Bump(on, all) == <<Ins("bump", on, all)>>

Act == <<Ins("act", {}, "")>>

\* begin_mutation ... commit of one domain; `caches` is what happens between
Mutation(n, d, body, caches) ==
    <<Ins("write", n, d)>> \o body \o <<Ins(caches, n, d), Ins("commit", n, d)>>

WithMetadata(n, body) ==
    Bump({n}, FALSE) \o Mutation(n, "meta", body, "update") \o Bump({n}, FALSE)

WithMapping(n, body) ==
    Bump({n}, FALSE) \o Mutation(n, "map", body, "clear") \o Bump({n}, FALSE)

WithDirectory(d, body) ==
    Bump({d}, TRUE) \o Mutation(d, "dir", body, "clear") \o Bump({d}, TRUE)

\* both directories of a rename, the lower node first
WithDirectories(a, b, body) ==
    IF a = b THEN WithDirectory(a, body)
    ELSE LET low == IF a < b THEN a ELSE b
             high == IF a < b THEN b ELSE a IN
         Bump({a, b}, TRUE)
         \o <<Ins("write", low, "dir"), Ins("write", high, "dir")>> \o body
         \o <<Ins("clear", low, "dir"), Ins("clear", high, "dir"),
              Ins("commit", low, "dir"), Ins("commit", high, "dir")>>
         \o Bump({a, b}, TRUE)

InvalidateMetadata(n) ==
    Bump({n}, FALSE) \o Mutation(n, "meta", << >>, "clear") \o Bump({n}, FALSE)

InvalidateParent(d) == WithDirectory(d, << >>)

-----------------------------------------------------------------------------
(* The calls: the lookups and checks made before any lease is taken, and     *)
(* the program that follows.                                                 *)

Readable(d) == lease[d]["dir"].w = NoNsThread

Children(d) == {k \in Keys : k[1] = d /\ entry[k] # 0}

ParentOf(n) == {k[1] : k \in {k \in Keys : entry[k] = n}}

RECURSIVE Below(_, _)
\* the directories reached from d through parents, at most `depth` levels up
Below(d, depth) ==
    IF depth = 0 THEN {d} ELSE {d} \cup UNION {Below(p, depth - 1) : p \in ParentOf(d)}

\* is_descendant_or_self: ancestor is met on the way up from d
IsDescendantOrSelf(d, ancestor) == ancestor \in Below(d, Cardinality(Dirs))

Begin(t, op, k, k2, n, prog, after) ==
    /\ Idle(t) /\ op \in NsOps[t]
    /\ done.mutations < MaxMutations
    /\ done' = [done EXCEPT !.mutations = @ + 1]
    /\ Set(t, [NsIdle EXCEPT !.op = op, !.key = k, !.key2 = k2, !.node = n,
                             !.prog = prog, !.after = after])
    /\ UNCHANGED <<entry, attr, ver, lease, slot, slotLock, dcache, flight, epochs,
                   nodeEpoch, direct, settled, stale>>

\* a node that no entry names and no call is about to create
Unused == {n \in Nodes \ {Root} : ParentOf(n) = {} /\ \A t \in NsThread : ns[t].node # n}

\* chmod_in, chown_in, set_times: attributes under the metadata lease
Chmod(t) ==
    \E k \in Keys : entry[k] # 0 /\ Readable(k[1])
        /\ Begin(t, "chmod", k, k, entry[k], WithMetadata(entry[k], Act), << >>)

\* truncate_in and the writes: size under the mapping lease
Truncate(t) ==
    \E k \in Keys : entry[k] \in Regs /\ Readable(k[1])
        /\ Begin(t, "truncate", k, k, entry[k], WithMapping(entry[k], Act), << >>)

\* mkdir_in, create_node_in, symlink_in
Create(t) ==
    \E k \in Keys, n \in Unused : entry[k] = 0 /\ Readable(k[1])
        /\ (k[1] = Root \/ ParentOf(k[1]) # {})
        /\ Begin(t, "create", k, k, n, WithDirectory(k[1], Act), InvalidateParent(k[1]))

\* link_file_in
Link(t) ==
    \E k, k2 \in Keys : entry[k] \in Regs /\ entry[k2] = 0 /\ Readable(k[1]) /\ Readable(k2[1])
        /\ (k2[1] = Root \/ ParentOf(k2[1]) # {})
        /\ Begin(t, "link", k2, k2, entry[k], WithDirectory(k2[1], Act),
                 InvalidateMetadata(entry[k]) \o InvalidateParent(k2[1]))

\* unlink_file_in
Unlink(t) ==
    \E k \in Keys : entry[k] \in Regs /\ Readable(k[1])
        /\ Begin(t, "unlink", k, k, entry[k],
                 WithMapping(entry[k], WithDirectory(k[1], Act)),
                 InvalidateMetadata(entry[k]) \o InvalidateParent(k[1]))

\* rmdir_in
Rmdir(t) ==
    \E k \in Keys : entry[k] \in Dirs /\ Readable(k[1])
        /\ Begin(t, "unlink", k, k, entry[k], WithDirectory(k[1], Act),
                 InvalidateMetadata(entry[k]) \o InvalidateParent(k[1]))

Parents(a, b) == InvalidateParent(a) \o (IF a = b THEN << >> ELSE InvalidateParent(b))

\* rename_in: kinds must agree, a directory must not move below itself
Rename(t) ==
    \E k, k2 \in Keys :
        LET n == entry[k]
            r == entry[k2] IN
        /\ k # k2 /\ n # 0 /\ n # r /\ Readable(k[1]) /\ Readable(k2[1])
        /\ (k2[1] = Root \/ ParentOf(k2[1]) # {})
        /\ r # 0 => ((n \in Dirs) <=> (r \in Dirs))
        /\ n \in Dirs => ~IsDescendantOrSelf(k2[1], n)
        /\ Begin(t, "rename", k, k2, n, WithDirectories(k[1], k2[1], Act),
                 InvalidateMetadata(n) \o (IF r # 0 THEN InvalidateMetadata(r) ELSE << >>)
                 \o Parents(k[1], k2[1]))

\* rename_exchange_in
Exchange(t) ==
    \E k, k2 \in Keys :
        LET n == entry[k]
            r == entry[k2] IN
        /\ k # k2 /\ n # 0 /\ r # 0 /\ n # r /\ Readable(k[1]) /\ Readable(k2[1])
        /\ n \in Dirs => ~IsDescendantOrSelf(k2[1], n)
        /\ r \in Dirs => ~IsDescendantOrSelf(k[1], r)
        /\ Begin(t, "exchange", k, k2, n, WithDirectories(k[1], k2[1], Act),
                 InvalidateMetadata(n) \o InvalidateMetadata(r) \o Parents(k[1], k2[1]))

\* dentry_cache::clear_all, after the mount table changed
ClearAll(t) ==
    /\ Idle(t) /\ "mount" \in NsOps[t] /\ done.mutations < MaxMutations
    /\ done' = [done EXCEPT !.mutations = @ + 1]
    /\ epochs' = [mount |-> epochs.mount + 1, direct |-> epochs.direct + 1]
    /\ UNCHANGED <<entry, attr, ver, lease, slot, slotLock, dcache, flight,
                   nodeEpoch, direct, ns, settled, stale>>

-----------------------------------------------------------------------------
(* The backend transactions.  Each result gives the new entries, the nodes   *)
(* whose attributes changed and whether the call failed.                     *)

Fails == [entry |-> entry, hit |-> {}, failed |-> TRUE]

Does(e, hit) == [entry |-> e, hit |-> hit, failed |-> FALSE]

HasChildren(n) == n \in Dirs /\ Children(n) # {}

\* Ext4Filesystem::unlink, also the first half of rename
Removed(k) ==
    IF entry[k] = 0 \/ HasChildren(entry[k]) THEN Fails
    ELSE Does([entry EXCEPT ![k] = 0], {entry[k], k[1]})

\* Ext4Filesystem::rename: the target goes first, then the source is looked up
Moved(k, k2) ==
    LET r == Removed(k2) IN
    IF r.failed /\ entry[k2] # 0 THEN r
    ELSE IF entry[k] = 0 THEN [r EXCEPT !.failed = TRUE]
    ELSE Does([entry EXCEPT ![k] = 0, ![k2] = entry[k]], r.hit \cup {entry[k], k[1], k2[1]})

Outcome(c) ==
    CASE c.op \in {"chmod", "truncate"} -> Does(entry, {c.node})
      [] c.op \in {"create", "link"} ->
            IF entry[c.key] # 0 THEN Fails
            ELSE Does([entry EXCEPT ![c.key] = c.node], {c.node, c.key[1]})
      [] c.op = "unlink" -> Removed(c.key)
      [] c.op = "rename" -> Moved(c.key, c.key2)
      [] c.op = "exchange" ->
            IF entry[c.key] = 0 \/ entry[c.key2] = 0 THEN Fails
            ELSE Does([entry EXCEPT ![c.key] = entry[c.key2], ![c.key2] = entry[c.key]],
                      {entry[c.key], entry[c.key2], c.key[1], c.key2[1]})

-----------------------------------------------------------------------------
(* The instructions.                                                        *)

Advance(c) == [c EXCEPT !.prog = Tail(@)]

Running(t, what) ==
    ns[t].op \notin {"idle", "stat"} /\ ns[t].prog # << >> /\ Head(ns[t].prog).what = what

\* invalidate_direct_stat_metadata, invalidate_direct_stat_cache
DoBump(t) ==
    LET i == Head(ns[t].prog) IN
    /\ Running(t, "bump")
    /\ nodeEpoch' = [n \in Nodes |-> nodeEpoch[n] + (IF n \in i.on THEN 1 ELSE 0)]
    /\ epochs' = IF i.dom THEN [epochs EXCEPT !.direct = @ + 1] ELSE epochs
    /\ Set(t, Advance(ns[t]))
    /\ UNCHANGED <<entry, attr, ver, lease, slot, slotLock, dcache, flight, direct, done, settled, stale>>

\* VersionDomain::begin_mutation
DoWrite(t) ==
    LET i == Head(ns[t].prog) IN
    /\ Running(t, "write")
    /\ lease[i.on][i.dom] = [w |-> NoNsThread, r |-> {}]
    /\ lease' = [lease EXCEPT ![i.on][i.dom].w = t]
    /\ ver' = [ver EXCEPT ![i.on][i.dom] = @ + 1]
    /\ Set(t, Advance(ns[t]))
    /\ UNCHANGED <<entry, attr, slot, slotLock, dcache, flight, epochs, nodeEpoch,
                   direct, done, settled, stale>>

\* the backend transaction; running stats may now answer with what it made true
DoAct(t) ==
    LET o == Outcome(ns[t]) IN
    /\ Running(t, "act")
    /\ entry' = o.entry
    /\ attr' = [n \in Nodes |-> attr[n] + (IF n \in o.hit THEN 1 ELSE 0)]
    /\ ns' = [u \in NsThread |->
                IF u = t THEN [Advance(ns[t]) EXCEPT !.failed = o.failed]
                ELSE IF ns[u].op = "stat"
                     THEN [ns[u] EXCEPT !.bind = @ \cup {o.entry[ns[u].key]}] ELSE ns[u]]
    /\ UNCHANGED <<ver, lease, slot, slotLock, dcache, flight, epochs, nodeEpoch,
                   direct, done, settled, stale>>

\* update_cached_metadata: a slot of the version before is carried over
Updated(n, c) ==
    IF c.failed \/ slot[n].ver # ver[n]["meta"] - 1 THEN NoSlot
    ELSE [ver |-> ver[n]["meta"] + 1, val |-> slot[n].val + 1]

DoCache(t) ==
    LET i == Head(ns[t].prog) IN
    /\ Running(t, "clear") \/ Running(t, "update")
    /\ slotLock[i.on] = NoNsThread
    /\ slot' = [slot EXCEPT ![i.on] = IF i.what = "clear" THEN NoSlot ELSE Updated(i.on, ns[t])]
    /\ Set(t, Advance(ns[t]))
    /\ UNCHANGED <<entry, attr, ver, lease, slotLock, dcache, flight, epochs, nodeEpoch,
                   direct, done, settled, stale>>

\* VersionMutationGuard::drop of a committed guard
DoCommit(t) ==
    LET i == Head(ns[t].prog) IN
    /\ Running(t, "commit")
    /\ lease' = [lease EXCEPT ![i.on][i.dom].w = NoNsThread]
    /\ ver' = [ver EXCEPT ![i.on][i.dom] = @ + 1]
    /\ Set(t, Advance(ns[t]))
    /\ UNCHANGED <<entry, attr, slot, slotLock, dcache, flight, epochs, nodeEpoch,
                   direct, done, settled, stale>>

\* the `?` after the wrapper: a failed call returns at once
DoEnd(t) ==
    /\ ~Idle(t) /\ ns[t].op # "stat" /\ ns[t].prog = << >>
    /\ IF ns[t].failed \/ ns[t].after = << >>
       THEN /\ Return(t)
            /\ settled' = IF \A u \in NsThread \ {t} : ns[u].op \in {"idle", "stat"}
                          THEN [entry |-> entry, attr |-> attr] ELSE settled
       ELSE /\ Set(t, [ns[t] EXCEPT !.prog = @ \o ns[t].after, !.after = << >>])
            /\ UNCHANGED settled
    /\ UNCHANGED <<entry, attr, ver, lease, slot, slotLock, dcache, flight, epochs,
                   nodeEpoch, direct, done, stale>>

Mutate(t) ==
    \/ Chmod(t) \/ Truncate(t) \/ Create(t) \/ Link(t) \/ Unlink(t) \/ Rmdir(t)
    \/ Rename(t) \/ Exchange(t) \/ ClearAll(t)

RunStep(t) == DoBump(t) \/ DoWrite(t) \/ DoAct(t) \/ DoCache(t) \/ DoCommit(t) \/ DoEnd(t)

-----------------------------------------------------------------------------
(* stat_direct_regular_child_in, falling back to stat_in_with.              *)

Stable(n, d) == ver[n][d] % 2 = 0

EnterStat(t) ==
    /\ Idle(t) /\ "stat" \in NsOps[t] /\ done.stats < MaxStats
    /\ done' = [done EXCEPT !.stats = @ + 1]
    /\ \E k \in Keys :
        /\ Set(t, [NsIdle EXCEPT !.op = "stat", !.pc = "direct", !.key = k,
                                 !.e = epochs.direct, !.bind = {entry[k], settled.entry[k]},
                                 !.low = settled.attr])
    /\ UNCHANGED <<entry, attr, ver, lease, slot, slotLock, dcache, flight, epochs,
                   nodeEpoch, direct, settled, stale>>

\* what the call returns: a node (0 for ENOENT) and its attributes
Answer(t, n, val) ==
    /\ stale' = (stale \/ n \notin ns[t].bind \/ (n # 0 /\ val < ns[t].low[n]))
    /\ Return(t)

DirectHit(t, d) ==
    /\ d.key = ns[t].key
    /\ d.epoch = ns[t].e
    /\ epochs.direct = ns[t].e
    /\ nodeEpoch[d.node] = d.nepoch

\* direct_stat_cache_lookup, the epoch having been loaded first
StatDirect(t) ==
    LET d == direct[NsCpu[t]] IN
    /\ At(t, "direct")
    /\ IF DirectHit(t, d) THEN Answer(t, d.node, d.val)
       ELSE Set(t, [ns[t] EXCEPT !.pc = "attempt"]) /\ UNCHANGED stale
    /\ UNCHANGED <<entry, attr, ver, lease, slot, slotLock, dcache, flight, epochs,
                   nodeEpoch, direct, done, settled>>

\* two optimistic attempts, then the resolver that caches nothing
StatAttempt(t) ==
    /\ At(t, "attempt")
    /\ Set(t, [ns[t] EXCEPT !.pc = "lookup", !.tries = @ + 1, !.e = epochs.direct,
                            !.m = epochs.mount])
    /\ UNCHANGED <<entry, attr, ver, lease, slot, slotLock, dcache, flight, epochs,
                   nodeEpoch, direct, done, settled, stale>>

\* DentryCache::lookup: an entry counts while its directory's version stands
Dentries(t) ==
    {i \in DOMAIN dcache :
        /\ dcache[i].key = ns[t].key
        /\ dcache[i].epoch = ns[t].m
        /\ dcache[i].ver = ver[ns[t].key[1]]["dir"]}

\* a cached answer must still be of the mount epoch; else single-flight, once
StatLookup(t) ==
    LET k == ns[t].key IN
    /\ At(t, "lookup")
    /\ IF Dentries(t) # {}
       THEN LET i == CHOOSE i \in Dentries(t) : TRUE IN
            /\ Set(t, [ns[t] EXCEPT !.pc = "found", !.node = dcache[i].node])
            /\ UNCHANGED flight
       ELSE IF ns[t].flying
       THEN Set(t, [ns[t] EXCEPT !.pc = "backend"]) /\ UNCHANGED flight
       ELSE /\ flight[k] = NoNsThread
            /\ flight' = [flight EXCEPT ![k] = t]
            /\ Set(t, [ns[t] EXCEPT !.flying = TRUE, !.m = epochs.mount])
    /\ UNCHANGED <<entry, attr, ver, lease, slot, slotLock, dcache, epochs, nodeEpoch,
                   direct, done, settled, stale>>

Landed(t) ==
    IF ns[t].flying THEN [flight EXCEPT ![ns[t].key] = NoNsThread] ELSE flight

\* after the lookup: missing names end the attempt, others are stat'ed
Resolved(t, n) ==
    LET c == [ns[t] EXCEPT !.flying = FALSE, !.node = n] IN
    IF n \in Regs THEN Set(t, [c EXCEPT !.pc = "stat"]) /\ UNCHANGED stale
    ELSE IF c.tries = 3
         THEN IF n = 0 THEN Answer(t, 0, 0)
              ELSE Set(t, [c EXCEPT !.pc = "meta"]) /\ UNCHANGED stale
         ELSE Set(t, [c EXCEPT !.pc = "attempt", !.tries = 2]) /\ UNCHANGED stale

StatFound(t) ==
    /\ At(t, "found")
    /\ IF epochs.mount = ns[t].m
       THEN Resolved(t, ns[t].node) /\ flight' = Landed(t)
       ELSE /\ Set(t, [ns[t] EXCEPT !.pc = IF ns[t].flying THEN "backend" ELSE "lookup",
                                    !.m = epochs.mount])
            /\ UNCHANGED <<flight, stale>>
    /\ UNCHANGED <<entry, attr, ver, lease, slot, slotLock, dcache, epochs, nodeEpoch,
                   direct, done, settled>>

\* the backend lookup under the directory's read lease, with a version token
StatBackend(t) ==
    LET d == ns[t].key[1] IN
    /\ At(t, "backend")
    /\ lease[d]["dir"].w = NoNsThread
    /\ lease' = [lease EXCEPT ![d]["dir"].r = @ \cup {t}]
    /\ Set(t, [ns[t] EXCEPT !.pc = "insert", !.node = entry[ns[t].key],
                            !.v = ver[d]["dir"], !.m = epochs.mount])
    /\ UNCHANGED <<entry, attr, ver, slot, slotLock, dcache, flight, epochs, nodeEpoch,
                   direct, done, settled, stale>>

\* insert_positive, insert_negative: a refreshed entry is the youngest
Inserted(c) ==
    LET kept == SelectSeq(dcache, LAMBDA x : x.key # c.key)
        all == Append(kept, [key |-> c.key, node |-> c.node, ver |-> c.v, epoch |-> c.m]) IN
    IF Len(all) > DentryMax THEN Tail(all) ELSE all

StatInsert(t) ==
    LET c == ns[t] IN
    /\ At(t, "insert")
    /\ dcache' = IF epochs.mount = c.m THEN Inserted(c) ELSE dcache
    /\ lease' = [lease EXCEPT ![c.key[1]]["dir"].r = @ \ {t}]
    /\ flight' = Landed(t)
    /\ Resolved(t, c.node)
    /\ UNCHANGED <<entry, attr, ver, slot, slotLock, epochs, nodeEpoch, direct, done, settled>>

\* with_mapping_read_state around the stat of a regular file
StatLease(t) ==
    LET n == ns[t].node IN
    /\ At(t, "stat")
    /\ lease[n]["map"].w = NoNsThread
    /\ lease' = [lease EXCEPT ![n]["map"].r = @ \cup {t}]
    /\ Set(t, [ns[t] EXCEPT !.pc = "meta", !.n = nodeEpoch[n]])
    /\ UNCHANGED <<entry, attr, ver, slot, slotLock, dcache, flight, epochs, nodeEpoch,
                   direct, done, settled, stale>>

\* metadata_or_load: the lock-free start ...
StatVersion(t) ==
    LET n == ns[t].node IN
    /\ At(t, "meta")
    /\ Set(t, [ns[t] EXCEPT !.v = ver[n]["meta"],
                            !.pc = IF Stable(n, "meta") THEN "cached" ELSE "slow"])
    /\ UNCHANGED <<entry, attr, ver, lease, slot, slotLock, dcache, flight, epochs,
                   nodeEpoch, direct, done, settled, stale>>

\* ... cached_metadata, the version rechecked under the cache's read guard
StatCached(t) ==
    LET n == ns[t].node IN
    /\ At(t, "cached")
    /\ slotLock[n] = NoNsThread
    /\ Set(t, IF slot[n].ver = ns[t].v /\ ver[n]["meta"] = ns[t].v
              THEN [ns[t] EXCEPT !.pc = "check", !.val = slot[n].val]
              ELSE [ns[t] EXCEPT !.pc = "slow"])
    /\ UNCHANGED <<entry, attr, ver, lease, slot, slotLock, dcache, flight, epochs,
                   nodeEpoch, direct, done, settled, stale>>

\* ... and the load under the version's read lease and the cache's write lock
StatSlow(t) ==
    LET n == ns[t].node IN
    /\ At(t, "slow")
    /\ lease[n]["meta"].w = NoNsThread
    /\ slotLock[n] = NoNsThread
    /\ lease' = [lease EXCEPT ![n]["meta"].r = @ \cup {t}]
    /\ slotLock' = [slotLock EXCEPT ![n] = t]
    /\ Set(t, IF slot[n].ver = ver[n]["meta"]
              THEN [ns[t] EXCEPT !.pc = "loaded", !.val = slot[n].val]
              ELSE [ns[t] EXCEPT !.pc = "loaded", !.val = attr[n]])
    /\ UNCHANGED <<entry, attr, ver, slot, dcache, flight, epochs, nodeEpoch, direct,
                   done, settled, stale>>

StatLoaded(t) ==
    LET n == ns[t].node IN
    /\ At(t, "loaded")
    /\ slot' = [slot EXCEPT ![n] = [ver |-> ver[n]["meta"], val |-> ns[t].val]]
    /\ slotLock' = [slotLock EXCEPT ![n] = NoNsThread]
    /\ lease' = [lease EXCEPT ![n]["meta"].r = @ \ {t}]
    /\ Set(t, [ns[t] EXCEPT !.pc = "check"])
    /\ UNCHANGED <<entry, attr, ver, dcache, flight, epochs, nodeEpoch, direct, done, settled, stale>>

\* the mapping lease goes; an answer overtaken by a mutation is not cached
StatCheck(t) ==
    LET c == ns[t]
        n == c.node IN
    /\ At(t, "check")
    /\ lease' = [lease EXCEPT ![n]["map"].r = @ \ {t}]
    /\ IF c.tries = 3 THEN Answer(t, n, c.val)
       ELSE /\ UNCHANGED stale
            /\ Set(t, [c EXCEPT !.pc = IF epochs.direct = c.e /\ nodeEpoch[n] = c.n
                                       THEN "keep" ELSE "attempt"])
    /\ UNCHANGED <<entry, attr, ver, slot, slotLock, dcache, flight, epochs, nodeEpoch,
                   direct, done, settled>>

\* direct_stat_cache_insert
StatKeep(t) ==
    LET c == ns[t] IN
    /\ At(t, "keep")
    /\ direct' = IF epochs.direct = c.e /\ nodeEpoch[c.node] = c.n
                 THEN [direct EXCEPT ![NsCpu[t]] =
                        [epoch |-> c.e, nepoch |-> c.n, key |-> c.key, node |-> c.node, val |-> c.val]]
                 ELSE direct
    /\ Answer(t, c.node, c.val)
    /\ UNCHANGED <<entry, attr, ver, lease, slot, slotLock, dcache, flight, epochs,
                   nodeEpoch, done, settled>>

StatStep(t) ==
    \/ StatDirect(t) \/ StatAttempt(t) \/ StatLookup(t) \/ StatFound(t) \/ StatBackend(t)
    \/ StatInsert(t) \/ StatLease(t) \/ StatVersion(t) \/ StatCached(t) \/ StatSlow(t)
    \/ StatLoaded(t) \/ StatCheck(t) \/ StatKeep(t)

NsNext == \E t \in NsThread : Mutate(t) \/ RunStep(t) \/ EnterStat(t) \/ StatStep(t)

NsSpec == NsInit /\ [][NsNext]_nsVars

\* a thread inside a call keeps running, and the lease queues are served
NsFairness == \A t \in NsThread : SF_nsVars(RunStep(t)) /\ SF_nsVars(StatStep(t))

-----------------------------------------------------------------------------
(* Properties.                                                              *)

\* A stat by name answers with a node the name led to at some moment of the
\* call and with attributes no older than those at its start, whichever of
\* the dentry, metadata and direct-stat caches served it.
StatFresh == ~stale

\* The directories form a tree while one thread changes them: every directory
\* that has entries is reached from the root, so no rename puts a directory
\* below itself and nothing is left inside a removed directory.  Two renames at
\* once can make a cycle: is_descendant_or_self looks before the leases.
TreeIntact ==
    \A d \in Dirs : Children(d) # {} => Root \in Below(d, Cardinality(Dirs))

\* RENAME and the other calls finish: two renames that take the same two
\* directory leases, an unlink that holds the mapping lease of its node and
\* the stats that wait for them never wait for each other.
NsCallsEnd == \A t \in NsThread : ~Idle(t) ~> Idle(t)

=============================================================================
