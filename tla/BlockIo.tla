------------------------------- MODULE BlockIo -------------------------------
(* The write-through block cache (os/src/drivers/block_cache.rs) under the     *)
(* ext4 device accesses: KernelDisk's reads and writes and the detached read   *)
(* and write plans of os/src/fs/ext4.rs, with the write sequence, the physical *)
(* leases and the logical leases that order them (os/src/fs/ext4/io_state.rs). *)
(*                                                                             *)
(* A sector holds the number of the write that produced it.  A cache line      *)
(* covers Line sectors from any start; short runs use lines of one sector.     *)
(* The cache is split into shards by regions of Region sectors, and each shard *)
(* keeps its lines in the order of their last use.  The device carries out a   *)
(* write request sector by sector, so a request that overlaps it can see part  *)
(* of it.                                                                      *)
EXTENDS Naturals, Sequences, FiniteSets, SequencesExt

CONSTANTS IoThread,   \* the threads
          IoOps,      \* the calls each thread makes
          Disk,       \* number of sectors of the device
          Line,       \* READ_CACHE_LINE_BLOCKS
          Region,     \* BLOCK_CACHE_SHARD_REGION_BLOCKS
          LineCap,    \* lines a shard may hold, of either kind
          IoRuns,     \* the runs <<first, count>> that calls use
          Parts,      \* the sectors of a plan that the caller's bytes cover
          MaxIo       \* bound on the calls made

VARIABLES device,     \* the sectors
          wide,       \* BlockCache.read_lines of each shard
          narrow,     \* BlockCache.lines of each shard
          coordinator,\* DeviceWriteState: write_epoch and writers_inflight
          sequence,   \* Ext4Sequence: epoch and active writers
          physical,   \* Ext4PhysicalLeaseTable.blocks
          logical,    \* Ext4WriteLeaseTable.blocks
          io,         \* the call of each thread
          ios,        \* calls made so far, the number of the next write
          latest,     \* history: the last write completed on each sector
          misread     \* history: a read returned bytes the device did not hold

ioVars == <<device, wide, narrow, coordinator, sequence, physical, logical, io, ios,
            latest, misread>>
cacheVars == <<wide, narrow>>

Sector == 0 .. Disk - 1
Shards == {s \div Region : s \in Sector}
Span(first, count) == first .. first + count - 1
NoToken == Disk + MaxIo + 1000

IdleIo == [op |-> "none", at |-> "idle", run |-> <<0, 0>>, part |-> {}, pos |-> 0, count |-> 0,
           buf |-> <<>>, before |-> [epoch |-> 0, writers |-> 0], token |-> NoToken,
           left |-> {}, stamp |-> 0]

IoInit ==
    /\ device = [s \in Sector |-> 0] /\ latest = device
    /\ wide = [r \in Shards |-> <<>>] /\ narrow = [r \in Shards |-> <<>>]
    /\ coordinator = [epoch |-> 0, writers |-> 0]
    /\ sequence = [epoch |-> 0, writers |-> 0]
    /\ physical = {} /\ logical = {}
    /\ io = [t \in IoThread |-> IdleIo]
    /\ ios = 0 /\ misread = FALSE

First(t) == io[t].run[1]
End(t) == io[t].run[1] + io[t].run[2]
RunOf(t) == Span(io[t].run[1], io[t].run[2])
Remaining(t) == End(t) - io[t].pos
AtIo(t, place) == io[t].at = place
GoIo(t, place) == io' = [io EXCEPT ![t].at = place]

----------------------------------------------------------------------------
(* The cache: lookups, insertions and invalidations of a shard.                *)

Cached(lines, key) == \E i \in DOMAIN lines : lines[i].key = key
DataOf(lines, key) == lines[CHOOSE i \in DOMAIN lines : lines[i].key = key].data
Without(lines, keys) == SelectSeq(lines, LAMBDA l : l.key \notin keys)
Trim(lines) == IF Len(lines) > LineCap THEN Tail(lines) ELSE lines

(* insert_read4k, update_after_write4k, insert_read, update_after_write: the   *)
(* line becomes the most recently used, and the least recent one goes.         *)
Insert(lines, key, data) == Trim(Append(Without(lines, {key}), [key |-> key, data |-> data]))

(* cache_insert_*_run and cache_update_after_write*_run: the lines of a run in *)
(* order, width sectors each; a remainder shorter than a line is not cached.   *)
InsertRun(cache, first, count, width, content) ==
    LET Step(c, i) == LET key == first + i * width
                      IN [c EXCEPT ![key \div Region] =
                             Insert(@, key, [s \in Span(key, width) |-> content[s]])]
    IN FoldLeft(Step, cache, [i \in 1 .. count \div width |-> i - 1])

(* cache_invalidate_read4k_range: the regions whose shards can hold a wide     *)
(* line that overlaps the range, and a shard without those lines.              *)
WideRegions(first, count) ==
    LET low == IF first > Line - 1 THEN first - (Line - 1) ELSE 0
    IN (low \div Region) .. ((first + count - 1) \div Region)

InvalidateWide(r, first, count) ==
    SelectSeq(wide[r], LAMBDA l : Span(l.key, Line) \cap Span(first, count) = {})

(* cache_invalidate_legacy_range_after_write *)
InvalidateNarrow(first, count) ==
    [r \in Shards |-> Without(narrow[r], Span(first, count))]

(* read_fill_token and read_fill_token_is_current *)
FillToken == IF coordinator.writers # 0 THEN NoToken ELSE coordinator.epoch

TokenIsCurrent(token) ==
    token # NoToken /\ coordinator.writers = 0 /\ coordinator.epoch = token

----------------------------------------------------------------------------
(* read_with_cache and read_with_cache_versioned_fill.                         *)

(* The lookup at the head of the loop: runs of at least Line sectors use wide  *)
(* lines, shorter ones narrow lines up to the end of the buffer's page.  A hit *)
(* is copied; a miss asks the device for the missing lines that follow it.     *)
ReadLook(t) ==
    /\ AtIo(t, "look") /\ Remaining(t) > 0
    /\ LET width == IF Remaining(t) >= Line THEN Line ELSE 1
           cache == IF width = Line THEN wide ELSE narrow
           pos == io[t].pos
           hit == Cached(cache[pos \div Region], pos)
           touched == [cache EXCEPT ![pos \div Region] =
                         Append(Without(@, {pos}), [key |-> pos, data |-> DataOf(@, pos)])]
       IN IF hit
          THEN /\ io' = [io EXCEPT ![t].pos = pos + width,
                                   ![t].buf = DataOf(cache[pos \div Region], pos) @@ @]
               /\ IF width = Line THEN wide' = touched /\ UNCHANGED narrow
                                  ELSE narrow' = touched /\ UNCHANGED wide
          ELSE \E limit \in IF width = Line THEN {Remaining(t) \div Line} ELSE 1 .. Remaining(t) :
                 LET missing == {n \in 1 .. limit :
                                   \A i \in 0 .. n - 1 :
                                     ~Cached(cache[(pos + i * width) \div Region], pos + i * width)}
                     most == CHOOSE n \in missing : \A m \in missing : m <= n
                 IN /\ io' = [io EXCEPT ![t].at = "token", ![t].count = most * width]
                    /\ UNCHANGED cacheVars
    /\ UNCHANGED <<device, coordinator, sequence, physical, logical, ios, latest, misread>>

(* cache_read_fill_token; the plain read takes none. *)
ReadToken(t) ==
    /\ AtIo(t, "token")
    /\ io' = [io EXCEPT ![t].at = "device", ![t].token = FillToken]
    /\ UNCHANGED <<device, wide, narrow, coordinator, sequence, physical, logical, ios, latest,
                   misread>>

(* read_uncached: the device returns the sectors. *)
ReadDevice(t) ==
    /\ AtIo(t, "device")
    /\ io' = [io EXCEPT ![t].at = "fill",
                        ![t].buf = [s \in Span(io[t].pos, io[t].count) |-> device[s]] @@ @]
    /\ UNCHANGED <<device, wide, narrow, coordinator, sequence, physical, logical, ios, latest,
                   misread>>

(* The plain read publishes what it read, the versioned one only when no write *)
(* of the device began or ended since its token.                               *)
ReadFill(t) ==
    /\ AtIo(t, "fill")
    /\ LET publish == io[t].op = "read" \/ TokenIsCurrent(io[t].token)
           wideRun == Remaining(t) >= Line
       IN /\ wide' = IF publish /\ wideRun
                     THEN InsertRun(wide, io[t].pos, io[t].count, Line, io[t].buf) ELSE wide
          /\ narrow' = IF publish /\ ~wideRun
                       THEN InsertRun(narrow, io[t].pos, io[t].count, 1, io[t].buf) ELSE narrow
    /\ io' = [io EXCEPT ![t].at = "look", ![t].pos = @ + io[t].count, ![t].token = NoToken]
    /\ UNCHANGED <<device, coordinator, sequence, physical, logical, ios, latest, misread>>

----------------------------------------------------------------------------
(* write_with_cache.                                                           *)

(* begin_device_write: the first thing the call does. *)
BeginDevice(t) ==
    /\ AtIo(t, "devbegin")
    /\ coordinator' = [epoch |-> coordinator.epoch + 1, writers |-> coordinator.writers + 1]
    /\ io' = [io EXCEPT ![t].at = "wlook", ![t].pos = First(t)]
    /\ UNCHANGED <<device, wide, narrow, sequence, physical, logical, ios, latest, misread>>

(* A run longer than a line goes to the device in one request; a shorter one   *)
(* up to the end of the buffer's page.                                         *)
WriteLook(t) ==
    /\ AtIo(t, "wlook") /\ Remaining(t) > 0
    /\ \E n \in IF Remaining(t) > Line THEN {Remaining(t)} ELSE 1 .. Remaining(t) :
         io' = [io EXCEPT ![t].at = "wdevice", ![t].count = n, ![t].left = Span(io[t].pos, n)]
    /\ UNCHANGED <<device, wide, narrow, coordinator, sequence, physical, logical, ios, latest,
                   misread>>

(* write_uncached: the device stores the sectors of the request one by one. *)
WriteDevice(t) ==
    /\ AtIo(t, "wdevice")
    /\ LET s == CHOOSE s \in io[t].left : \A r \in io[t].left : s <= r
           last == io[t].left = {s}
       IN /\ device' = [device EXCEPT ![s] = io[t].buf[s]]
          /\ io' = [io EXCEPT ![t].at = IF last THEN "winvalid" ELSE @,
                              ![t].left = IF last THEN WideRegions(io[t].pos, io[t].count)
                                                  ELSE @ \ {s}]
    /\ UNCHANGED <<wide, narrow, coordinator, sequence, physical, logical, ios, latest, misread>>

(* The wide lines that overlap the request go, one shard after the other. *)
WriteInvalidate(t) ==
    /\ AtIo(t, "winvalid")
    /\ LET r == CHOOSE r \in io[t].left : \A q \in io[t].left : r <= q
       IN /\ wide' = [wide EXCEPT ![r] = InvalidateWide(r, io[t].pos, io[t].count)]
          /\ io' = [io EXCEPT ![t].left = @ \ {r},
                              ![t].at = IF io[t].left = {r} THEN "wupdate" ELSE @]
    /\ UNCHANGED <<device, narrow, coordinator, sequence, physical, logical, ios, latest, misread>>

(* A request of at least a line drops its narrow lines and caches its whole    *)
(* lines; a shorter one updates its narrow lines.                              *)
WriteUpdate(t) ==
    /\ AtIo(t, "wupdate")
    /\ IF io[t].count >= Line
       THEN /\ narrow' = InvalidateNarrow(io[t].pos, io[t].count)
            /\ wide' = InsertRun(wide, io[t].pos, io[t].count, Line, io[t].buf)
       ELSE /\ narrow' = InsertRun(narrow, io[t].pos, io[t].count, 1, io[t].buf)
            /\ UNCHANGED wide
    /\ io' = [io EXCEPT ![t].at = "wlook", ![t].pos = @ + io[t].count]
    /\ UNCHANGED <<device, coordinator, sequence, physical, logical, ios, latest, misread>>

(* DeviceWriteGuard::drop. *)
EndDevice(t) ==
    /\ AtIo(t, "wlook") /\ Remaining(t) = 0
    /\ coordinator' = [epoch |-> coordinator.epoch + 1, writers |-> coordinator.writers - 1]
    /\ GoIo(t, "seqend")
    /\ UNCHANGED <<device, wide, narrow, sequence, physical, logical, ios, latest, misread>>

----------------------------------------------------------------------------
(* The ext4 accesses around the cache.                                         *)

(* A call arrives: KernelDisk::read_blocks ("read"), the execution of a read   *)
(* plan ("planread"), KernelDisk::write_blocks ("write") or the preparation of *)
(* a write plan ("planwrite"), whose caller covers part of the plan's blocks.  *)
EnterIo(t) ==
    /\ AtIo(t, "idle") /\ ios < MaxIo
    /\ \E op \in IoOps[t], run \in IoRuns :
         LET sectors == Span(run[1], run[2])
         IN \E part \in IF op = "planwrite" THEN {p \in Parts : p \subseteq sectors}
                                            ELSE {sectors} :
            io' = [io EXCEPT ![t] = [IdleIo EXCEPT !.op = op, !.run = run, !.part = part,
                            !.stamp = ios + 1,
                            !.at = CASE op \in {"read", "planread"} -> "stable"
                                     [] op = "write" -> "lease"
                                     [] op = "planwrite" -> "plan"]]
    /\ ios' = ios + 1
    /\ UNCHANGED <<device, wide, narrow, coordinator, sequence, physical, logical, latest, misread>>

(* prepare_write_plan: the plan reserves its blocks or the caller falls back   *)
(* to the ordinary write.                                                      *)
PlanReserve(t) ==
    /\ AtIo(t, "plan")
    /\ IF logical \cap RunOf(t) = {}
       THEN /\ logical' = logical \cup RunOf(t) /\ GoIo(t, "lease")
       ELSE /\ io' = [io EXCEPT ![t].op = "write", ![t].at = "lease"]
            /\ UNCHANGED logical
    /\ UNCHANGED <<device, wide, narrow, coordinator, sequence, physical, ios, latest, misread>>

(* Ext4PhysicalLeaseTable::reserve_wait.  A plan that covers only part of its  *)
(* blocks reads them first.                                                    *)
Lease(t) ==
    /\ AtIo(t, "lease") /\ physical \cap RunOf(t) = {}
    /\ physical' = physical \cup RunOf(t)
    /\ io' = [io EXCEPT ![t].at = IF io[t].part # RunOf(t) THEN "stable" ELSE "seqbegin"]
    /\ UNCHANGED <<device, wide, narrow, coordinator, sequence, logical, ios, latest, misread>>

(* Ext4Sequence::stable_value: the reader yields while a writer is active. *)
StableValue(t) ==
    /\ AtIo(t, "stable") /\ sequence.writers = 0
    /\ io' = [io EXCEPT ![t].at = "look", ![t].before = sequence, ![t].pos = First(t),
                        ![t].buf = <<>>]
    /\ UNCHANGED <<device, wide, narrow, coordinator, sequence, physical, logical, ios, latest,
                   misread>>

UnchangedSince(value) == sequence = value

(* The end of Ext4Sequence::read_stable: a copy that overlapped a writer is    *)
(* discarded.  A plain or plan read returns, a partial write goes on.          *)
ReadStable(t) ==
    /\ AtIo(t, "look") /\ Remaining(t) = 0
    /\ IF ~UnchangedSince(io[t].before)
       THEN GoIo(t, "stable") /\ UNCHANGED misread
       ELSE IF io[t].op \in {"read", "planread"}
       THEN /\ io' = [io EXCEPT ![t] = IdleIo]
            /\ misread' = (misread \/ \E s \in RunOf(t) : io[t].buf[s] # device[s])
       ELSE GoIo(t, "seqbegin") /\ UNCHANGED misread
    /\ UNCHANGED <<device, wide, narrow, coordinator, sequence, physical, logical, ios, latest>>

(* Ext4Sequence::begin_write, once the caller's bytes are in the buffer. *)
BeginWrite(t) ==
    /\ AtIo(t, "seqbegin")
    /\ sequence' = [sequence EXCEPT !.writers = @ + 1]
    /\ io' = [io EXCEPT ![t].at = "devbegin",
                        ![t].buf = [s \in io[t].part |-> io[t].stamp] @@ @]
    /\ UNCHANGED <<device, wide, narrow, coordinator, physical, logical, ios, latest, misread>>

(* Ext4SequenceWriteGuard::drop. *)
EndWrite(t) ==
    /\ AtIo(t, "seqend")
    /\ sequence' = [epoch |-> sequence.epoch + 1, writers |-> sequence.writers - 1]
    /\ GoIo(t, "release")
    /\ UNCHANGED <<device, wide, narrow, coordinator, physical, logical, ios, latest, misread>>

(* The leases go: the physical one, then the plan's logical one. *)
ReleaseLeases(t) ==
    /\ AtIo(t, "release")
    /\ physical' = physical \ RunOf(t)
    /\ logical' = IF io[t].op = "planwrite" THEN logical \ RunOf(t) ELSE logical
    /\ latest' = [s \in Sector |-> IF s \in io[t].part THEN io[t].stamp ELSE latest[s]]
    /\ io' = [io EXCEPT ![t] = IdleIo]
    /\ UNCHANGED <<device, wide, narrow, coordinator, sequence, ios, misread>>

IoStep(t) ==
    \/ PlanReserve(t) \/ Lease(t) \/ StableValue(t) \/ ReadLook(t) \/ ReadToken(t)
    \/ ReadDevice(t) \/ ReadFill(t) \/ ReadStable(t) \/ BeginWrite(t) \/ BeginDevice(t)
    \/ WriteLook(t) \/ WriteDevice(t) \/ WriteInvalidate(t) \/ WriteUpdate(t) \/ EndDevice(t)
    \/ EndWrite(t) \/ ReleaseLeases(t)

IoNext == \E t \in IoThread : EnterIo(t) \/ IoStep(t)

IoSpec == IoInit /\ [][IoNext]_ioVars

(* A thread that can run runs: its waits are yields of the scheduler. *)
IoFairness == \A t \in IoThread : SF_ioVars(IoStep(t))

----------------------------------------------------------------------------
Writing(t) == io[t].at \in {"devbegin", "wlook", "wdevice", "winvalid", "wupdate"}

(* The cache is write-through: whenever no write of the device is in flight,   *)
(* every line of either width holds what the device holds, however reads that  *)
(* fill the cache, writes and evictions were interleaved and whichever region  *)
(* a line that crosses a boundary belongs to (write_with_cache,                *)
(* cache_insert_read4k_run_if_token).                                          *)
LinesCurrent ==
    coordinator.writers = 0 =>
        \A r \in Shards :
            /\ \A i \in DOMAIN wide[r] : \A s \in DOMAIN wide[r][i].data :
                   wide[r][i].data[s] = device[s]
            /\ \A i \in DOMAIN narrow[r] : \A s \in DOMAIN narrow[r][i].data :
                   narrow[r][i].data[s] = device[s]

(* A read through the sequence never returns part of a write or an overwritten *)
(* line: the bytes it returns are the device's, all of one moment              *)
(* (Ext4Sequence::read_stable, Ext4DeviceReadPlan::execute).                   *)
ReadsExact == ~misread

(* No write is lost: a sector that no call holds a lease on keeps the bytes of *)
(* the last write that covered it, also when the read-modify-write of a plan   *)
(* over neighbouring sectors was under way at the same time                    *)
(* (Ext4DeviceWritePlan::execute, Ext4PhysicalLeaseTable).                     *)
WritesKept == \A s \in Sector \ physical : device[s] = latest[s]

(* Every device access ends: readers that wait for the writers of the sequence *)
(* and writers that wait for leases never wait for each other                  *)
(* (Ext4Sequence::stable_value, Ext4PhysicalLeaseTable::reserve_wait).         *)
IoCallsEnd == \A t \in IoThread : (io[t].op # "none") ~> (io[t].op = "none")
=============================================================================
