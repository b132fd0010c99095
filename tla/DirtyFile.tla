----------------------------- MODULE DirtyFile -----------------------------
(***************************************************************************)
(* The dirty write-back overlay of regular files: fs/inode_state/dirty.rs  *)
(* and the read, write, truncate and flush paths of fs/vfs/file.rs.        *)
(*                                                                         *)
(* A file is a sequence of cells, PageCells to a page.  The backend holds  *)
(* `backend[f]`; `dpages[f]` is DirtyFileCache::pages, each page with its  *)
(* data and its list of dirty ranges; `content[f]` is what the completed   *)
(* calls make of the file, the reference for the properties.               *)
(*                                                                         *)
(* Every change of the overlay happens under the inode's mapping-mutation  *)
(* lease, so a cached write is one step.  A flush keeps the lease while it *)
(* collects the pages, writes their runs and, on an error, restores them.  *)
(* Readers look at the overlay without the lease.                          *)
(*                                                                         *)
(* The clean page cache between the overlay and the backend, with the      *)
(* mutation guards of the same calls, is module PageCache; here a read     *)
(* that the overlay cannot serve goes to the backend.                      *)
(***************************************************************************)
EXTENDS Integers, Sequences, FiniteSets, SequencesExt

CONSTANTS
    File,        \* regular files of one mount, in the order of the shards
    FileThread,  \* threads
    CallsOf,     \* thread -> the calls it makes
    FilesOf,     \* thread -> the files it makes them on
    PageCells,   \* PAGE_SIZE
    ChunkCells,  \* VFS_WRITE_CHUNK_SIZE = VFS_DIRTY_WRITEBACK_MAX_WRITE_SIZE
    FileOffs, FileLens, \* offsets and lengths of the calls
    MaxSize,     \* bound: cells of a file
    DirtyMax,    \* VFS_DIRTY_WRITEBACK_MAX_PAGES
    PressureInodes,  \* VFS_DIRTY_PRESSURE_MAX_INODES
    PressurePages,   \* VFS_DIRTY_PRESSURE_MAX_PAGES
    FileErrors,  \* threads whose backend calls may fail
    MaxFileCalls, \* bound: calls made
    NoFileThread

VARIABLES
    backend,     \* file -> its cells on the backend
    dpages,      \* file -> DirtyFileCache::pages
    logical,     \* file -> DirtyFileCache::logical_size
    total,       \* TOTAL_DIRTY_PAGES
    onList,      \* file -> InodeState::on_dirty_list
    dqueue,      \* DIRTY_INODE_QUEUES
    pins,        \* file -> backend pins taken for the queue
    mapLease,    \* file -> thread that holds the mapping-mutation lease
    fop,         \* thread -> its call
    content,     \* file -> its cells by the calls that took effect
    fseen,       \* thread -> contents of its file during its read
    misplaced,   \* an append landed elsewhere than at the end
    fcalls,      \* calls made
    dirtyFault   \* an assertion of dirty.rs failed

dirtyVars == <<backend, dpages, logical, total, onList, dqueue, pins, mapLease, fop,
               content, fseen, misplaced, fcalls, dirtyFault>>
overlayVars == <<dpages, logical, total, onList, dqueue, pins, dirtyFault>>

Lesser(a, b) == IF a < b THEN a ELSE b
Greater(a, b) == IF a < b THEN b ELSE a
FileIdle == [step |-> "idle"]
NoBatch == [pages |-> <<>>, left |-> {}, size |-> 0, owns |-> FALSE]
Unbounded == MaxSize + 1         \* usize::MAX as a page budget

(* Cells of a file: a write past the end leaves zeros before it. *)
Splice(s, off, v) ==
    [i \in 1 .. Greater(Len(s), off + Len(v)) |->
        IF i > off /\ i <= off + Len(v) THEN v[i - off]
        ELSE IF i <= Len(s) THEN s[i] ELSE 0]
Slice(s, off, len) == SubSeq(s, off + 1, Lesser(Len(s), off + len))
Repeat(v, n) == [i \in 1 .. n |-> v]

(***************************************************************************)
(* DirtyPage.                                                              *)
(***************************************************************************)
PageIndex(off) == off \div PageCells
EmptyPage == [data |-> [i \in 0 .. PageCells - 1 |-> 0], ranges |-> <<>>]
FullPage(page) == \E i \in DOMAIN page.ranges : page.ranges[i] = <<0, PageCells>>

(* mark_dirty: the loop over the sorted ranges, `rest` once it broke off. *)
Absorb(acc, r) ==
    IF acc.rest # <<>> \/ r[1] > acc.e THEN [acc EXCEPT !.rest = Append(@, r)]
    ELSE IF r[2] < acc.s THEN [acc EXCEPT !.before = Append(@, r)]
    ELSE [acc EXCEPT !.s = Lesser(@, r[1]), !.e = Greater(@, r[2])]
MarkDirty(ranges, s, e) ==
    LET acc == FoldLeft(Absorb, [before |-> <<>>, rest |-> <<>>, s |-> s, e |-> e], ranges)
    IN  IF s = e THEN ranges
        ELSE acc.before \o << <<acc.s, acc.e>> >> \o acc.rest

RangeCells(ranges) ==
    UNION {ranges[i][1] .. ranges[i][2] - 1 : i \in DOMAIN ranges}
DirtyCells(pages) ==
    UNION {{p * PageCells + c : c \in RangeCells(pages[p].ranges)} : p \in DOMAIN pages}
CellOf(pages, o) == pages[PageIndex(o)].data[o % PageCells]

(* prepare_dirty_regular_pages and merge_dirty_page_write. *)
WritePage(page, base, off, v) ==
    LET s == Greater(off, base) - base
        e == Lesser(off + Len(v), base + PageCells) - base
    IN  [data |-> [i \in 0 .. PageCells - 1 |->
                      IF i >= s /\ i < e THEN v[base + i - off + 1] ELSE page.data[i]],
         ranges |-> MarkDirty(page.ranges, s, e)]
PagesOf(off, len) == PageIndex(off) .. PageIndex(off + len - 1)
WritePages(pages, off, v) ==
    [p \in DOMAIN pages \cup PagesOf(off, Len(v)) |->
        LET old == IF p \in DOMAIN pages THEN pages[p] ELSE EmptyPage
        IN  IF p \in PagesOf(off, Len(v)) THEN WritePage(old, p * PageCells, off, v)
            ELSE old]

(***************************************************************************)
(* The overlay of one file.                                                *)
(***************************************************************************)
HasPages(f) == dpages[f] # <<>>
LogicalSize(f) == IF HasPages(f) THEN logical[f] ELSE Len(backend[f])
(* overlay_dirty_regular_read over the cells `buf` read at `off`. *)
Overlaid(pages, size, off, buf) ==
    [i \in DOMAIN buf |->
        LET o == off + i - 1
        IN  IF o \in DirtyCells(pages) /\ o < size THEN CellOf(pages, o) ELSE buf[i]]

Drop0(pages, out) == [p \in DOMAIN pages \ out |-> pages[p]]
Become(f, pages, size) ==
    /\ dpages' = [dpages EXCEPT ![f] = pages]
    /\ logical' = [logical EXCEPT ![f] = size]

(* register_dirty_inode and take_dirty_inode, with their assertions. *)
Register(f) ==
    /\ onList' = [onList EXCEPT ![f] = TRUE]
    /\ dqueue' = Append(dqueue, f)
    /\ dirtyFault' = (dirtyFault \/ onList[f] \/ f \in ToSet(dqueue))
TakeDirty(f) ==
    /\ onList' = [onList EXCEPT ![f] = FALSE]
    /\ dqueue' = SelectSeq(dqueue, LAMBDA g : g # f)
    /\ dirtyFault' = (dirtyFault \/ ~onList[f] \/ f \notin ToSet(dqueue))

DirtyInit ==
    /\ backend = [f \in File |-> Repeat(1, PageCells)]
    /\ dpages = [f \in File |-> <<>>] /\ logical = [f \in File |-> 0]
    /\ total = 0 /\ onList = [f \in File |-> FALSE] /\ dqueue = <<>>
    /\ pins = [f \in File |-> 0] /\ mapLease = [f \in File |-> NoFileThread]
    /\ fop = [t \in FileThread |-> FileIdle]
    /\ content = backend /\ fseen = [t \in FileThread |-> {}]
    /\ misplaced = FALSE /\ fcalls = 0 /\ dirtyFault = FALSE

(* A change of a file's contents is seen by the calls that are running. *)
Takes(f, cells) ==
    /\ content' = [content EXCEPT ![f] = cells]
    /\ fseen' = [t \in FileThread |->
          IF fseen[t] = {} \/ fop[t].f # f THEN fseen[t] ELSE fseen[t] \cup {cells}]

(***************************************************************************)
(* Calls.  A write takes the next stamp as its data.                       *)
(***************************************************************************)
Starts(call) ==
    CASE call \in {"write", "aligned", "aligned_at"} -> "chunk"
      [] call = "append" -> "stat"
      [] call \in {"setlen", "alloc", "zero", "punch", "sync"} -> "flush"
      [] call = "syncfs" -> "collect"
      [] call = "read" -> "check"
Aligned(call) == call \in {"aligned", "aligned_at"}
FitsCall(call, off, len) ==
    /\ off + len <= MaxSize
    /\ call = "syncfs" => len = 0 /\ off = 0
    /\ call = "sync" => len = 0 /\ off = 0
    /\ call = "setlen" => off = 0
    /\ call = "append" => off = 0 /\ len > 0
    /\ call \in {"write", "read", "aligned", "aligned_at", "alloc", "zero", "punch"} => len > 0
    /\ Aligned(call) => off % PageCells = 0 /\ len % PageCells = 0

Enter(t) ==
    /\ fop[t].step = "idle" /\ fcalls < MaxFileCalls
    /\ \E call \in CallsOf[t], f \in FilesOf[t], off \in FileOffs, len \in FileLens,
          keep \in BOOLEAN :
          /\ FitsCall(call, off, len)
          /\ keep => call \in {"alloc", "zero"}
          /\ fop' = [fop EXCEPT ![t] =
                [step |-> Starts(call), call |-> call, f |-> f, off |-> off, len |-> len,
                 keep |-> keep, val |-> fcalls + 2, retried |-> FALSE, force |-> FALSE,
                 todo |-> <<>>, budget |-> 0, ok |-> TRUE, of |-> f, batch |-> NoBatch,
                 after |-> "return", buf |-> <<>>]]
          /\ fseen' = [fseen EXCEPT ![t] = IF call = "read" THEN {content[f]} ELSE {}]
    /\ fcalls' = fcalls + 1
    /\ UNCHANGED <<backend, overlayVars, mapLease, content, misplaced>>

Set(t, r) == fop' = [fop EXCEPT ![t] = r]
ChunkLen(o) == IF Aligned(o.call) THEN o.len ELSE Lesser(o.len, ChunkCells)
Chunk(o) == Repeat(o.val, ChunkLen(o))
(* After `n` cells of a chunk: the next chunk, or the end of the call. *)
Advanced(o, n) ==
    IF n < ChunkLen(o) \/ o.len = n THEN FileIdle
    ELSE [o EXCEPT !.off = @ + n, !.len = @ - n, !.retried = FALSE, !.force = FALSE]

(* write_inner for O_APPEND: the size of the backend, then of the overlay. *)
AppendStat(t) ==
    /\ fop[t].step = "stat"
    /\ Set(t, [fop[t] EXCEPT !.step = "size", !.off = Len(backend[fop[t].f])])
    /\ UNCHANGED <<backend, overlayVars, mapLease, content, fseen, misplaced, fcalls>>
AppendSize(t) ==
    /\ fop[t].step = "size"
    /\ LET f == fop[t].f
           off == IF HasPages(f) THEN logical[f] ELSE fop[t].off
       IN  Set(t, IF off + fop[t].len <= MaxSize
                  THEN [fop[t] EXCEPT !.step = "chunk", !.off = off]
                  ELSE FileIdle)
    /\ UNCHANGED <<backend, overlayVars, mapLease, content, fseen, misplaced, fcalls>>

Lands(o) == misplaced' = (misplaced \/ (o.call = "append" /\ o.off # Len(content[o.f])))

(***************************************************************************)
(* cache_dirty_regular_write and ..._user_buffer_write.                    *)
(***************************************************************************)
NewPages(o) == Cardinality(PagesOf(o.off, ChunkLen(o)) \ DOMAIN dpages[o.f])
MayReserve(n) == n = 0 \/ total + n <= DirtyMax
Cacheable(o) == ~o.force /\ o.off <= LogicalSize(o.f)

MutCacheWrite(t) ==
    LET o == fop[t]
        f == o.f
    IN  /\ o.step = "chunk" /\ mapLease[f] = NoFileThread
        /\ Cacheable(o) /\ MayReserve(NewPages(o))
        /\ Become(f, WritePages(dpages[f], o.off, Chunk(o)),
                  IF HasPages(f) THEN Greater(logical[f], o.off + ChunkLen(o))
                  ELSE o.off + ChunkLen(o))
        /\ total' = total + NewPages(o)
        /\ IF HasPages(f) THEN UNCHANGED <<onList, dqueue, dirtyFault, pins>>
           ELSE Register(f) /\ pins' = [pins EXCEPT ![f] = @ + 1]
        /\ Takes(f, Splice(content[f], o.off, Chunk(o)))
        /\ Lands(o)
        /\ Set(t, Advanced(o, ChunkLen(o)))
        /\ UNCHANGED <<backend, mapLease, fcalls>>
CacheWrite(t) ==
    LET o == fop[t]
        f == o.f
    IN  /\ o.step = "chunk" /\ mapLease[f] = NoFileThread
        /\ Cacheable(o) /\ MayReserve(NewPages(o))
        /\ Become(f, WritePages(dpages[f], o.off, Chunk(o)),
                  Greater(LogicalSize(f), o.off + ChunkLen(o)))
        /\ total' = total + NewPages(o)
        /\ IF HasPages(f) THEN UNCHANGED <<onList, dqueue, dirtyFault, pins>>
           ELSE Register(f) /\ pins' = [pins EXCEPT ![f] = @ + 1]
        /\ Takes(f, Splice(content[f], o.off, Chunk(o)))
        /\ Lands(o)
        /\ Set(t, Advanced(o, ChunkLen(o)))
        /\ UNCHANGED <<backend, mapLease, fcalls>>

(* NeedsPressureFlush: once through the other files, then straight to the   *)
(* backend; an aligned call falls back to chunks or reports the error.      *)
Unaligned(o) ==
    IF o.call = "aligned_at" THEN FileIdle
    ELSE [o EXCEPT !.call = "write", !.step = "chunk", !.retried = FALSE]
CacheFull(t) ==
    LET o == fop[t]
    IN  /\ o.step = "chunk" /\ mapLease[o.f] = NoFileThread
        /\ Cacheable(o) /\ ~MayReserve(NewPages(o))
        /\ Set(t, IF ~o.retried THEN [o EXCEPT !.step = "collect"]
                  ELSE IF Aligned(o.call) THEN Unaligned(o)
                  ELSE [o EXCEPT !.force = TRUE])
        /\ UNCHANGED <<backend, overlayVars, mapLease, content, fseen, misplaced, fcalls>>

(***************************************************************************)
(* Flushes.  collect_dirty_writeback takes the first pages of the file; a  *)
(* drained inode leaves the queue and its pin passes to the batch.         *)
(***************************************************************************)
Smallest(S) == CHOOSE x \in S : \A y \in S : x <= y
FirstOf(S, n) == {x \in S : Cardinality({y \in S : y < x}) < n}

Collect(t, f, budget, after) ==
    LET out == FirstOf(DOMAIN dpages[f], budget)
        batch == [p \in out |-> dpages[f][p]]
        rest == Drop0(dpages[f], out)
    IN  /\ Become(f, rest, logical[f])
        /\ total' = total - Cardinality(out)
        /\ IF rest = <<>> THEN TakeDirty(f) ELSE UNCHANGED <<onList, dqueue, dirtyFault>>
        /\ mapLease' = [mapLease EXCEPT ![f] = t]
        /\ Set(t, [fop[t] EXCEPT !.step = "runs", !.of = f, !.after = after,
                      !.batch = [pages |-> batch, left |-> DirtyCells(batch),
                                 size |-> logical[f], owns |-> rest = <<>>]])
        /\ UNCHANGED <<backend, pins, content, fseen, misplaced, fcalls>>

(* write_dirty_writeback_pages: runs of adjacent cells up to the chunk      *)
(* size, or range by range when the scratch buffer cannot be allocated.     *)
RunLen(left, limit) ==
    CHOOSE n \in 1 .. limit :
        /\ \A i \in 0 .. n - 1 : Smallest(left) + i \in left
        /\ n = limit \/ Smallest(left) + n \notin left
RangeLen(batch) ==
    LET o == Smallest(batch.left)
        r == batch.pages[PageIndex(o)].ranges
        i == CHOOSE j \in DOMAIN r : r[j][1] <= o % PageCells /\ o % PageCells < r[j][2]
    IN  r[i][2] - (o % PageCells)
RunCells(batch, n) ==
    [i \in 1 .. n |-> CellOf(batch.pages, Smallest(batch.left) + i - 1)]

(* The flush returned: to the direct write that still needs the lease, to   *)
(* the next file, to the truncation that follows, or to the caller.         *)
Flushed(o, ok) ==
    LET pages == IF ok THEN Cardinality(DOMAIN o.batch.pages) ELSE 0
        back == [o EXCEPT !.batch = NoBatch, !.ok = @ /\ ok,
                          !.todo = IF o.after = "next" THEN Tail(@) ELSE @,
                          !.budget = IF @ = Unbounded THEN @ ELSE @ - pages]
    IN  IF o.after = "next" \/ (ok /\ o.after # "return")
        THEN [back EXCEPT !.step = o.after] ELSE FileIdle

WriteRun(t) ==
    LET o == fop[t]
        f == o.of
        off == Smallest(o.batch.left)
    IN  /\ o.step = "runs"
        /\ \E n \in {RunLen(o.batch.left, ChunkCells), RangeLen(o.batch)} :
              LET left == o.batch.left \ (off .. off + n - 1)
              IN  /\ backend' = [backend EXCEPT ![f] = Splice(@, off, RunCells(o.batch, n))]
                  /\ Set(t, IF left = {} THEN Flushed(o, TRUE)
                            ELSE [o EXCEPT !.batch.left = left])
                  /\ IF left # {} THEN UNCHANGED <<pins, mapLease>>
                     ELSE /\ pins' = [pins EXCEPT ![f] = @ - (IF o.batch.owns THEN 1 ELSE 0)]
                          /\ mapLease' = [mapLease EXCEPT ![f] =
                                IF o.after = "direct" THEN @ ELSE NoFileThread]
        /\ UNCHANGED <<dpages, logical, total, onList, dqueue, dirtyFault, content, fseen,
                       misplaced, fcalls>>

(* A failed or short write, then restore_dirty_writeback. *)
Restored(f, batch) ==
    [p \in DOMAIN dpages[f] \cup DOMAIN batch |->
        IF p \in DOMAIN dpages[f] THEN dpages[f][p] ELSE batch[p]]
RunFails(t) ==
    LET o == fop[t]
        f == o.of
        off == Smallest(o.batch.left)
        back == DOMAIN o.batch.pages \ DOMAIN dpages[f]
    IN  /\ o.step = "runs" /\ t \in FileErrors
        /\ \E n \in 0 .. RunLen(o.batch.left, ChunkCells) - 1 :
              backend' = [backend EXCEPT ![f] =
                             IF n = 0 THEN @ ELSE Splice(@, off, RunCells(o.batch, n))]
        /\ Become(f, Restored(f, o.batch.pages), Greater(logical[f], o.batch.size))
        /\ total' = total + Cardinality(back)
        /\ IF o.batch.owns /\ ~HasPages(f) THEN Register(f)
           ELSE UNCHANGED <<onList, dqueue, dirtyFault>>
        /\ pins' = [pins EXCEPT ![f] = @ - (IF o.batch.owns /\ HasPages(f) THEN 1 ELSE 0)]
        /\ mapLease' = [mapLease EXCEPT ![f] = NoFileThread]
        /\ Set(t, Flushed(o, FALSE))
        /\ UNCHANGED <<content, fseen, misplaced, fcalls>>

(* dirty_pressure_candidates, dirty_inode_states_on_mount. *)
Candidates(t) ==
    /\ fop[t].step = "collect"
    /\ Set(t, LET all == fop[t].call = "syncfs"
                  n == IF all THEN Len(dqueue) ELSE Lesser(Len(dqueue), PressureInodes)
              IN  [fop[t] EXCEPT !.step = "next", !.todo = SubSeq(dqueue, 1, n), !.ok = TRUE,
                                 !.budget = IF all THEN Unbounded ELSE PressurePages])
    /\ UNCHANGED <<backend, overlayVars, mapLease, content, fseen, misplaced, fcalls>>

(* flush_dirty_regular_files_for_pressure returned. *)
Pressed(o) ==
    IF o.call = "syncfs" THEN FileIdle
    ELSE IF o.ok THEN [o EXCEPT !.step = "chunk", !.retried = TRUE]
    ELSE IF o.call = "aligned" THEN Unaligned(o)
    ELSE FileIdle

NextFile(t) ==
    LET o == fop[t]
        f == Head(o.todo)
    IN  /\ o.step = "next"
        /\ IF o.todo = <<>> \/ o.budget <= 0
           THEN /\ Set(t, Pressed([o EXCEPT !.todo = <<>>]))
                /\ UNCHANGED <<backend, overlayVars, mapLease, content, fseen, misplaced, fcalls>>
           ELSE IF ~HasPages(f)
           THEN /\ Set(t, [o EXCEPT !.todo = Tail(@)])
                /\ UNCHANGED <<backend, overlayVars, mapLease, content, fseen, misplaced, fcalls>>
           ELSE /\ mapLease[f] = NoFileThread
                /\ Collect(t, f, o.budget, "next")

(***************************************************************************)
(* The backend write: own pages first, all under one lease.                *)
(***************************************************************************)
PinFails(t) == ~HasPages(fop[t].f) /\ t \in FileErrors      \* retain_inode
Fallback(t) ==
    LET o == fop[t]
    IN  /\ o.step = "chunk" /\ mapLease[o.f] = NoFileThread
        /\ ~Cacheable(o) \/ PinFails(t)
        /\ IF Aligned(o.call)
           THEN /\ Set(t, Unaligned(o))
                /\ UNCHANGED <<backend, overlayVars, mapLease, content, fseen, misplaced, fcalls>>
           ELSE IF HasPages(o.f) THEN Collect(t, o.f, Unbounded, "direct")
           ELSE /\ mapLease' = [mapLease EXCEPT ![o.f] = t]
                /\ Set(t, [o EXCEPT !.step = "direct"])
                /\ UNCHANGED <<backend, overlayVars, content, fseen, misplaced, fcalls>>

Direct(t) ==
    LET o == fop[t]
    IN  /\ o.step = "direct"
        /\ \E n \in {ChunkLen(o)} \cup (IF t \in FileErrors THEN 0 .. ChunkLen(o) ELSE {}) :
              /\ IF n = 0 THEN UNCHANGED <<backend, content, fseen>>
                 ELSE /\ backend' = [backend EXCEPT ![o.f] = Splice(@, o.off, Repeat(o.val, n))]
                      /\ Takes(o.f, Splice(content[o.f], o.off, Repeat(o.val, n)))
              /\ Set(t, [Advanced(o, n) EXCEPT !.step = IF @ = "direct" THEN "chunk" ELSE @])
        /\ Lands(o)
        /\ mapLease' = [mapLease EXCEPT ![o.f] = NoFileThread]
        /\ UNCHANGED <<overlayVars, fcalls>>

(***************************************************************************)
(* fsync, and the calls that change the backend after a flush of their own *)
(* lease: set_len, allocate_range, zero_range, punch_hole.                 *)
(***************************************************************************)
FlushOwn(t) ==
    LET o == fop[t]
        then == IF o.call = "sync" THEN "return" ELSE "apply"
    IN  /\ o.step = "flush"
        /\ IF HasPages(o.f)
           THEN mapLease[o.f] = NoFileThread /\ Collect(t, o.f, Unbounded, then)
           ELSE /\ Set(t, IF o.call = "sync" THEN FileIdle ELSE [o EXCEPT !.step = then])
                /\ UNCHANGED <<backend, overlayVars, mapLease, content, fseen, misplaced, fcalls>>

Extended(s, n) == IF n > Len(s) THEN Splice(s, n - 1, <<0>>) ELSE s
Applied(o, s) ==
    LET size == IF o.call = "punch" \/ o.keep THEN Len(s) ELSE Greater(Len(s), o.off + o.len)
        zeroed == [i \in DOMAIN Extended(s, size) |->
                      IF i > o.off /\ i <= o.off + o.len THEN 0 ELSE Extended(s, size)[i]]
    IN  CASE o.call = "setlen" -> [i \in 1 .. o.len |-> IF i <= Len(s) THEN s[i] ELSE 0]
          [] o.call = "alloc" -> Extended(s, size)
          [] o.call \in {"zero", "punch"} -> zeroed

Apply(t) ==
    LET o == fop[t]
    IN  /\ o.step = "apply" /\ mapLease[o.f] = NoFileThread
        /\ \/ /\ backend' = [backend EXCEPT ![o.f] = Applied(o, @)]
              /\ Takes(o.f, Applied(o, content[o.f]))
           \/ t \in FileErrors /\ UNCHANGED <<backend, content, fseen>>
        /\ Set(t, FileIdle)
        /\ UNCHANGED <<overlayVars, mapLease, misplaced, fcalls>>

(***************************************************************************)
(* Reads: read_dirty_regular_at, then read_backend_at_profiled.            *)
(***************************************************************************)
ReadCheck(t) ==
    /\ fop[t].step = "check"
    /\ Set(t, [fop[t] EXCEPT !.step = IF HasPages(fop[t].f) THEN "overlay" ELSE "backend"])
    /\ UNCHANGED <<backend, overlayVars, mapLease, content, fseen, misplaced, fcalls>>

MutServes(pages, off, len) ==
    \A p \in PagesOf(off, len) : p \in DOMAIN pages
Serves(pages, off, len) ==
    \A p \in PagesOf(off, len) : p \in DOMAIN pages /\ FullPage(pages[p])
ReadDirty(t) ==
    LET o == fop[t]
        pages == dpages[o.f]
        len == Lesser(o.len, logical[o.f] - o.off)
    IN  /\ o.step = "overlay"
        /\ Set(t, IF o.off >= logical[o.f] THEN [o EXCEPT !.step = "got", !.buf = <<>>]
                  ELSE IF Serves(pages, o.off, len)
                  THEN [o EXCEPT !.step = "got",
                                 !.buf = [i \in 1 .. len |-> CellOf(pages, o.off + i - 1)]]
                  ELSE [o EXCEPT !.step = "backend"])
        /\ UNCHANGED <<backend, overlayVars, mapLease, content, fseen, misplaced, fcalls>>

(* The backend read holds the mapping read lease, and gives it back. *)
ReadBackend(t) ==
    LET o == fop[t]
    IN  /\ o.step = "backend" /\ mapLease[o.f] = NoFileThread
        /\ Set(t, [o EXCEPT !.step = "length", !.buf = Slice(backend[o.f], o.off, o.len)])
        /\ UNCHANGED <<backend, overlayVars, mapLease, content, fseen, misplaced, fcalls>>

(* dirty_regular_read_len, then the overlay over the longer buffer. *)
ReadLength(t) ==
    LET o == fop[t]
        dirty == IF logical[o.f] <= o.off THEN 0 ELSE Lesser(o.len, logical[o.f] - o.off)
    IN  /\ o.step = "length"
        /\ Set(t, IF ~HasPages(o.f) THEN [o EXCEPT !.step = "read"]
                  ELSE [o EXCEPT !.step = "merge",
                           !.buf = [i \in 1 .. Greater(Len(@), dirty) |->
                                       IF i <= Len(@) THEN @[i] ELSE 0]])
        /\ UNCHANGED <<backend, overlayVars, mapLease, content, fseen, misplaced, fcalls>>
ReadMerge(t) ==
    LET o == fop[t]
    IN  /\ o.step = "merge"
        /\ Set(t, [o EXCEPT !.step = "read",
                      !.buf = IF HasPages(o.f) THEN Overlaid(dpages[o.f], logical[o.f], o.off, @)
                              ELSE @])
        /\ UNCHANGED <<backend, overlayVars, mapLease, content, fseen, misplaced, fcalls>>

Return(t) ==
    /\ fop[t].step \in {"got", "read"}
    /\ Set(t, FileIdle)
    /\ fseen' = [fseen EXCEPT ![t] = {}]
    /\ UNCHANGED <<backend, overlayVars, mapLease, content, misplaced, fcalls>>

Steps(t) ==
    \/ AppendStat(t) \/ AppendSize(t) \/ CacheWrite(t) \/ CacheFull(t) \/ Candidates(t)
    \/ NextFile(t) \/ WriteRun(t) \/ RunFails(t) \/ Fallback(t) \/ Direct(t) \/ FlushOwn(t)
    \/ Apply(t) \/ ReadCheck(t) \/ ReadDirty(t) \/ ReadBackend(t) \/ ReadLength(t)
    \/ ReadMerge(t) \/ Return(t)
DirtyNext == \E t \in FileThread : Enter(t) \/ Steps(t)
DirtySpec == DirtyInit /\ [][DirtyNext]_dirtyVars
(* A thread in a call is scheduled, and FIFO leases pass to every waiter. *)
DirtyFairness == \A t \in FileThread : SF_dirtyVars(Steps(t))

-----------------------------------------------------------------------------
(* Flushes under way: the file's overlay is split with their batch. *)
Flushing(f) == {t \in FileThread : fop[t].step = "runs" /\ fop[t].of = f}
View(f) ==
    LET under == IF Flushing(f) = {} THEN [pages |-> <<>>, size |-> Len(backend[f])]
                 ELSE fop[CHOOSE t \in Flushing(f) : TRUE].batch
        size == IF HasPages(f) THEN logical[f]
                ELSE IF Flushing(f) # {} THEN under.size ELSE Len(backend[f])
        base == [i \in 1 .. size |-> IF i <= Len(backend[f]) THEN backend[f][i] ELSE 0]
    IN  Overlaid(dpages[f], size, 0, Overlaid(under.pages, size, 0, base))

(* No write is lost: the overlay, above a batch in flight, above the        *)
(* backend is the file the calls made, through partial flushes, failed and  *)
(* short backend writes and restored batches (file.rs 772-922).             *)
OverlayKeepsWrites == \A f \in File : View(f) = content[f]

(* The counts agree with the overlays: the total, the queue membership and  *)
(* the backend pin of a dirty inode, owned by the queue or by the batch that *)
(* drained it; the assertions of dirty.rs never fire.                       *)
DirtyCountsExact ==
    /\ ~dirtyFault
    /\ total = Cardinality(UNION {{<<f, p>> : p \in DOMAIN dpages[f]} : f \in File})
    /\ \A f \in File :
          /\ onList[f] <=> HasPages(f)
          /\ Cardinality({i \in DOMAIN dqueue : dqueue[i] = f}) = IF onList[f] THEN 1 ELSE 0
          /\ pins[f] = (IF onList[f] THEN 1 ELSE 0)
                       + Cardinality({t \in Flushing(f) : fop[t].batch.owns})

(* mark_dirty keeps the ranges of a page sorted, disjoint and never          *)
(* adjacent, whatever order the writes come in.                             *)
RangesNormal ==
    \A f \in File : \A p \in DOMAIN dpages[f] :
        LET r == dpages[f][p].ranges
        IN  /\ r # <<>>
            /\ \A i \in DOMAIN r : r[i][1] < r[i][2]
            /\ \A i \in 1 .. Len(r) - 1 : r[i][2] < r[i + 1][1]

(* A read that the overlay serves whole returns the file as it was at one   *)
(* moment of the call, although it takes no mapping lease.                  *)
DirtyReadsFresh ==
    \A t \in FileThread :
        fop[t].step = "got" =>
            \E s \in fseen[t] : fop[t].buf = Slice(s, fop[t].off, fop[t].len)

(* The same of a read that goes to the backend and overlays the dirty cells *)
(* afterwards.                                                              *)
BackendReadsFresh ==
    \A t \in FileThread :
        fop[t].step = "read" =>
            \E s \in fseen[t] : fop[t].buf = Slice(s, fop[t].off, fop[t].len)

(* write_append: an appended chunk starts where the file ended.             *)
AppendsAtEnd == ~misplaced

(* Every call ends: a write under dirty pressure retries once and then      *)
(* forces its way to the backend, and no two leases are ever held at once.  *)
FileCallsEnd == \A t \in FileThread : fop[t].step # "idle" ~> fop[t].step = "idle"
=============================================================================
