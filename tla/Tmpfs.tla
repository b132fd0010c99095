------------------------------- MODULE Tmpfs -------------------------------
(***************************************************************************)
(* The in-memory file system of fs/tmpfs.rs.  A regular file holds its     *)
(* first InlineLimit bytes in a vector and the rest in a map of sparse     *)
(* extents, each of them plain bytes or a repeated pattern, and counts the *)
(* bytes it has allocated; a mount may have a quota.  Directories, links,  *)
(* opens and deletion are kept per inode.                                  *)
(*                                                                         *)
(* Every call runs under the lock of its mount, so each one is an action.  *)
(* The ghost `want' is the content a byte array would have after the same  *)
(* calls, `opens' the descriptors that are open.  Timestamps, modes and    *)
(* owners are left out; the lookups of fs/inode.rs that decide a namespace *)
(* call are part of its action (Namespace.tla has their interleavings).    *)
(***************************************************************************)
EXTENDS Naturals, Integers, Sequences, FiniteSets, SequencesExt, FiniteSetsExt

CONSTANTS TmpOps,       \* the calls made
          TmpNames,     \* names of directory entries
          TmpKinds,     \* the kinds of inode created: "file", "dir", "other"
          MaxIno,       \* bound on the inodes ever created
          MaxOpens,     \* bound on the descriptors of one inode
          MaxEnd,       \* bound on offsets: no call passes it
          Buffers,      \* the byte sequences written
          ZeroInside,   \* zeros are also written before the end of a file
          InlineLimit,  \* inline_file_limit of the mount
          ExtentLimit,  \* TMPFS_SPARSE_EXTENT_LIMIT
          PayloadLimit, \* TMPFS_ALLOCATED_PAYLOAD_LIMIT
          Quota,        \* logical_quota_bytes, or NoQuota
          QuotaStep,    \* the 4096 of quota_limited_write_len
          NoQuota

VARIABLES inodes,  \* the inode table: a function from inode numbers
          nextIno, \* next_ino
          want,    \* ghost: what each regular file should contain
          opens    \* ghost: the open descriptors of each inode

tmpVars == <<inodes, nextIno, want, opens>>

ROOT_INO == 2

\* TmpfsInode::new.  An extent is [pat, len, rep]: the bytes of `pat', or
\* `pat' repeated up to `len'.
NewInode(kind, parent) ==
    [kind |-> kind, nlink |-> IF kind = "dir" THEN 2 ELSE 1, open |-> 0,
     pending |-> FALSE, parent |-> parent, children |-> <<>>,
     size |-> 0, data |-> <<>>, sparse |-> <<>>, payload |-> 0, logical |-> 0]

TmpInit ==
    /\ inodes = (ROOT_INO :> NewInode("dir", ROOT_INO))
    /\ nextIno = ROOT_INO + 1
    /\ want = <<>>
    /\ opens = (ROOT_INO :> 0)

---------------------------------------------------------------------------
(* Extents                                                                 *)

Zeros(n) == [i \in 1..n |-> 0]

Bytes(buf) == [pat |-> buf, len |-> Len(buf), rep |-> FALSE]

RepeatedValue(value, len) == [pat |-> <<value>>, len |-> len, rep |-> TRUE]

\* Byte `i' of a pattern that repeats.
At(pat, i) == pat[(i % Len(pat)) + 1]

MatchingPrefix(pat, from, buf) ==
    Max({m \in 0..Len(buf) : \A i \in 0..(m - 1) : buf[i + 1] = At(pat, from + i)})

\* slice: the part of an extent from `from', at most `len' bytes.
ExtentSlice(x, from, len) ==
    LET n == IF len < x.len - from THEN len ELSE x.len - from
        m == IF Len(x.pat) < n THEN Len(x.pat) ELSE n
        rotated == [i \in 1..m |-> At(x.pat, from + i - 1)]
    IN  IF ~x.rep THEN Bytes(SubSeq(x.pat, from + 1, from + n))
        ELSE IF n < Len(x.pat) THEN Bytes(rotated)
        ELSE [pat |-> rotated, len |-> n, rep |-> TRUE]

TruncateTo(x, len) ==
    IF x.rep THEN [x EXCEPT !.len = IF @ < len THEN @ ELSE len]
    ELSE Bytes(SubSeq(x.pat, 1, len))

NotAppended == -1

\* try_append: the extent after taking a prefix of `buf', and how much of it
\* it took; NotAppended when it cannot take any.
TryAppend(x, buf, payload) ==
    LET matched == MatchingPrefix(x.pat, x.len, buf)
        room == ExtentLimit - Len(x.pat)
        n == IF Len(buf) < room THEN Len(buf) ELSE room
    IN  IF x.rep
        THEN [ext |-> [x EXCEPT !.len = @ + matched],
              n |-> IF matched = 0 THEN NotAppended ELSE matched]
        ELSE IF matched = Len(buf)
             THEN [ext |-> [x EXCEPT !.len = @ + matched, !.rep = TRUE], n |-> matched]
        ELSE IF room <= 0 THEN [ext |-> x, n |-> NotAppended]
        ELSE IF payload + n > PayloadLimit THEN [ext |-> x, n |-> 0]
        ELSE [ext |-> Bytes(x.pat \o SubSeq(buf, 1, n)), n |-> n]

---------------------------------------------------------------------------
(* The sparse map of an inode and its accounting                           *)

Less(m, n) == IF m < n THEN 0 ELSE m - n

RemoveExtent(f, at) ==
    [f EXCEPT !.sparse = [a \in DOMAIN f.sparse \ {at} |-> f.sparse[a]],
              !.payload = Less(@, Len(f.sparse[at].pat)),
              !.logical = Less(@, f.sparse[at].len)]

InsertExtent(f, at, x) ==
    LET g == IF at \in DOMAIN f.sparse THEN RemoveExtent(f, at) ELSE f
    IN  [g EXCEPT !.sparse = (at :> x) @@ g.sparse,
                  !.payload = @ + Len(x.pat), !.logical = @ + x.len]

Ascending(s) == SetToSortSeq(s, LAMBDA a, b : a < b)

EndOf(f, at) == at + f.sparse[at].len

\* remove_sparse_range: cut [from, to) out of the extents that overlap it.
MutRemoveRange(f, from, to) ==
    LET cut(g, at) ==
            LET x == g.sparse[at]
                none == RemoveExtent(g, at)
                left == IF at < from
                        THEN InsertExtent(none, at, ExtentSlice(x, 0, from - at))
                        ELSE none
            IN  IF at + x.len > to
                THEN InsertExtent(left, to, ExtentSlice(x, 0, at + x.len - to))
                ELSE left
    IN  IF from >= to THEN f
        ELSE FoldLeft(cut, f, Ascending({a \in DOMAIN f.sparse :
                                             a < to /\ EndOf(f, a) > from}))

RemoveRange(f, from, to) ==
    LET cut(g, at) ==
            LET x == g.sparse[at]
                none == RemoveExtent(g, at)
                left == IF at < from
                        THEN InsertExtent(none, at, ExtentSlice(x, 0, from - at))
                        ELSE none
            IN  IF at + x.len > to
                THEN InsertExtent(left, to, ExtentSlice(x, to - at, at + x.len - to))
                ELSE left
    IN  IF from >= to THEN f
        ELSE FoldLeft(cut, f, Ascending({a \in DOMAIN f.sparse :
                                             a < to /\ EndOf(f, a) > from}))

TruncateSparse(f, len) ==
    LET cut(g, at) == IF at < len
                      THEN InsertExtent(RemoveExtent(g, at), at,
                                        TruncateTo(g.sparse[at], len - at))
                      ELSE RemoveExtent(g, at)
    IN  FoldLeft(cut, f, Ascending({a \in DOMAIN f.sparse : EndOf(f, a) > len}))

InsertZero(f, from, to) ==
    IF from >= to THEN f ELSE InsertExtent(f, from, RepeatedValue(0, to - from))

\* data.resize(len, 0) or data.truncate(len), with account_inline_len_change.
ResizeInline(f, len) ==
    LET old == Len(f.data)
        data == IF len <= old THEN SubSeq(f.data, 1, len) ELSE f.data \o Zeros(len - old)
    IN  [f EXCEPT !.data = data,
                  !.payload = IF len >= old THEN @ + (len - old) ELSE Less(@, old - len),
                  !.logical = IF len >= old THEN @ + (len - old) ELSE Less(@, old - len)]

Done(f) == [ok |-> TRUE, f |-> f]
Full(f) == [ok |-> FALSE, f |-> f]

\* Grow the inline vector to `len' unless the payload limit forbids it.
GrowInline(f, len) ==
    IF Len(f.data) >= len THEN Done(f)
    ELSE IF f.payload + (len - Len(f.data)) > PayloadLimit THEN Full(f)
    ELSE Done(ResizeInline(f, len))

Lesser(m, n) == IF m < n THEN m ELSE n
Greater(m, n) == IF m < n THEN n ELSE m

\* The inline vector with the bytes of `buf' from `at' on.
Overwrite(data, at, buf) ==
    [i \in 1..Len(data) |-> IF i > at /\ i <= at + Len(buf) THEN buf[i - at] ELSE data[i]]

FillInline(f, from, to) ==
    IF from < to THEN [f EXCEPT !.data = Overwrite(@, from, Zeros(to - from))] ELSE f

\* reserve_zero_range: allocate zeros for the holes of [from, to).
ReserveZero(f, from, to) ==
    LET inline == IF from < InlineLimit THEN GrowInline(f, Lesser(to, InlineLimit)) ELSE Done(f)
        start == Greater(from, InlineLimit)
        g == inline.f
        taken == Ascending({a \in DOMAIN g.sparse : a < to /\ EndOf(g, a) > start})
        step(acc, a) ==
            [f |-> InsertZero(acc.f, acc.cursor, Greater(a, start)),
             cursor |-> Greater(acc.cursor, Lesser(EndOf(g, a), to))]
        filled == FoldLeft(step, [f |-> g, cursor |-> start], taken)
    IN  IF from >= to THEN Done(f)
        ELSE IF ~inline.ok \/ start >= to THEN inline
        ELSE Done(InsertZero(filled.f, filled.cursor, to))

\* write_zero_range: zeros over [from, to), allocating it.
WriteZero(f, from, to) ==
    LET inlineEnd == Lesser(to, InlineLimit)
        inline == IF from < InlineLimit \/ to <= InlineLimit
                  THEN GrowInline(f, inlineEnd) ELSE Done(f)
        filled == IF from < InlineLimit THEN FillInline(inline.f, from, inlineEnd)
                  ELSE inline.f
    IN  IF ~inline.ok THEN inline
        ELSE Done(InsertZero(RemoveRange(filled, from, to), Greater(from, InlineLimit), to))

\* punch_hole_range: the inline vector keeps its length.
PunchHole(f, from, to) ==
    LET len == Len(f.data)
    IN  RemoveRange(FillInline(f, Lesser(from, len), Lesser(to, len)), from, to)

\* append_sparse_tail: extend the extent that ends at `at'.
AppendTail(f, at, buf) ==
    LET starts == {a \in DOMAIN f.sparse : a <= at}
        last == Max(starts)
        old == f.sparse[last]
        Grown(r) ==
            IF r.n = NotAppended THEN [f |-> f, n |-> NotAppended]
            ELSE [f |-> [f EXCEPT !.sparse[last] = r.ext,
                                  !.payload = Less(@, Len(old.pat)) + Len(r.ext.pat),
                                  !.logical = Less(@, old.len) + r.ext.len],
                  n |-> r.n]
    IN  IF starts = {} THEN [f |-> f, n |-> NotAppended]
        ELSE IF EndOf(f, last) # at THEN [f |-> f, n |-> NotAppended]
        ELSE Grown(TryAppend(old, buf, f.payload))

RepeatedByte(buf) == \A i \in 1..Len(buf) : buf[i] = buf[1]

From(buf, n) == SubSeq(buf, n + 1, Len(buf))

\* write_sparse_data: append to an extent or start new ones, until the buffer
\* is used up or the payload limit is reached.
RECURSIVE WriteSparse(_, _, _)
WriteSparse(f, at, buf) ==
    LET n == Lesser(Len(buf), ExtentLimit)
        chunk == SubSeq(buf, 1, n)
        After(tail) ==
            IF tail.n = 0 THEN Full(f)
            ELSE IF tail.n # NotAppended THEN WriteSparse(tail.f, at + tail.n, From(buf, tail.n))
            ELSE IF RepeatedByte(chunk)
                 THEN WriteSparse(InsertExtent(f, at, RepeatedValue(buf[1], n)), at + n,
                                  From(buf, n))
            ELSE IF f.payload + n > PayloadLimit THEN Full(f)
            ELSE WriteSparse(InsertExtent(f, at, Bytes(chunk)), at + n, From(buf, n))
    IN  IF buf = <<>> THEN Done(f) ELSE After(AppendTail(f, at, buf))

---------------------------------------------------------------------------
(* The quota                                                               *)

Regulars == {i \in DOMAIN inodes : inodes[i].kind = "file"}

AllocatedLogical == FoldSet(LAMBDA i, acc : acc + inodes[i].logical, 0, Regulars)

AllocatedIn(f, from, to) ==
    Less(Lesser(Len(f.data), to), from)
        + FoldSet(LAMBDA a, acc : acc + (Lesser(EndOf(f, a), to) - Greater(a, from)), 0,
                  {a \in DOMAIN f.sparse : a < to /\ EndOf(f, a) > from})

\* write_allocated_growth
Growth(f, from, to) == Less(to - from, AllocatedIn(f, from, to))

\* write_fits_quota
FitsQuota(f, from, to) == Quota = NoQuota \/ AllocatedLogical + Growth(f, from, to) <= Quota

\* quota_limited_write_len, from `accepted' bytes and `used' allocated ones.
RECURSIVE QuotaLimitedFrom(_, _, _, _, _)
QuotaLimitedFrom(f, from, len, accepted, used) ==
    LET next == Lesser(len, accepted + QuotaStep)
        growth == Growth(f, from + accepted, from + next)
    IN  IF accepted >= len \/ used + growth > Quota THEN accepted
        ELSE QuotaLimitedFrom(f, from, len, next, used + growth)

QuotaLimited(f, from, len) ==
    IF Quota = NoQuota THEN len ELSE QuotaLimitedFrom(f, from, len, 0, AllocatedLogical)

---------------------------------------------------------------------------
(* The data calls of one regular file                                      *)

Sized(f, to) == [f EXCEPT !.size = Greater(@, to)]

Wrote(f, to, n) == [f |-> Sized(f, to), n |-> n]
Failed(f) == [f |-> f, n |-> 0]

\* write_at of a buffer of zeros.
Ended(r, to, n) == IF r.ok THEN Wrote(r.f, to, n) ELSE Failed(r.f)
WriteZeros(f, at, buf) ==
    LET to == at + Len(buf)
        After(tail) ==
            IF tail.n = 0 THEN Failed(f)
            ELSE Ended(IF tail.n = NotAppended THEN WriteZero(f, at, to)
                       ELSE IF tail.n < Len(buf) THEN WriteZero(tail.f, at + tail.n, to)
                       ELSE Done(tail.f), to, Len(buf))
    IN  After(IF at >= InlineLimit THEN AppendTail(f, at, buf)
              ELSE [f |-> f, n |-> NotAppended])

\* write_at of any other buffer.
WriteBytes(f, at, buf) ==
    LET to == at + Len(buf)
        inlineEnd == Lesser(to, InlineLimit)
        inlineLen == IF at < InlineLimit THEN inlineEnd - at ELSE 0
        rest == From(buf, inlineLen)
        Spilled(bare) ==
            IF bare.payload + Len(rest) > PayloadLimit THEN Failed(bare)
            ELSE Ended(WriteSparse(bare, at + inlineLen, rest), to, Len(buf))
        Beyond(g) ==
            IF rest = <<>> THEN Wrote(g, to, Len(buf))
            ELSE Spilled(RemoveRange(g, at + inlineLen, to))
        Inline(grown) ==
            IF ~grown.ok THEN Failed(f)
            ELSE Beyond(RemoveRange([grown.f EXCEPT !.data =
                                        Overwrite(@, at, SubSeq(buf, 1, inlineLen))],
                                    at, inlineEnd))
    IN  IF at < InlineLimit THEN Inline(GrowInline(f, inlineEnd)) ELSE Beyond(f)

\* write_at
WriteAt(f, at, buf) ==
    LET n == QuotaLimited(f, at, Len(buf))
        part == SubSeq(buf, 1, n)
    IN  IF n = 0 THEN Failed(f)
        ELSE IF \A i \in 1..n : part[i] = 0 THEN WriteZeros(f, at, part)
        ELSE WriteBytes(f, at, part)

\* set_len, up to the check of the payload limit.
SetLen(f, len) ==
    IF len = 0
    THEN [f EXCEPT !.data = <<>>, !.sparse = <<>>, !.payload = 0, !.logical = 0]
    ELSE IF len < f.size
         THEN LET g == TruncateSparse(f, len)
              IN  IF len <= InlineLimit \/ Len(g.data) > len THEN ResizeInline(g, len) ELSE g
    ELSE IF Len(f.data) > len THEN ResizeInline(f, len)
    ELSE f

\* read_at of the byte at `p': the last extent that covers it is copied last.
ByteAt(f, p) ==
    LET covering == {a \in DOMAIN f.sparse : a <= p /\ p < EndOf(f, a)}
    IN  IF covering # {} THEN At(f.sparse[Max(covering)].pat, p - Max(covering))
        ELSE IF p < Len(f.data) THEN f.data[p + 1]
        ELSE 0

Content(f) == [p \in 1..f.size |-> ByteAt(f, p - 1)]

\* What the calls do to an array of bytes.
Padded(bytes, len) == IF Len(bytes) >= len THEN bytes ELSE bytes \o Zeros(len - Len(bytes))
Resized(bytes, len) == SubSeq(Padded(bytes, len), 1, len)

Write(i) ==
    \E at \in 0..MaxEnd, buf \in Buffers :
        /\ at + Len(buf) <= MaxEnd
        /\ ZeroInside \/ at = inodes[i].size \/ \E k \in 1..Len(buf) : buf[k] # 0
        /\ \E r \in {WriteAt(inodes[i], at, buf)} :
            /\ inodes' = [inodes EXCEPT ![i] = r.f]
            /\ want' = IF r.n = 0 THEN want
                       ELSE [want EXCEPT ![i] =
                                Overwrite(Padded(@, at + r.n), at, SubSeq(buf, 1, r.n))]

Truncate(i) ==
    \E len \in 0..MaxEnd :
        \E f \in {SetLen(inodes[i], len)} :
            IF f.payload > PayloadLimit
            THEN /\ inodes' = [inodes EXCEPT ![i] = f]
                 /\ UNCHANGED want
            ELSE /\ inodes' = [inodes EXCEPT ![i] = [f EXCEPT !.size = len]]
                 /\ want' = [want EXCEPT ![i] = Resized(@, len)]

\* allocate_range and zero_range: zeros in the range, and its end as the size
\* unless the caller keeps the size.
Allocate(i, zero) ==
    \E from \in 0..(MaxEnd - 1), to \in 1..MaxEnd, keep \in BOOLEAN :
        LET f == inodes[i]
            size == IF keep THEN f.size ELSE Greater(f.size, to)
            cleared == IF zero THEN Overwrite(Padded(want[i], to), from, Zeros(to - from))
                       ELSE Padded(want[i], to)
        IN  /\ from < to
            /\ FitsQuota(f, from, to)
            /\ \E r \in {IF zero THEN WriteZero(f, from, to) ELSE ReserveZero(f, from, to)} :
                 IF r.ok
                 THEN /\ inodes' = [inodes EXCEPT ![i] = [r.f EXCEPT !.size = size]]
                      /\ want' = [want EXCEPT ![i] = Resized(cleared, size)]
                 ELSE /\ inodes' = [inodes EXCEPT ![i] = r.f]
                      /\ UNCHANGED want

Punch(i) ==
    \E from \in 0..(MaxEnd - 1), to \in 1..MaxEnd :
        /\ from < to
        /\ inodes' = [inodes EXCEPT ![i] = PunchHole(@, from, to)]
        /\ want' = [want EXCEPT ![i] = Resized(Overwrite(Padded(@, to), from, Zeros(to - from)),
                                               Len(@))]

DataCall(i) ==
    /\ UNCHANGED <<nextIno, opens>>
    /\ \/ "write" \in TmpOps /\ Write(i)
       \/ "truncate" \in TmpOps /\ Truncate(i)
       \/ "allocate" \in TmpOps /\ Allocate(i, FALSE)
       \/ "zero" \in TmpOps /\ Allocate(i, TRUE)
       \/ "punch" \in TmpOps /\ Punch(i)

---------------------------------------------------------------------------
(* The namespace                                                           *)

Dirs == {i \in DOMAIN inodes : inodes[i].kind = "dir"}

Has(dir, name) == name \in DOMAIN inodes[dir].children
Child(dir, name) == inodes[dir].children[name]

PutChild(table, dir, name, i) ==
    [table EXCEPT ![dir].children = (name :> i) @@ @]
DropChild(table, dir, name) ==
    [table EXCEPT ![dir].children = [n \in DOMAIN @ \ {name} |-> @[n]]]

Forget(f, i) == [j \in DOMAIN f \ {i} |-> f[j]]

\* create_node
CreateNode ==
    \E dir \in Dirs, name \in TmpNames, kind \in TmpKinds :
        LET made == PutChild((nextIno :> NewInode(kind, dir)) @@ inodes, dir, name, nextIno)
        IN  /\ "create" \in TmpOps /\ nextIno <= MaxIno
            /\ ~Has(dir, name)
            /\ inodes' = IF kind = "dir" THEN [made EXCEPT ![dir].nlink = @ + 1] ELSE made
            /\ nextIno' = nextIno + 1
            /\ want' = IF kind = "file" THEN (nextIno :> <<>>) @@ want ELSE want
            /\ opens' = (nextIno :> 0) @@ opens

\* drop_inode_link
DropLink(table, i) ==
    LET f == table[i]
        parent == f.parent
    IN  IF f.kind = "dir"
        THEN Forget(IF parent # i /\ parent \in DOMAIN table
                    THEN [table EXCEPT ![parent].nlink = Less(@, 1)] ELSE table, i)
        ELSE IF f.nlink > 1 THEN [table EXCEPT ![i].nlink = @ - 1]
        ELSE IF f.open = 0 THEN Forget(table, i)
        ELSE [table EXCEPT ![i].nlink = Less(@, 1), ![i].pending = TRUE]

\* link, of an inode found by name or by an open descriptor.
Link ==
    \E dir \in Dirs, name \in TmpNames, i \in DOMAIN inodes :
        /\ "link" \in TmpOps
        /\ ~Has(dir, name) /\ inodes[i].kind # "dir" /\ inodes[i].nlink < 3
        /\ inodes[i].nlink > 0 \/ inodes[i].open > 0
        /\ inodes' = PutChild([inodes EXCEPT ![i].nlink = @ + 1], dir, name, i)
        /\ UNCHANGED <<nextIno, want, opens>>

\* unlink and rmdir: remove_child, then drop_inode_link.
Unlink ==
    \E dir \in Dirs : \E name \in DOMAIN inodes[dir].children :
        LET i == Child(dir, name)
        IN  /\ "unlink" \in TmpOps
            /\ inodes[i].kind = "dir" => DOMAIN inodes[i].children = {}
            /\ inodes' = DropLink(DropChild(inodes, dir, name), i)
            /\ UNCHANGED <<nextIno, want, opens>>

\* is_descendant_or_self
RECURSIVE Inside(_, _)
Inside(dir, top) ==
    dir = top \/ (inodes[dir].parent # dir /\ inodes[dir].parent \in DOMAIN inodes
                  /\ Inside(inodes[dir].parent, top))

\* The checks of rename_in, then rename.
Rename ==
    \E src, dst \in Dirs : \E from \in DOMAIN inodes[src].children, to \in TmpNames :
        LET i == Child(src, from)
            isDir == inodes[i].kind = "dir"
            replaced == IF Has(dst, to) THEN {Child(dst, to)} ELSE {}
            cleared == IF replaced = {} THEN inodes
                       ELSE DropLink(DropChild(inodes, dst, to), Child(dst, to))
            moved == PutChild(DropChild(cleared, src, from), dst, to, i)
        IN  /\ "rename" \in TmpOps \/ ("renamewithin" \in TmpOps /\ (isDir => src = dst))
            /\ i \notin replaced
            /\ \A j \in replaced : /\ (inodes[j].kind = "dir") = isDir
                                   /\ isDir => DOMAIN inodes[j].children = {}
            /\ ~(isDir /\ Inside(dst, i))
            /\ inodes' = IF isDir THEN [moved EXCEPT ![i].parent = dst] ELSE moved
            /\ UNCHANGED <<nextIno, want, opens>>

\* A directory that changes places with a file takes a link with it.
ExchangeLinks(table, a, b, iDir, jDir) ==
    IF a = b \/ iDir = jDir THEN table
    ELSE IF iDir THEN [table EXCEPT ![a].nlink = Less(@, 1), ![b].nlink = @ + 1]
    ELSE [table EXCEPT ![a].nlink = @ + 1, ![b].nlink = Less(@, 1)]

\* The checks of rename_exchange_in, then exchange.
Exchange ==
    \E a, b \in Dirs : \E m \in DOMAIN inodes[a].children, n \in DOMAIN inodes[b].children :
        LET i == Child(a, m)
            j == Child(b, n)
            iDir == inodes[i].kind = "dir"
            jDir == inodes[j].kind = "dir"
            swapped == PutChild(PutChild(inodes, a, m, j), b, n, i)
            counted == ExchangeLinks(swapped, a, b, iDir, jDir)
            homed == IF iDir THEN [counted EXCEPT ![i].parent = b] ELSE counted
        IN  /\ "exchange" \in TmpOps
            /\ i # j
            /\ ~(iDir /\ Inside(b, i)) /\ ~(jDir /\ Inside(a, j))
            /\ inodes' = IF jDir THEN [homed EXCEPT ![j].parent = a] ELSE homed
            /\ UNCHANGED <<nextIno, want, opens>>

\* retain_inode, by an open of a name.
Retain(i) ==
    /\ "open" \in TmpOps
    /\ opens[i] < MaxOpens /\ inodes[i].kind # "dir" /\ inodes[i].nlink > 0
    /\ inodes' = [inodes EXCEPT ![i].open = @ + 1]
    /\ opens' = [opens EXCEPT ![i] = @ + 1]
    /\ UNCHANGED <<nextIno, want>>

\* release_inode, by the last close of a description.
Released(i) ==
    LET f == [inodes[i] EXCEPT !.open = Less(@, 1)]
    IN  IF f.open = 0 /\ f.nlink = 0 /\ f.pending THEN Forget(inodes, i)
        ELSE [inodes EXCEPT ![i] = f]

Release(i) ==
    /\ "open" \in TmpOps
    /\ opens[i] > 0
    /\ inodes' = IF i \in DOMAIN inodes THEN Released(i) ELSE inodes
    /\ opens' = [opens EXCEPT ![i] = @ - 1]
    /\ UNCHANGED <<nextIno, want>>

TmpNext ==
    \/ \E i \in Regulars : DataCall(i)
    \/ CreateNode
    \/ Link
    \/ Unlink
    \/ Rename
    \/ Exchange
    \/ \E i \in DOMAIN inodes : Retain(i)
    \/ \E i \in DOMAIN opens : Release(i)

TmpSpec == TmpInit /\ [][TmpNext]_tmpVars

---------------------------------------------------------------------------
(* Correctness                                                             *)

\* Whatever mixture of writes, truncations, allocations, zeroing and holes a
\* file went through, read_at returns what an array of bytes would hold: the
\* inline vector, the extents and their repeated patterns together.  Not so when
\* ZeroInside lets zeroes be written before the end of a sparse file: write_at
\* treats them as a tail and leaves the bytes of an extent that was there.
ContentExact == \A i \in Regulars : Content(inodes[i]) = want[i]

\* The extents of a file never overlap each other or the inline vector, and
\* the two counters its quota and its limits are checked with are the bytes
\* really held, through every split, truncation and append of an extent.
AccountingExact ==
    \A i \in Regulars :
        LET f == inodes[i]
        IN  /\ \A a \in DOMAIN f.sparse :
                   /\ f.sparse[a].len > 0 /\ a >= Len(f.data)
                   /\ \A b \in DOMAIN f.sparse : a < b => EndOf(f, a) <= b
            /\ f.payload = Len(f.data)
                   + FoldSet(LAMBDA a, acc : acc + Len(f.sparse[a].pat), 0, DOMAIN f.sparse)
            /\ f.logical = Len(f.data)
                   + FoldSet(LAMBDA a, acc : acc + f.sparse[a].len, 0, DOMAIN f.sparse)

\* The files of a mount with a quota never hold more than it, although each
\* call only checks the growth it expects to cause.
QuotaKept == Quota # NoQuota => AllocatedLogical <= Quota

Entries == {<<d, n>> : d \in Dirs, n \in TmpNames} \cap
               UNION {{<<d, n>> : n \in DOMAIN inodes[d].children} : d \in Dirs}

\* Every directory entry leads to an inode; an inode that is not a directory
\* counts its names exactly, is kept while it has a name or a descriptor, and
\* is freed when it has neither (unlink, link of an open unlinked file, rename
\* over it, exchange and close in any order).
TmpNamesExact ==
    /\ \A e \in Entries : Child(e[1], e[2]) \in DOMAIN inodes
    /\ \A i \in DOMAIN opens : opens[i] > 0 => i \in DOMAIN inodes
    /\ \A i \in DOMAIN inodes \ Dirs :
           /\ inodes[i].nlink = Cardinality({e \in Entries : Child(e[1], e[2]) = i})
           /\ inodes[i].open = opens[i]
           /\ inodes[i].nlink > 0 \/ opens[i] > 0

\* A directory has one link for its name, one for itself and one for every
\* directory in it, and its parent is the directory that names it.  Not so once
\* a directory was renamed into another one: rename leaves the link counts of the
\* two parents as they were.
DirectoryLinksExact ==
    \A d \in Dirs :
        /\ inodes[d].nlink = 2 + Cardinality({e \in Entries : e[1] = d /\ Child(d, e[2]) \in Dirs})
        /\ \A e \in Entries : (Child(e[1], e[2]) = d) => inodes[d].parent = e[1]
=============================================================================
