------------------------------- MODULE Ext4Cache -------------------------------
(***************************************************************************)
(* The block cache of the ext4 driver (ext4_bcache.c) and the cached block *)
(* operations on top of it (ext4_blockdev.c), on a disk that may refuse    *)
(* to read or write some blocks for a while.  No journal is running, so    *)
(* buffers have no end_write callback.                                     *)
(***************************************************************************)
EXTENDS Naturals, Sequences, FiniteSets, SequencesExt

CONSTANTS lg_bcnt,   \* blocks of the device; block 0 is never cached
          cnt,       \* buffers the cache should hold at most
          MaxRef,    \* bound on the references to a buffer
          MaxWrite,  \* how often each block is changed
          Faults     \* may the disk refuse blocks?

CacheLba == 1 .. lg_bcnt - 1

VARIABLES bc,      \* the cache: bufs, lru (all buffers, by lru_id), dirty_list
          disk,    \* CacheLba -> content
          write_back,
          bad,     \* the blocks the disk refuses now
          latest,  \* auxiliary: what was last written to each block
          missed   \* auxiliary: blocks whose write-through failed

cacheVars == <<bc, disk, write_back, bad, latest, missed>>

NoBuf == [refctr |-> 0, uptodate |-> FALSE, dirty |-> FALSE, tmp |-> FALSE, val |-> 0]
Cached(c) == Range(c.lru)
Unreferenced(c) == SelectSeq(c.lru, LAMBDA l : c.bufs[l].refctr = 0)

\* The operators below work on s = [c |-> cache, d |-> disk, r |-> "EOK" or "EIO"].
State == [c |-> bc, d |-> disk, r |-> "EOK"]
EIO(s) == [s EXCEPT !.r = "EIO"]

RemoveDirtyNode(s, lba) ==
    [s EXCEPT !.c.dirty_list = SelectSeq(@, LAMBDA l : l /= lba)]
InsertDirtyNode(s, lba) ==
    [s EXCEPT !.c.dirty_list = IF lba \in Range(@) THEN @ ELSE <<lba>> \o @]

ext4_bcache_drop_buf(s, lba) ==
    [RemoveDirtyNode(s, lba) EXCEPT !.c.bufs[lba] = NoBuf,
                                    !.c.lru = SelectSeq(@, LAMBDA l : l /= lba)]

ext4_block_flush_buf(s, lba) ==
    LET b == s.c.bufs[lba]
    IN  IF ~(b.dirty /\ b.uptodate) THEN s
        ELSE IF lba \in bad THEN EIO(s)
        ELSE [RemoveDirtyNode(s, lba) EXCEPT !.d[lba] = b.val, !.c.bufs[lba].dirty = FALSE]


\* The buffer of a block that is cached: it gets the highest lru_id, and is not
\* ready to be flushed while somebody holds it.
ext4_bcache_find_get(s, lba) ==
    LET s1 == IF s.c.bufs[lba].refctr > 0 THEN s
              ELSE [RemoveDirtyNode(s, lba)
                       EXCEPT !.c.lru = Append(SelectSeq(@, LAMBDA l : l /= lba), lba)]
    IN  [s1 EXCEPT !.c.bufs[lba].refctr = @ + 1]

ext4_bcache_alloc(s, lba) ==
    IF lba \in Cached(s.c) THEN ext4_bcache_find_get(s, lba)
    ELSE [s EXCEPT !.c.bufs[lba] = [NoBuf EXCEPT !.refctr = 1], !.c.lru = Append(@, lba)]

\* The last holder lets go: a dirty buffer is queued, or written at once and the
\* result ignored.  An invalid or temporary one is dropped.
ext4_bcache_free(s, lba) ==
    LET s1 == [s EXCEPT !.c.bufs[lba].refctr = @ - 1]
        b == s1.c.bufs[lba]
        s2 == IF ~(b.dirty /\ b.uptodate) THEN s1
              ELSE IF write_back > 0 /\ ~b.tmp THEN InsertDirtyNode(s1, lba)
              ELSE [ext4_block_flush_buf(s1, lba) EXCEPT !.r = s.r]
    IN  IF b.refctr > 0 THEN s1
        ELSE IF ~b.uptodate \/ b.tmp THEN ext4_bcache_drop_buf(s2, lba) ELSE s2

RECURSIVE ext4_block_cache_shake(_)
ext4_block_cache_shake(s) ==
    LET free == Unreferenced(s.c)
        s1 == ext4_block_flush_buf(s, Head(free))
    IN  IF free = <<>> \/ Len(s.c.lru) < cnt THEN s
        ELSE IF s1.r /= "EOK" THEN s1
        ELSE ext4_block_cache_shake(ext4_bcache_drop_buf(s1, Head(free)))

ext4_block_get_noread(s, lba) ==
    LET s1 == ext4_block_cache_shake(s)
    IN  IF s1.r /= "EOK" THEN s1 ELSE ext4_bcache_alloc(s1, lba)

ext4_block_get(s, lba) ==
    LET s1 == ext4_block_get_noread(s, lba)
    IN  IF s1.r /= "EOK" \/ s1.c.bufs[lba].uptodate THEN s1
        ELSE IF lba \in bad THEN EIO(ext4_bcache_free(s1, lba))
        ELSE [s1 EXCEPT !.c.bufs[lba].val = s1.d[lba], !.c.bufs[lba].uptodate = TRUE]

\* Mutant: only the first buffer of the dirty list is written.
CacheFlushFirst(s) ==
    IF s.c.dirty_list = <<>> THEN s ELSE ext4_block_flush_buf(s, Head(s.c.dirty_list))

RECURSIVE ext4_block_cache_flush(_)
ext4_block_cache_flush(s) ==
    IF s.c.dirty_list = <<>> \/ s.r /= "EOK" THEN s
    ELSE ext4_block_cache_flush(ext4_block_flush_buf(s, Head(s.c.dirty_list)))

ext4_block_flush_lba(s, lba) ==
    IF lba \notin Cached(s.c) THEN s
    ELSE ext4_bcache_free(ext4_block_flush_buf(ext4_bcache_find_get(s, lba), lba), lba)

ext4_bcache_invalidate_buf(s, lba) ==
    [RemoveDirtyNode(s, lba) EXCEPT !.c.bufs[lba].dirty = FALSE, !.c.bufs[lba].uptodate = FALSE]

\* The walk over the tree starts at the buffer of block from: when that block is
\* not cached there is no buffer to start at.
RECURSIVE InvalidateAll(_, _)
InvalidateAll(s, lbas) ==
    IF lbas = {} THEN s
    ELSE LET l == CHOOSE x \in lbas : TRUE
         IN  InvalidateAll(ext4_bcache_invalidate_buf(s, l), lbas \ {l})

Invalidated(s, from, n) ==
    IF from \notin Cached(s.c) THEN {} ELSE Cached(s.c) \cap (from .. from + n - 1)

RECURSIVE ext4_bcache_cleanup(_)
ext4_bcache_cleanup(s) ==
    IF s.c.lru = <<>> THEN s
    ELSE LET l == CHOOSE x \in Cached(s.c) : \A y \in Cached(s.c) : x <= y
         IN  ext4_bcache_cleanup(
                 ext4_bcache_drop_buf([ext4_block_flush_buf(s, l) EXCEPT !.r = "EOK"], l))

-----------------------------------------------------------------------------
InitCache ==
    /\ bc = [bufs |-> [l \in CacheLba |-> NoBuf], lru |-> <<>>, dirty_list |-> <<>>]
    /\ disk = [l \in CacheLba |-> 0]
    /\ write_back = 0
    /\ bad = {}
    /\ latest = disk
    /\ missed = {}

Becomes(s) == bc' = s.c /\ disk' = s.d
Held(lba) == bc.bufs[lba].refctr
MissedBy(s) == {l \in CacheLba : s.c.bufs[l].dirty /\ s.c.bufs[l].refctr = 0
                                 /\ l \notin Range(s.c.dirty_list)}

Get(lba) ==
    /\ Held(lba) < MaxRef
    /\ Becomes(ext4_block_get(State, lba))
    /\ missed' = missed \cap MissedBy(ext4_block_get(State, lba))
    /\ UNCHANGED <<write_back, bad, latest>>

\* A block is changed by somebody who holds it, or filled from nothing by
\* somebody who does not need its content.
Change(lba) ==
    /\ Held(lba) > 0 /\ bc.bufs[lba].uptodate /\ latest[lba] < MaxWrite[lba]
    /\ latest' = [latest EXCEPT ![lba] = @ + 1]
    /\ bc' = [bc EXCEPT !.bufs[lba] = [@ EXCEPT !.val = latest'[lba], !.dirty = TRUE]]
    /\ UNCHANGED <<disk, write_back, bad, missed>>

Fill(lba, tmp) ==
    LET s == ext4_block_get_noread(State, lba)
    IN  /\ Held(lba) = 0 /\ latest[lba] < MaxWrite[lba]
        /\ IF s.r /= "EOK" THEN Becomes(s) /\ UNCHANGED latest
           ELSE /\ latest' = [latest EXCEPT ![lba] = @ + 1]
                /\ Becomes([s EXCEPT !.c.bufs[lba] = [@ EXCEPT !.val = latest'[lba],
                               !.uptodate = TRUE, !.dirty = TRUE, !.tmp = tmp]])
        /\ missed' = missed \cap MissedBy(s)
        /\ UNCHANGED <<write_back, bad>>

\* A temporary buffer whose write the disk refuses is dropped all the same: its
\* content is gone and no caller is told.
Set(lba) ==
    LET s == ext4_bcache_free(State, lba)
        lost == lba \in bad /\ bc.bufs[lba].tmp /\ lba \notin Cached(s.c)
    IN  /\ Held(lba) > 0
        /\ Becomes(s)
        /\ missed' = missed \cup (IF lba \in bad THEN MissedBy(s) ELSE {})
        /\ latest' = IF lost THEN [latest EXCEPT ![lba] = disk[lba]] ELSE latest
        /\ UNCHANGED <<write_back, bad>>

FlushLba(lba) ==
    LET s == ext4_block_flush_lba(State, lba)
    IN  /\ lba \in Cached(bc)
        /\ Becomes(s)
        /\ missed' = (missed \cap MissedBy(s)) \cup (IF s.r /= "EOK" THEN MissedBy(s) ELSE {})
        /\ UNCHANGED <<write_back, bad, latest>>

CacheWriteBack(on) ==
    /\ write_back' = IF on THEN write_back + 1 ELSE IF write_back > 0 THEN write_back - 1 ELSE 0
    /\ write_back' <= 2
    /\ IF write_back' > 0 THEN UNCHANGED <<bc, disk>> ELSE Becomes(ext4_block_cache_flush(State))
    /\ missed' = missed \cap MissedBy(ext4_block_cache_flush(State))
    /\ UNCHANGED <<bad, latest>>

\* Blocks are freed: nobody holds them, and their content no longer matters, so
\* the next reader expects what is on disk.
Invalidate(from, n) ==
    LET gone == Invalidated(State, from, n)
        s == InvalidateAll(State, gone)
    IN  /\ from + n <= lg_bcnt
        /\ \A l \in from .. from + n - 1 : Held(l) = 0
        /\ Becomes(s)
        /\ latest' = [l \in CacheLba |-> IF l \in gone THEN disk[l] ELSE latest[l]]
        /\ missed' = missed \ gone
        /\ UNCHANGED <<write_back, bad>>

Umount ==
    /\ \A l \in CacheLba : Held(l) = 0
    /\ bc.lru /= <<>> /\ bad = {}
    /\ Becomes(ext4_bcache_cleanup(State))
    /\ missed' = {}
    /\ UNCHANGED <<write_back, bad, latest>>

DiskFault ==
    /\ Faults
    /\ \E b \in SUBSET CacheLba : bad' = b /\ b /= bad /\ Cardinality(b) <= 1
    /\ UNCHANGED <<bc, disk, write_back, latest, missed>>

NextCache ==
    \/ \E l \in CacheLba : Get(l) \/ Change(l) \/ Set(l) \/ FlushLba(l)
    \/ \E l \in CacheLba, t \in BOOLEAN : Fill(l, t)
    \/ \E on \in BOOLEAN : CacheWriteBack(on)
    \/ \E l \in CacheLba, n \in 1 .. 2 : Invalidate(l, n)
    \/ Umount \/ DiskFault

SpecCache == InitCache /\ [][NextCache]_cacheVars
-----------------------------------------------------------------------------
\* A reader always gets what was last written to a block: eviction, write-through,
\* write-back, flushes and refused writes never lose a change (a temporary buffer
\* whose write fails is the exception the code makes, see Set).
NothingLost ==
    \A l \in CacheLba :
        latest[l] = IF bc.bufs[l].uptodate THEN bc.bufs[l].val ELSE disk[l]

\* The dirty list holds exactly the dirty buffers nobody holds, so that
\* ext4_block_cache_flush finds them all and never writes a buffer that is being
\* changed; only a buffer whose write-through the disk refused is forgotten.
DirtyIsListed ==
    \A l \in CacheLba : (bc.bufs[l].dirty /\ bc.bufs[l].refctr = 0 /\ l \notin missed)
                        <=> l \in Range(bc.dirty_list)

\* ext4_block_cache_shake lets the cache outgrow its size only when every buffer is
\* referenced.
GrowStep ==
    Len(bc'.lru) > Len(bc.lru) /\ Len(bc'.lru) > cnt => Unreferenced(bc) = <<>>

\* When the last ext4_block_cache_write_back(0) returns on a disk that refuses
\* nothing, every change of a released buffer is on disk.
FlushStep ==
    (write_back' = 0 /\ write_back = 1 /\ bad = {}) =>
        \A l \in CacheLba \ missed' : bc'.bufs[l].refctr = 0 => disk'[l] = latest[l]
=============================================================================
