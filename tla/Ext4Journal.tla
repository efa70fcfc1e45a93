------------------------------ MODULE Ext4Journal ------------------------------
(***************************************************************************)
(* The journal of the ext4 driver (ext4_journal.c) under power failures.   *)
(*                                                                         *)
(* The driver is synchronous: a block write has reached the disk when the  *)
(* call returns.  An operation is therefore an operator on the record j,   *)
(* which holds the memory of the driver, the disk as the driver sees it    *)
(* (dev) and the writes the operation has issued (w).  They reach the      *)
(* platter one at a time, and the power may fail between any two of them.  *)
(***************************************************************************)
EXTENDS Naturals, Sequences, FiniteSets, SequencesExt

CONSTANTS Blocks,        \* file system blocks beside the bitmap block
          maxlen,        \* log blocks are first .. maxlen - 1
          TagMax,        \* tags in a descriptor block
          MaxTrans,      \* bound on the transactions begun
          MaxCrash,      \* bound on the power failures
          FreeModified,  \* may a transaction free a block it has modified?
          AbortFrees,    \* may a transaction that has freed a block be aborted?
          AnyCrash,      \* may the power fail when the code is known not to cope?
          Restarts       \* bound on the transactions begun before the journal is stopped

first == 1
BITMAP == 1
Lba == Blocks \cup {BITMAP}
LogBlock == first .. maxlen - 1
NoTrans == 0

VARIABLES j,        \* the driver and the writes under way
          platter,  \* what a power failure leaves
          image,    \* the fs blocks a recovery of the platter would leave
          mode,     \* "down", "recovered" or "up"
          count,    \* transactions begun
          crashes,
          live,     \* what callers expect of each block: its kind and content
          durable   \* the same, as of the last commit block on the platter

vars == <<j, platter, image, mode, count, crashes, live, durable>>

-----------------------------------------------------------------------------
(* The disk.                                                               *)

Blank == [type |-> "blank"]
Descriptor(seq, tags) == [type |-> "descriptor", seq |-> seq, tags |-> tags]
Revoke(seq, lbas) == [type |-> "revoke", seq |-> seq, lbas |-> lbas]
Commit(seq) == [type |-> "commit", seq |-> seq]
Data(val) == [type |-> "data", val |-> val]
Garbage == MaxTrans + 1
Content(rec) == IF rec.type = "data" THEN rec.val ELSE Garbage

Apply(dev, wr) ==
    CASE wr.to = "fs"  -> [dev EXCEPT !.fs[wr.at] = wr.val]
      [] wr.to = "log" -> [dev EXCEPT !.log[wr.at] = wr.val]
      [] wr.to = "sb"  -> [dev EXCEPT !.sb = wr.val]

Write(s, wr) == [s EXCEPT !.dev = Apply(@, wr), !.w = Append(@, wr)]
WriteFs(s, lba, val) == Write(s, [to |-> "fs", at |-> lba, val |-> val])
WriteLog(s, i, rec) ==
    [Write(s, [to |-> "log", at |-> i, val |-> rec]) EXCEPT !.behind = @ \/ s.dirty]

wrap(x) == IF x >= maxlen THEN x - (maxlen - first) ELSE x

-----------------------------------------------------------------------------
(* The superblock of the journal, in memory and on disk.                   *)

jbd_journal_write_sb(s) ==
    [s EXCEPT !.sb = [start |-> s.start, sequence |-> s.trans_id], !.dirty = TRUE]

jbd_write_sb(s) ==
    IF s.dirty THEN [Write(s, [to |-> "sb", val |-> s.sb]) EXCEPT !.dirty = FALSE]
               ELSE s

-----------------------------------------------------------------------------
(* Buffers.  A clean buffer nobody holds equals the block on disk and is   *)
(* not kept: its cache entry is Invalid.                                   *)

Invalid == [uptodate |-> FALSE, dirty |-> FALSE, val |-> 0, refs |-> 0, end_write |-> NoTrans]
View(s, lba) == IF s.cache[lba].uptodate THEN s.cache[lba].val ELSE s.dev.fs[lba]

\* ext4_block_set of a buffer that was held once more.
Release(s, lba) ==
    LET b == [s.cache[lba] EXCEPT !.refs = @ - 1]
    IN  [s EXCEPT !.cache[lba] = IF b.refs = 0 /\ ~b.dirty THEN Invalid ELSE b]

EndOf(s, t) == wrap(s.trans[t].start_iblock + s.trans[t].alloc_blocks)
Without(q, x) == SelectSeq(q, LAMBDA y : y /= x)

\* jbd_journal_free_trans of a transaction without buffers.
jbd_free_written(s, t) ==
    [s EXCEPT !.rec = [l \in Lba |-> IF @[l].trans = t THEN [trans |-> NoTrans, bufs |-> <<>>]
                                                       ELSE @[l]],
              !.trans[t] = [@ EXCEPT !.used = FALSE]]

\* Start the log behind a transaction that is completely written.
Retire(s, t) ==
    jbd_free_written([s EXCEPT !.start = EndOf(s, t), !.trans_id = s.trans[t].trans_id + 1,
                               !.cp_queue = Tail(@)], t)

RECURSIVE jbd_trans_end_write(_, _, _), EndAll(_, _, _)
RECURSIVE jbd_journal_flush_trans(_, _, _), jbd_journal_purge_cp_trans(_, _, _)

\* The content of block lba has reached the disk on behalf of transaction t.  The
\* older transactions that wait for the same block are served too, unless a newer
\* one has taken the block over.
jbd_trans_end_write(s, t, lba) ==
    LET firstInQueue == s.cp_queue /= <<>> /\ Head(s.cp_queue) = t
        owner == s.rec[lba].trans = t
        s1 == [s EXCEPT !.trans[t].buf_queue = Without(@, lba),
                        !.rec[lba].bufs = Without(@, t)]
        s2 == IF owner THEN EndAll(s1, s1.rec[lba].bufs, lba) ELSE s1
        s3 == IF owner THEN [s2 EXCEPT !.cache[lba].end_write = NoTrans] ELSE s2
        s4 == [s3 EXCEPT !.trans[t].written_cnt = @ + 1]
    IN  IF s4.trans[t].written_cnt = s4.trans[t].data_cnt /\ firstInQueue
        THEN jbd_write_sb(jbd_journal_write_sb(
                 jbd_journal_purge_cp_trans(Retire(s4, t), FALSE, FALSE)))
        ELSE s4

EndAll(s, ts, lba) ==
    IF ts = <<>> THEN s
    ELSE EndAll(jbd_trans_end_write(s, Head(ts), lba), Tail(ts), lba)

\* ext4_block_flush_buf of a dirty buffer.
ext4_block_flush_buf(s, lba) ==
    LET t == s.cache[lba].end_write
        s1 == [WriteFs(s, lba, s.cache[lba].val) EXCEPT !.cache[lba].dirty = FALSE]
        s2 == IF t = NoTrans THEN s1 ELSE jbd_trans_end_write(s1, t, lba)
    IN  [s2 EXCEPT !.cache[lba] = IF @.refs = 0 THEN Invalid ELSE @]

\* Write what transaction t has in lbas to its place: from the buffer, or from
\* the log when a newer transaction owns the buffer.
jbd_journal_flush_trans(s, t, lbas) ==
    IF lbas = <<>> THEN s
    ELSE LET l == Head(lbas)
             s1 == IF s.cache[l].uptodate /\ s.rec[l].trans = t
                   THEN IF s.cache[l].dirty THEN ext4_block_flush_buf(s, l) ELSE s
                   ELSE jbd_trans_end_write(
                            WriteFs(s, l, Content(s.dev.log[s.trans[t].jbd_lba[l]])), t, l)
         IN  jbd_journal_flush_trans(s1, t, Tail(lbas))

jbd_journal_purge_cp_trans(s, flush, once) ==
    IF s.cp_queue = <<>> THEN s
    ELSE LET t == Head(s.cp_queue)
             tr == s.trans[t]
             again(x) == IF once THEN x ELSE jbd_journal_purge_cp_trans(x, flush, once)
         IN  IF tr.data_cnt = tr.written_cnt
             THEN again(jbd_journal_write_sb(Retire(s, t)))
             ELSE IF flush THEN again(jbd_journal_flush_trans(s, t, tr.buf_queue))
             ELSE jbd_journal_write_sb([s EXCEPT !.start = wrap(tr.start_iblock),
                                                 !.trans_id = tr.trans_id])

-----------------------------------------------------------------------------
(* Changing blocks within the current transaction.                         *)

jbd_trans_set_block_dirty(s, lba, val) ==
    LET t == s.curr
        c == s.cache[lba]
        s1 == [s EXCEPT !.cache[lba].val = val, !.cache[lba].uptodate = TRUE,
                        !.cache[lba].dirty = TRUE]
    IN  IF c.end_write = t THEN s1
        ELSE [s1 EXCEPT !.cache[lba].refs = @ + 1,
                        !.cache[lba].end_write = t,
                        !.rec[lba] = [trans |-> t, bufs |-> Append(@.bufs, t)],
                        !.trans[t].data_cnt = @ + 1,
                        !.trans[t].buf_queue = <<lba>> \o @,
                        !.trans[t].revoke = @ \ {lba}]

jbd_trans_try_revoke_block(s, lba) ==
    LET r == s.rec[lba]
        revoked == [s EXCEPT !.trans[s.curr].revoke = @ \cup {lba}]
    IN  CASE r.trans = NoTrans -> s
          [] r.trans = s.curr -> IF Len(r.bufs) > 1 THEN revoked ELSE s
          [] OTHER -> revoked

ext4_bcache_invalidate_buf(s, lba) ==
    LET c == s.cache[lba]
    IN  [s EXCEPT !.cache[lba] = IF c.refs = 0 THEN Invalid
                                 ELSE [c EXCEPT !.uptodate = FALSE, !.dirty = FALSE,
                                                !.end_write = NoTrans]]

\* Mutant: the content the older transaction has logged is not put back.
RollBackRecordOnly(s, t, lba, revoke) ==
    LET q == s.rec[lba].bufs
    IN  IF s.rec[lba].trans /= t \/ q = <<>> THEN s ELSE [s EXCEPT !.rec[lba].trans = Last(q)]

\* Give the block record of lba to the last transaction that still waits for it
\* (jbd_trans_finish_callback when buffers are aborted), and its buffer back the
\* content that transaction has logged, unless the block is revoked.
RollBack(s, t, lba, revoke) ==
    LET q == s.rec[lba].bufs
        l == Last(q)
    IN  IF s.rec[lba].trans /= t \/ q = <<>> THEN s
        ELSE IF revoke THEN [s EXCEPT !.rec[lba].trans = l]
        ELSE [s EXCEPT !.rec[lba].trans = l,
                       !.cache[lba] = [@ EXCEPT !.val = Content(s.dev.log[s.trans[l].jbd_lba[lba]]),
                                                !.uptodate = TRUE, !.dirty = TRUE,
                                                !.end_write = l]]

jbd_trans_remove_block_rec(s, t, lba) ==
    IF s.rec[lba].trans = t
    THEN [s EXCEPT !.rec[lba] = [trans |-> NoTrans, bufs |-> <<>>]] ELSE s

RECURSIVE AbortAll(_, _)
AbortAll(s, lbas) ==
    IF lbas = <<>> THEN s
    ELSE LET l == Head(lbas)
             t == s.curr
             s1 == [s EXCEPT !.cache[l].uptodate = FALSE, !.cache[l].dirty = FALSE,
                             !.cache[l].end_write = NoTrans,
                             !.rec[l].bufs = Without(@, t)]
         IN  AbortAll(RollBack(Release(s1, l), t, l, FALSE), Tail(lbas))

\* jbd_journal_free_trans(journal, trans, true)
jbd_abort_trans(s) ==
    jbd_free_written([AbortAll(s, s.trans[s.curr].buf_queue)
                         EXCEPT !.trans[s.curr].buf_queue = <<>>], s.curr)

-----------------------------------------------------------------------------
(* Committing.                                                             *)

HungIfFull(s) == [s EXCEPT !.hung = (s.last = s.start)]

\* Mutant: a full log is not made room in.
AllocBlockNoPurge(s) ==
    HungIfFull([s EXCEPT !.last = wrap(@ + 1), !.trans[s.curr].alloc_blocks = @ + 1])

\* The log block a transaction is given, and the log after that: when the log is
\* full its oldest transaction is flushed.
jbd_journal_alloc_block(s) ==
    LET s1 == [s EXCEPT !.last = wrap(@ + 1), !.trans[s.curr].alloc_blocks = @ + 1]
    IN  IF s1.last /= s1.start THEN s1
        ELSE HungIfFull(jbd_journal_purge_cp_trans(s1, TRUE, TRUE))

\* A buffer that is no longer dirty leaves the transaction.
DropClean(s, lba) ==
    LET t == s.curr
        s1 == [s EXCEPT !.rec[lba].bufs = Without(@, t), !.cache[lba].end_write = NoTrans]
        s2 == jbd_trans_remove_block_rec(
                  RollBack(s1, t, lba, lba \in s.trans[t].revoke), t, lba)
    IN  [Release(s2, lba) EXCEPT !.trans[t].data_cnt = @ - 1,
                                 !.trans[t].buf_queue = Without(@, lba)]

RECURSIVE DropCleanTail(_)
DropCleanTail(s) ==
    LET q == s.trans[s.curr].buf_queue
    IN  IF q = <<>> \/ s.cache[Last(q)].dirty THEN s
        ELSE DropCleanTail(DropClean(s, Last(q)))

\* The descriptor block under construction: its place and tags, or no place.
NoDesc == [at |-> 0, tags |-> <<>>]
StartIn(s, i) ==
    [s EXCEPT !.trans[s.curr].start_iblock = IF @ = 0 THEN i ELSE @]
WriteDesc(s, d) ==
    IF d.at = 0 THEN s
    ELSE WriteLog(s, d.at, Descriptor(s.trans[s.curr].trans_id, d.tags))

\* Block l, logged in the next block of the log.
LogData(s, l) ==
    WriteLog([jbd_journal_alloc_block(s) EXCEPT !.trans[s.curr].jbd_lba[l] = s.last],
             s.last, Data(s.cache[l].val))

RECURSIVE jbd_journal_prepare(_, _, _)
jbd_journal_prepare(s, lbas, desc) ==
    IF s.hung THEN s
    ELSE IF lbas = <<>> THEN WriteDesc(s, desc)
    ELSE LET l == Head(lbas)
             full == Len(desc.tags) = TagMax
         IN  IF ~s.cache[l].dirty
             THEN jbd_journal_prepare(DropClean(s, l), Tail(lbas), desc)
             ELSE IF desc.at = 0 \/ full
             THEN jbd_journal_prepare(
                      LogData(StartIn(jbd_journal_alloc_block(WriteDesc(s, desc)), s.last), l),
                      Tail(lbas), [at |-> s.last, tags |-> <<l>>])
             ELSE jbd_journal_prepare(LogData(s, l), Tail(lbas),
                                      [desc EXCEPT !.tags = Append(@, l)])

jbd_journal_prepare_revoke(s) ==
    LET tr == s.trans[s.curr]
        s1 == StartIn(jbd_journal_alloc_block(s), s.last)
    IN  IF tr.revoke = {} \/ s.hung THEN s
        ELSE WriteLog(s1, s.last, Revoke(tr.trans_id, tr.revoke))

jbd_trans_write_commit_block(s) ==
    LET s1 == jbd_journal_alloc_block(s)
    IN  IF s.hung THEN s ELSE WriteLog(s1, s.last, Commit(s.trans[s.curr].trans_id))

\* The blocks a committed transaction revokes need not be written any more.
RECURSIVE EndRevoked(_, _)
EndRevoked(s, lbas) ==
    IF lbas = {} THEN s
    ELSE LET l == CHOOSE x \in lbas : \A y \in lbas : x <= y
             q == s.rec[l].bufs
         IN  EndRevoked(IF q = <<>> THEN s
                        ELSE jbd_trans_end_write(s, Last(q), l),
                        lbas \ {l})

\* jbd_journal_cp_trans: the buffers may be written from now on.
RECURSIVE jbd_journal_cp_trans(_, _)
jbd_journal_cp_trans(s, lbas) ==
    IF lbas = <<>> THEN s ELSE jbd_journal_cp_trans(Release(s, Head(lbas)), Tail(lbas))

\* The transaction's commit block is in the log: it waits for its checkpoint
\* unless it has nothing to write.
Committed(s, t) ==
    LET tr == s.trans[t]
        queued == [s EXCEPT !.cp_queue = Append(@, t)]
    IN  IF s.cp_queue /= <<>>
        THEN jbd_journal_cp_trans(queued, tr.buf_queue)
        ELSE IF tr.data_cnt > 0
        THEN jbd_journal_cp_trans(
                 jbd_write_sb(jbd_journal_write_sb(
                     [queued EXCEPT !.start = wrap(tr.start_iblock),
                                    !.trans_id = tr.trans_id])), tr.buf_queue)
        ELSE jbd_free_written(
                 jbd_journal_write_sb([s EXCEPT !.start = EndOf(s, t),
                                                !.trans_id = tr.trans_id + 1]), t)

\* The blocks and revocations of the transaction are in the log.
Prepared(s, t) ==
    IF s.trans[t].buf_queue = <<>> /\ s.trans[t].revoke = {}
    THEN jbd_free_written(s, t)
    ELSE Committed(EndRevoked([jbd_trans_write_commit_block(s) EXCEPT !.alloc_trans_id = @ + 1],
                              s.trans[t].revoke), t)

PrepareAll(s) == jbd_journal_prepare(s, s.trans[s.curr].buf_queue, NoDesc)

jbd_journal_commit_trans(s) ==
    Prepared(jbd_journal_prepare_revoke(PrepareAll(DropCleanTail(
                 [s EXCEPT !.trans[s.curr].trans_id = s.alloc_trans_id]))), s.curr)

-----------------------------------------------------------------------------
(* Recovery.                                                               *)

\* The records the log holds from block at on: the header blocks one after the
\* other, until one has no magic, another sequence number than expected, or the
\* log has been walked once round.  Past transaction last the walk ends (eio:
\* it met an unexpected sequence number before that).
RECURSIVE jbd_iterate_log(_, _, _, _, _)
jbd_iterate_log(dev, start, at, id, last) ==
    LET rec == dev.log[at]
        next == wrap(at + 1 + (IF rec.type = "descriptor" THEN Len(rec.tags) ELSE 0))
        rest == jbd_iterate_log(dev, start, next, IF rec.type = "commit" THEN id + 1 ELSE id, last)
        here == <<[at |-> at, id |-> id, rec |-> rec]>>
    IN  IF id > last \/ rec.type \in {"blank", "data"} THEN [log |-> <<>>, eio |-> FALSE]
        ELSE IF rec.seq /= id THEN [log |-> <<>>, eio |-> TRUE]
        ELSE IF next = start THEN [log |-> here, eio |-> FALSE]
        ELSE [rest EXCEPT !.log = here \o @]

\* Mutant: revoke records are not looked up.
RevokeEntryNone(log, lba) == 0

\* The revoke blocks that name lba.
jbd_build_revoke_tree(log, lba) == {i \in DOMAIN log : log[i].rec.type = "revoke" /\ lba \in log[i].rec.lbas}

\* The transaction that revokes lba last, or none.
RevokeEntry(log, lba) ==
    LET rs == jbd_build_revoke_tree(log, lba)
    IN  IF rs = {} THEN 0 ELSE log[CHOOSE i \in rs : \A k \in rs : k <= i].id

RECURSIVE jbd_replay_block_tags(_, _, _, _)
jbd_replay_block_tags(s, log, e, n) ==
    IF n > Len(e.rec.tags) THEN s
    ELSE LET lba == e.rec.tags[n]
             s1 == IF RevokeEntry(log, lba) >= e.id THEN s
                   ELSE WriteFs(s, lba, Content(s.dev.log[wrap(e.at + n)]))
         IN  jbd_replay_block_tags(s1, log, e, n + 1)

RECURSIVE ReplayAll(_, _, _)
ReplayAll(s, log, todo) ==
    IF todo = <<>> THEN s
    ELSE LET e == Head(todo)
         IN  ReplayAll(IF e.rec.type = "descriptor" THEN jbd_replay_block_tags(s, log, e, 1)
                                                    ELSE s, log, Tail(todo))

\* Mutant: descriptor blocks are replayed whether or not a commit block follows.
RecoverUncommitted(s) ==
    LET sb == s.dev.sb
        scan == jbd_iterate_log(s.dev, sb.start, sb.start, sb.sequence, sb.sequence + 2 * maxlen)
    IN  IF sb.start = 0 THEN [s EXCEPT !.sb = sb]
        ELSE [ReplayAll(s, scan.log, scan.log)
                 EXCEPT !.sb = [start |-> 0, sequence |-> sb.sequence], !.dirty = TRUE]

jbd_recover(s) ==
    LET sb == s.dev.sb
        scan == jbd_iterate_log(s.dev, sb.start, sb.start, sb.sequence, sb.sequence + 2 * maxlen)
        commits == Len(SelectSeq(scan.log, LAMBDA e : e.rec.type = "commit"))
        last == IF commits > 0 THEN sb.sequence + commits - 1 ELSE sb.sequence
        found == IF commits = 0 THEN [log |-> <<>>, eio |-> FALSE]
                 ELSE jbd_iterate_log(s.dev, sb.start, sb.start, sb.sequence, last)
    IN  IF sb.start = 0 THEN [s EXCEPT !.sb = sb]
        ELSE [ReplayAll(s, found.log, found.log)
                 EXCEPT !.sb = [start |-> 0, sequence |-> last], !.dirty = TRUE]

jbd_journal_start(s) ==
    jbd_write_sb(jbd_journal_write_sb(
        [s EXCEPT !.start = first, !.last = first,
                  !.trans_id = s.sb.sequence + 1, !.alloc_trans_id = s.sb.sequence + 1]))

jbd_journal_stop(s) ==
    jbd_write_sb(jbd_journal_write_sb(
        [jbd_journal_purge_cp_trans(s, TRUE, FALSE) EXCEPT !.start = 0, !.trans_id = 0]))

-----------------------------------------------------------------------------
(* The system.                                                             *)

NewTrans == [used |-> FALSE, trans_id |-> 0, start_iblock |-> 0, alloc_blocks |-> 0,
             data_cnt |-> 0, written_cnt |-> 0, buf_queue |-> <<>>, revoke |-> {},
             jbd_lba |-> [l \in Lba |-> 0]]

\* The driver before it has touched the journal of the disk dev.
Fresh(dev) ==
    [dev |-> dev, w |-> <<>>, cache |-> [l \in Lba |-> Invalid],
     sb |-> [start |-> 0, sequence |-> 0], dirty |-> FALSE,
     start |-> 0, last |-> 0, trans_id |-> 0, alloc_trans_id |-> 0,
     cp_queue |-> <<>>, curr |-> NoTrans, hung |-> FALSE,
     behind |-> FALSE, restarted |-> FALSE, forgot |-> FALSE,
     rec |-> [l \in Lba |-> [trans |-> NoTrans, bufs |-> <<>>]],
     trans |-> [t \in 1 .. MaxTrans |-> NewTrans]]

Init ==
    /\ platter = [fs |-> [l \in Lba |-> 0], log |-> [i \in LogBlock |-> Blank],
                  sb |-> [start |-> 0, sequence |-> 0]]
    /\ image = platter.fs
    /\ j = Fresh(platter)
    /\ mode = "down"
    /\ count = 0
    /\ crashes = 0
    /\ live = [kind |-> [l \in Lba |-> "meta"], val |-> [l \in Lba |-> 0]]
    /\ durable = live

Idle == j.w = <<>> /\ ~j.hung
Running == Idle /\ mode = "up" /\ j.curr /= NoTrans

\* The moments at which a power failure is harmless: the log has not been written
\* over while the superblock on the disk was older than the one in memory, the
\* journal has not been stopped and started since the power came on, and no abort
\* has thrown away the record of a block that is still in the log.
Covered == ~j.behind /\ ~j.restarted /\ ~j.forgot

Logged(s, lba) == \E t \in Range(s.cp_queue) : s.trans[t].jbd_lba[lba] /= 0

\* A write of the operation under way reaches the platter.
DiskWrite ==
    /\ j.w /= <<>>
    /\ LET p == Apply(platter, Head(j.w))
       IN  platter' = p /\ image' = jbd_recover(Fresh(p)).dev.fs
    /\ j' = [j EXCEPT !.w = Tail(@)]
    /\ durable' = IF Head(j.w).to = "log" /\ Head(j.w).val.type = "commit" THEN live ELSE durable
    /\ UNCHANGED <<mode, count, crashes, live>>

Crash ==
    /\ crashes < MaxCrash
    /\ AnyCrash \/ Covered
    /\ j' = Fresh(platter)
    /\ mode' = "down"
    /\ crashes' = crashes + 1
    /\ live' = durable
    /\ UNCHANGED <<platter, image, count, durable>>

ext4_recover ==
    /\ Idle /\ mode = "down"
    /\ j' = jbd_write_sb(jbd_recover(j))
    /\ mode' = "recovered"
    /\ UNCHANGED <<platter, image, count, crashes, live, durable>>

ext4_journal_start ==
    /\ Idle /\ mode = "recovered"
    /\ j' = jbd_journal_start(j)
    /\ mode' = "up"
    /\ UNCHANGED <<platter, image, count, crashes, live, durable>>

ext4_journal_stop ==
    /\ count <= Restarts
    /\ Idle /\ mode = "up" /\ j.curr = NoTrans /\ j.trans_id > 1
    /\ \E s \in {jbd_journal_stop(j)} :
          j' = [Fresh(j.dev) EXCEPT !.w = s.w, !.dev = s.dev, !.restarted = TRUE]
    /\ mode' = "down"
    /\ UNCHANGED <<platter, image, count, crashes, live, durable>>

ext4_trans_start ==
    /\ Idle /\ mode = "up" /\ j.curr = NoTrans
    /\ count < MaxTrans
    /\ count' = count + 1
    /\ j' = [j EXCEPT !.curr = count + 1, !.trans[count + 1] = [NewTrans EXCEPT !.used = TRUE]]
    /\ UNCHANGED <<platter, image, mode, crashes, live, durable>>

\* The caller rewrites a metadata block.
Modify(lba) ==
    /\ Running /\ live.kind[lba] = "meta" /\ live.val[lba] /= count
    /\ j' = jbd_trans_set_block_dirty(j, lba, count)
    /\ live' = [live EXCEPT !.val[lba] = count]
    /\ UNCHANGED <<platter, image, mode, count, crashes, durable>>

\* A block that no committed transaction uses becomes a metadata block.
AllocMeta(lba) ==
    /\ Running /\ live.kind[lba] = "free" /\ durable.kind[lba] = "free"
    /\ live.val[lba] /= count
    /\ j' = jbd_trans_set_block_dirty(jbd_trans_set_block_dirty(j, BITMAP, count), lba, count)
    /\ live' = [kind |-> [live.kind EXCEPT ![lba] = "meta"],
                val |-> [live.val EXCEPT ![lba] = count, ![BITMAP] = count]]
    /\ UNCHANGED <<platter, image, mode, count, crashes, durable>>

\* It becomes a block of file data, which is written in place at once.
AllocData(lba) ==
    /\ Running /\ live.kind[lba] = "free" /\ durable.kind[lba] = "free"
    /\ j' = WriteFs(jbd_trans_set_block_dirty(j, BITMAP, count), lba, count)
    /\ live' = [kind |-> [live.kind EXCEPT ![lba] = "data"],
                val |-> [live.val EXCEPT ![lba] = count, ![BITMAP] = count]]
    /\ UNCHANGED <<platter, image, mode, count, crashes, durable>>

ext4_balloc_free_block(lba) ==
    /\ Running /\ live.kind[lba] \in {"meta", "data"}
    /\ FreeModified \/ live.val[lba] /= count
    /\ j' = ext4_bcache_invalidate_buf(
                jbd_trans_try_revoke_block(jbd_trans_set_block_dirty(j, BITMAP, count), lba), lba)
    /\ live' = [kind |-> [live.kind EXCEPT ![lba] = "free"],
                val |-> [live.val EXCEPT ![BITMAP] = count]]
    /\ UNCHANGED <<platter, image, mode, count, crashes, durable>>

ext4_trans_stop ==
    /\ Running
    /\ j' = [jbd_journal_commit_trans(j) EXCEPT !.curr = NoTrans]
    /\ UNCHANGED <<platter, image, mode, count, crashes, live, durable>>

ext4_trans_abort ==
    /\ Running
    /\ AbortFrees \/ \A l \in Lba : live.kind[l] = "free" => durable.kind[l] = "free"
    /\ LET s == jbd_abort_trans(j)
       IN  j' = [s EXCEPT !.curr = NoTrans,
                          !.forgot = @ \/ \E l \in Lba : /\ Logged(s, l)
                                                         /\ j.rec[l].trans /= NoTrans
                                                         /\ s.rec[l].trans = NoTrans]
    /\ live' = durable
    /\ UNCHANGED <<platter, image, mode, count, crashes, durable>>

\* The block cache writes a dirty buffer back when it pleases.
WriteBack(lba) ==
    /\ Idle /\ mode = "up"
    /\ j.cache[lba].dirty /\ j.cache[lba].refs = 0
    /\ j' = ext4_block_flush_buf(j, lba)
    /\ UNCHANGED <<platter, image, mode, count, crashes, live, durable>>

Next ==
    \/ DiskWrite \/ Crash \/ ext4_recover \/ ext4_journal_start \/ ext4_journal_stop
    \/ ext4_trans_start \/ ext4_trans_stop \/ ext4_trans_abort
    \/ \E lba \in Lba : Modify(lba) \/ WriteBack(lba)
    \/ \E lba \in Blocks : AllocMeta(lba) \/ AllocData(lba) \/ ext4_balloc_free_block(lba)

Spec == Init /\ [][Next]_vars

-----------------------------------------------------------------------------
\* Whenever the power fails, also during an earlier recovery, ext4_recover leaves
\* on the platter what the last transaction whose commit block got there had
\* written: no later write, no older copy of a block that was freed and reused.
RecoversCommitted ==
    (mode = "recovered" /\ j.w = <<>>) =>
        \A l \in Lba : durable.kind[l] /= "free" => platter.fs[l] = durable.val[l]

\* While the journal runs a reader sees every block as the transactions left it,
\* whichever mixture of buffers, logged copies and write-backs holds it, and after
\* an abort as it was before.
ReadsAreCurrent ==
    (Idle /\ mode = "up") => \A l \in Lba : live.kind[l] /= "free" => View(j, l) = live.val[l]

\* jbd_journal_alloc_block always finds room in a log with room for one
\* transaction: its loop on a full log frees blocks (the code would assert).
NeverHung == ~j.hung

InUse(shadow, val) == [l \in Lba |-> IF shadow.kind[l] = "free" THEN 0 ELSE val[l]]

Store == INSTANCE AtomicStore
    WITH Value <- 0 .. Garbage,
         store <- IF Covered \/ AnyCrash THEN InUse(durable, image)
                                         ELSE InUse(durable, durable.val),
         view <- InUse(live, live.val)

\* What a recovery would leave changes only when a commit block reaches the
\* platter, and then to what the transaction sees: none of the writes of commits,
\* checkpoints, aborts, recoveries and restarts shows before or after that.
IsAtomicStore == Store!Spec
=============================================================================
