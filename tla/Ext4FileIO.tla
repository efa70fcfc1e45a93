----------------------------- MODULE Ext4FileIO ------------------------------
(***************************************************************************)
(* Reading, writing, seeking and truncating through handles of one file    *)
(* (src/drivers/fs/ext/ext4.c): how a transfer is cut into an unaligned    *)
(* head, runs of blocks that lie side by side on the disk, and a tail.  A  *)
(* handle keeps its own copy of the file's size.  The byte that call v     *)
(* puts at offset o is 10 * v + o.                                         *)
(***************************************************************************)
EXTENDS Integers, Sequences, SequencesExt

CONSTANTS block_size,
          FreeLists,   \* the order in which the disk gives out its blocks
          Handles, Sizes, Marks, MaxSize

VARIABLES file,        \* the inode: size, block map; the disk's free list and blocks
          handle,      \* fpos and fsize of each handle
          want,        \* what was written, byte by byte
          right,       \* the last call was no read, or returned the bytes it should
          write_back   \* bdev->cache_write_back, counted up to 1
ioVars == <<file, handle, want, right, write_back>>

Lesser(a, b) == IF a < b THEN a ELSE b
CeilDiv(n, m) == (n + m - 1) \div m
SUPERBLOCK == 0        \* block 0 and what is in it

\* The physical block of a file block; 0 where there is none.
ext4_fs_get_inode_dblk_idx(f, i) == IF i < Len(f.map) THEN f.map[i + 1] ELSE SUPERBLOCK

---------------------------------------------------------------------------
(* ext4_fwrite.  w carries its locals and what it changes. *)

\* Appends one block and, with it, rounds the inode's size up.
ext4_fs_append_inode_dblk(w) ==
    [w EXCEPT !.map = Append(@, Head(w.free)), !.free = Tail(@),
              !.size = (Len(w.map) + 1) * block_size, !.fblk = Head(w.free), !.idx = Len(w.map)]


\* The inner loop: blocks side by side from start; the first one that is not ends it.
WriteRun(w) ==
    LET RECURSIVE Run(_)
        Run(x) ==
            LET y == IF x.idx < x.ifile_blocks THEN [x EXCEPT !.fblk = x.map[x.idx + 1]]
                     ELSE ext4_fs_append_inode_dblk(x)
                z == [y EXCEPT !.idx = @ + 1, !.start = IF @ = 0 THEN y.fblk ELSE @]
            IN  IF x.idx >= x.last THEN x
                ELSE IF x.idx >= x.ifile_blocks /\ x.free = <<>> THEN [x EXCEPT !.rr = "ENOSPC"]
                ELSE IF z.start + z.count /= z.fblk THEN z
                ELSE Run([z EXCEPT !.count = @ + 1])
    IN  Run(w)

\* n bytes of the caller's buffer, from offset off of block b on.
PutBytes(w, b, off, n, v) ==
    [w EXCEPT !.disk = [x \in DOMAIN @ |->
                          [j \in 1 .. block_size |->
                             LET o == (x - b) * block_size + (j - 1) - off
                             IN  IF o >= 0 /\ o < n THEN 10 * v + w.fpos + o ELSE @[x][j]]],
              !.fpos = @ + n, !.left = @ - n]

RECURSIVE WriteBlocks(_, _)
WriteBlocks(w, v) ==
    IF w.left < block_size \/ w.rr /= "EOK" THEN w
    ELSE LET run == WriteRun(w)
             put == PutBytes(run, run.start, 0, block_size * run.count, v)
         IN  WriteBlocks([put EXCEPT !.start = run.fblk, !.count = 1], v)

WriteTail(w, v) ==
    IF w.left = 0 \/ w.rr /= "EOK" THEN w
    ELSE IF w.idx < w.ifile_blocks THEN PutBytes(w, w.map[w.idx + 1], 0, w.left, v)
    ELSE IF w.free = <<>> THEN [w EXCEPT !.rr = "ENOSPC"]
    ELSE LET a == ext4_fs_append_inode_dblk(w) IN PutBytes(a, a.fblk, 0, a.left, v)

WriteStart(f, pos, n) ==
    f @@
    [fpos |-> pos, left |-> n, idx |-> pos \div block_size, last |-> (pos + n) \div block_size,
     ifile_blocks |-> CeilDiv(f.size, block_size), start |-> 0, count |-> 0, fblk |-> 0, rr |-> "EOK", mode |-> 0]

\* Its answer is that of ext4_fs_put_inode_ref, whatever happened before; the caller
\* learns from wcnt how much was written.  When blocks run out between two whole
\* blocks the write-back mode stays on.
Written(h, n, v) ==
    LET pos == handle[h].fpos
        unalg == pos % block_size
        len == Lesser(n, block_size - unalg)
        w0 == WriteStart(file, pos, n)
        w1 == IF unalg = 0 THEN w0
              ELSE [PutBytes(w0, ext4_fs_get_inode_dblk_idx(file, w0.idx), unalg, len, v) EXCEPT !.idx = @ + 1]
        w2 == WriteBlocks(w1, v)
    IN  WriteTail(IF w2.rr = "EOK" THEN w2 ELSE [w2 EXCEPT !.mode = 1], v)

\* out_fsize: also a write that ran out of blocks sets the size it reached.
SizeAfter(w) == IF w.fpos > file.size THEN w.fpos ELSE w.size

ext4_fwrite(h, n, v) ==
    /\ handle[h].fpos + n <= MaxSize
    /\ \E w \in {Written(h, n, v)} :
          /\ file' = [size |-> SizeAfter(w),
                      map |-> w.map, free |-> w.free, disk |-> w.disk]
          /\ handle' = [handle EXCEPT ![h] = [fpos |-> w.fpos,
                                              fsize |-> IF w.fpos > file.size THEN w.fpos ELSE file.size]]
          /\ want' = [i \in 1 .. (IF w.fpos > Len(want) THEN w.fpos ELSE Len(want)) |->
                        IF i > handle[h].fpos /\ i <= w.fpos THEN 10 * v + i - 1 ELSE want[i]]
          /\ write_back' = Lesser(write_back + w.mode, 1)
    /\ right' = TRUE

---------------------------------------------------------------------------
(* ext4_fread, the same way. *)

ReadRun(f, w) ==
    LET RECURSIVE Run(_)
        Run(x) ==
            LET fblock == ext4_fs_get_inode_dblk_idx(f, x.idx)
                z == [x EXCEPT !.idx = @ + 1, !.fblk = fblock, !.start = IF @ = 0 THEN fblock ELSE @]
            IN  IF x.idx >= x.last THEN x
                ELSE IF z.start + z.count /= fblock THEN z
                ELSE Run([z EXCEPT !.count = @ + 1])
    IN  Run(w)

ReadTail(f, w) ==
    IF w.left = 0 THEN w
    ELSE [w EXCEPT !.got = @ \o SubSeq(f.disk[ext4_fs_get_inode_dblk_idx(f, w.idx)], 1, w.left),
                   !.fpos = @ + w.left]

RECURSIVE ReadBlocks(_, _)
ReadBlocks(f, w) ==
    IF w.left < block_size THEN w
    ELSE LET run == ReadRun(f, w)
             n == block_size * run.count
         IN  ReadBlocks(f, [run EXCEPT !.got = @ \o FlattenSeq([i \in 1 .. run.count |-> f.disk[run.start + i - 1]]),
                                       !.left = @ - n, !.fpos = @ + n, !.start = run.fblk, !.count = 1])

\* The rest of the file is fsize - fpos, unsigned: behind the end it is huge.
Read(h, n) ==
    LET pos == handle[h].fpos
        size == IF pos <= file.size THEN Lesser(n, file.size - pos) ELSE n
        unalg == pos % block_size
        len == Lesser(size, block_size - unalg)
        idx == pos \div block_size
        fblock == ext4_fs_get_inode_dblk_idx(file, idx)
        w0 == [fpos |-> pos, left |-> size, idx |-> idx, last |-> (pos + size) \div block_size,
               start |-> 0, count |-> 0, fblk |-> 0, got |-> <<>>]
        w1 == IF unalg = 0 THEN w0
              ELSE [w0 EXCEPT !.got = IF fblock = 0 THEN [i \in 1 .. len |-> 0]
                                      ELSE SubSeq(file.disk[fblock], unalg + 1, unalg + len),
                              !.fpos = @ + len, !.left = @ - len, !.idx = @ + 1]
    IN  ReadTail(file, ReadBlocks(file, w1))

ext4_fread(h, n) ==
    LET pos == handle[h].fpos
    IN  /\ \E w \in {Read(h, n)} :
              /\ handle' = [handle EXCEPT ![h] = [fpos |-> w.fpos, fsize |-> file.size]]
              /\ right' = (w.got = SubSeq(want, pos + 1, Lesser(pos + n, Len(want))))
        /\ UNCHANGED <<file, want, write_back>>

\* A position up to the handle's own idea of the size; callers do not use an old one.
ext4_fseek(h, pos) ==
    /\ pos <= handle[h].fsize
    /\ pos <= file.size
    /\ handle' = [handle EXCEPT ![h].fpos = pos]
    /\ right' = TRUE
    /\ UNCHANGED <<file, want, write_back>>

\* Only shrinks.  Callers let no other handle stand behind the new end.
ext4_ftruncate(h, size) ==
    LET keep == CeilDiv(size, block_size)
    IN  /\ \A g \in Handles \ {h} : handle[g].fpos <= size
        /\ IF file.size <= size
           THEN /\ handle' = [handle EXCEPT ![h].fsize = file.size]
                /\ UNCHANGED <<file, want>>
           ELSE /\ file' = [file EXCEPT !.size = size, !.map = SubSeq(@, 1, keep),
                                        !.free = @ \o SubSeq(file.map, keep + 1, Len(file.map))]
                /\ handle' = [handle EXCEPT ![h] = [fpos |-> Lesser(@.fpos, size),
                                                    fsize |-> size]]
                /\ want' = SubSeq(want, 1, size)
        /\ right' = TRUE
        /\ UNCHANGED write_back

\* The superblock's bytes are no file's: -1.
InitIO ==
    /\ \E free \in FreeLists :
          file = [size |-> 0, map |-> <<>>, free |-> free,
                  disk |-> [b \in {SUPERBLOCK} \cup ToSet(free) |-> [j \in 1 .. block_size |-> -1]]]
    /\ handle = [h \in Handles |-> [fpos |-> 0, fsize |-> 0]]
    /\ want = <<>> /\ right = TRUE /\ write_back = 0

NextIO == \E h \in Handles :
              \/ \E n \in Sizes, v \in Marks : ext4_fwrite(h, n, v)
              \/ \E n \in Sizes : ext4_fread(h, n)
              \/ \E p \in 0 .. MaxSize : ext4_fseek(h, p) \/ ext4_ftruncate(h, p)
SpecIO == InitIO /\ [][NextIO]_ioVars

---------------------------------------------------------------------------
(* A read returns the bytes that were last written at its offsets, up to the end of
   the file, however the blocks lie on the disk, whichever handle wrote them, and
   after writes that ran out of space half way. *)
ReadsWhatWasWritten == right

(* The file is as long as what was written, with just the blocks for that: a write
   that runs out of blocks takes back the size that appending rounded up. *)
SizeIsExact == file.size = Len(want) /\ Len(file.map) = CeilDiv(file.size, block_size)
=============================================================================
