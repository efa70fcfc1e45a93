------------------------------- MODULE Ext4Bytes -------------------------------
(***************************************************************************)
(* Arithmetic of the ext4 library where an off-by-one would hide: bytes of a  *)
(* partition read and written through whole physical blocks                   *)
(* (ext4_blockdev.c), the partition table (ext4_mbr.c) and the words that a   *)
(* name is hashed from (ext4_hash.c).                                         *)
(***************************************************************************)
EXTENDS Integers, Sequences, SequencesExt, FiniteSets

CONSTANTS ph_bsize, ph_bcnt,   \* physical blocks: a power of two
          Parts,               \* [offset, size] of partitions, in bytes
          DiskSizes,           \* bytes of disks that get a partition table
          Divisions,           \* what parts->division[i] may be, in percent
          MaxName

VARIABLES disk,    \* the bytes of the disk, from 0
          part,
          op       \* what was done last, and with what result
byteVars == <<disk, part, op>>

Lesser(a, b) == IF a < b THEN a ELSE b
Patched(d, at, p) == [x \in DOMAIN d |-> IF x \in at .. at + Len(p) - 1 THEN p[x - at + 1] ELSE d[x]]
Slice(d, at, n) == [k \in 1 .. n |-> d[at + k - 1]]


\* The transfers a request is made of: [block, at, n]: n bytes from the byte `at` of the block.
Transfers(p, off, len) ==
    LET unalg == off % ph_bsize
        head == IF unalg = 0 THEN 0 ELSE Lesser(ph_bsize - unalg, len)
        first == (off + p.offset) \div ph_bsize + (IF unalg = 0 THEN 0 ELSE 1)
        blen == (len - head) \div ph_bsize
        rest == len - head - blen * ph_bsize
    IN  (IF head = 0 THEN <<>> ELSE <<[block |-> first - 1, at |-> unalg, n |-> head]>>)
        \o (IF blen = 0 THEN <<>> ELSE <<[block |-> first, at |-> 0, n |-> blen * ph_bsize]>>)
        \o (IF rest = 0 THEN <<>> ELSE <<[block |-> first + blen, at |-> 0, n |-> rest]>>)

\* The disk after the first `done` transfers; a partial block is read, patched and written.
RECURSIVE Run(_, _, _, _)
Run(d, ts, bytes, done) ==
    IF ts = <<>> \/ done = 0 THEN d
    ELSE Run(Patched(d, Head(ts).block * ph_bsize + Head(ts).at, SubSeq(bytes, 1, Head(ts).n)),
             Tail(ts), SubSeq(bytes, Head(ts).n + 1, Len(bytes)), done - 1)

\* A device that fails does so after some of the transfers.
ext4_block_writebytes(off, len, v) ==
    \E ts \in {Transfers(part, off, len)}, done \in 0 .. 3 :
       /\ off + len <= part.size /\ done <= Len(ts)
       /\ disk' = Run(disk, ts, [k \in 1 .. len |-> v], done)
       /\ op' = [call |-> "write", off |-> off, len |-> len, v |-> v, ok |-> done = Len(ts), before |-> disk]
       /\ UNCHANGED part

ext4_block_readbytes(off, len) ==
    \E ts \in {Transfers(part, off, len)} :
       /\ off + len <= part.size
       /\ op' = [call |-> "read", off |-> off, len |-> len,
                 got |-> FlattenSeq([k \in DOMAIN ts |-> Slice(disk, ts[k].block * ph_bsize + ts[k].at, ts[k].n)])]
       /\ UNCHANGED <<disk, part>>
-----------------------------------------------------------------------------
SECTOR == 512

\* Heads: the smallest that leaves at most 1024 cylinders.
RECURSIVE HeadsFrom(_, _)
HeadsFrom(k, size) == IF k < 256 /\ (size \div k) \div 63 > 1024 THEN HeadsFrom(2 * k, size) ELSE IF k = 256 THEN 255 ELSE k

\* The entries, from the cylinder cyl_it on.  A start is in bytes where the table has sectors; the size of the first
\* is reduced by the boot track, and wraps when it is smaller than that.
RECURSIVE Entries(_, _, _, _, _)
Entries(i, cyl_it, division, cyl_count, cyl_size) ==
    IF i > 4 THEN <<>>
    ELSE LET n == (cyl_count * division[i]) \div 100
             bytes == n * cyl_size - (IF i = 1 THEN 63 * SECTOR ELSE 0)
         IN  <<IF n = 0 THEN [type |-> 0, first_lba |-> 0, sectors |-> 0]
               ELSE [type |-> 131, first_lba |-> cyl_it * cyl_size + (IF i = 1 THEN 63 ELSE 0),
                     sectors |-> IF bytes < 0 THEN 8388608 + (bytes \div SECTOR) ELSE bytes \div SECTOR]>>
             \o Entries(i + 1, cyl_it + n, division, cyl_count, cyl_size)

ext4_mbr_write(size, division) ==
    LET cyl_size == 63 * HeadsFrom(16, size) IN Entries(1, 0, division, size \div cyl_size, cyl_size)

\* Empty entries and those of another type are skipped.
ext4_mbr_scan(mbr) == {i \in DOMAIN mbr : mbr[i].sectors /= 0 /\ mbr[i].type = 131}

Partition(size, division) ==
    /\ op' = [call |-> "mbr", size |-> size, division |-> division, mbr |-> ext4_mbr_write(size, division)]
    /\ UNCHANGED <<disk, part>>
-----------------------------------------------------------------------------
\* The words for the next dlen bytes of a name of slen; a byte is its position in the name.
ext2_prep_hashbuf(slen, dlen) ==
    LET fill == FoldLeft(LAMBDA s, i : IF i % 4 = 3
                                       THEN [dst |-> Append(s.dst, Append(s.val, i)), val |-> <<>>, dlen |-> s.dlen - 4]
                                       ELSE [s EXCEPT !.val = Append(@, i)],
                         [dst |-> <<>>, val |-> <<>>, dlen |-> dlen], [i \in 1 .. Lesser(slen, dlen) |-> i - 1])
        last == IF fill.dlen - 4 >= 0 THEN Append(fill.dst, fill.val) ELSE fill.dst
        pads == IF fill.dlen - 8 >= 0 THEN (fill.dlen - 8) \div 4 + 1 ELSE 0
    IN  last \o [k \in 1 .. pads |-> <<>>]

\* The blocks of words that ext2_tea (16 bytes) and ext2_half_md4 (32) are run on.
RECURSIVE ext2_htree_hash(_, _, _)
ext2_htree_hash(at, len, dlen) ==
    IF len <= 0 THEN <<>>
    ELSE <<[k \in DOMAIN ext2_prep_hashbuf(len, dlen) |-> [j \in DOMAIN ext2_prep_hashbuf(len, dlen)[k] |->
              at + ext2_prep_hashbuf(len, dlen)[k][j]]]>> \o ext2_htree_hash(at + dlen, len - dlen, dlen)

Hash(len, dlen) ==
    /\ op' = [call |-> "hash", len |-> len, dlen |-> dlen, blocks |-> ext2_htree_hash(0, len, dlen)]
    /\ UNCHANGED <<disk, part>>
-----------------------------------------------------------------------------
InitBytes ==
    /\ disk = [x \in 0 .. ph_bsize * ph_bcnt - 1 |-> 0]
    /\ part \in Parts
    /\ op = [call |-> "none"]

NextBytes ==
    \/ \E off \in 0 .. part.size, len \in 1 .. part.size :
          ext4_block_readbytes(off, len) \/ (\E v \in {0, 1} : ext4_block_writebytes(off, len, v))
    \/ op.call = "none" /\ \E size \in DiskSizes, division \in [1 .. 4 -> Divisions] :
          /\ division[1] + division[2] + division[3] + division[4] <= 100
          /\ Partition(size, division)
    \/ op.call = "none" /\ \E len \in 1 .. MaxName, dlen \in {16, 32} : Hash(len, dlen)

SpecBytes == InitBytes /\ [][NextBytes]_byteVars
-----------------------------------------------------------------------------
Sectors(e) == e.first_lba .. e.first_lba + e.sectors - 1
Disjoint(e, f) == e.first_lba + e.sectors <= f.first_lba \/ f.first_lba + f.sectors <= e.first_lba

(* A request of any offset and length within the partition reads exactly those bytes, and writes those and no other;
   one that fails has written nothing else, and a beginning of them.  The partitions found in a table that was
   written are the ones with a share of the disk of at least a cylinder; unless the first is smaller than the boot
   track they do not overlap.  The blocks of words a name is hashed from hold every byte of the name once, in
   order, and are full. *)
BytesAreExact ==
    /\ op.call = "read" => op.got = Slice(disk, part.offset + op.off, op.len)
    /\ op.call = "write" =>
          \E n \in 0 .. op.len :
             /\ op.ok => n = op.len
             /\ disk = Patched(op.before, part.offset + op.off, [k \in 1 .. n |-> op.v])
    /\ op.call = "mbr" =>
          LET found == ext4_mbr_scan(op.mbr)
              cyl_size == 63 * HeadsFrom(16, op.size)
          IN  /\ found = {i \in 1 .. 4 : (op.size \div cyl_size) * op.division[i] >= 100} \ {i \in {1} : op.mbr[1].sectors = 0}
              /\ op.mbr[1].sectors < 8000000 =>
                    \A i, j \in found : i /= j => Disjoint(op.mbr[i], op.mbr[j])
    /\ op.call = "hash" =>
          /\ FlattenSeq(FlattenSeq(op.blocks)) = [k \in 1 .. op.len |-> k - 1]
          /\ \A b \in DOMAIN op.blocks : Len(op.blocks[b]) = op.dlen \div 4
=============================================================================
