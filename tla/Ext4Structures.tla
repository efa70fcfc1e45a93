---------------------------- MODULE Ext4Structures ----------------------------
(***************************************************************************)
(* Where an ext4 file system keeps things.                                 *)
(*                                                                         *)
(* The fields of an inode (ext4_inode.c): a value can be spread over       *)
(* several fields, depending on the file system, and the fields in osd2    *)
(* are a union: the code of one operating system uses the words of         *)
(* another.  W stands for 2^16, the values of a 16-bit word.               *)
(*                                                                         *)
(* The blocks of the file system itself: superblocks, descriptors          *)
(* (ext4_super.c), the bitmaps made when a group is first used, and inodes *)
(* (ext4_fs.c).  A file system is laid out as mke2fs does, without         *)
(* flexible groups; its groups are opened one after the other.             *)
(***************************************************************************)
EXTENDS Integers, Sequences, FiniteSets, Bitwise

CONSTANTS W,
          Sectors,   \* sectors of 512 bytes in a block: 1 << (block_bits - 9)
          Values,    \* what callers set, up to 64 bits
          MaxFields, \* bound: how many fields differ from those of a new inode
          blocks_per_group,
          Groups,             \* numbers of groups
          DscPerBlock,        \* descriptors in a block
          PerBlock,           \* inodes in a block
          InodesPerGroup

VARIABLES sb,        \* of the superblock what matters: for the fields [os, rev_level, huge_file, large]
                     \* (large: inode_size > 128), for the blocks a member of SuperBlocks
          inode,     \* the raw fields
          want,      \* what was set last
          marked,    \* group -> the bits that are set in the bitmap that was made for it
          place      \* group -> [ino -> <<block, slot>>]
fieldVars == <<sb, inode, want>>

Low(v) == v % (W * W)                \* (uint32_t)v
High(v) == v \div (W * W)            \* v >> 32

is_file == (inode.mode % W) >= W \div 2     \* EXT4_INODE_MODE_TYPE_MASK: the upper half of the modes

ext4_inode_get_mode == inode.mode + (IF sb.os = "HURD" THEN W * inode.osd2[2] ELSE 0)
ext4_inode_set_mode(v) ==
    inode' = [inode EXCEPT !.mode = v % W, !.osd2[2] = IF sb.os = "HURD" THEN (v \div W) % W ELSE @]

\* The fields are 16 bits wide; the callers pass 32.
ext4_inode_get_uid == inode.uid
ext4_inode_set_uid(v) == inode' = [inode EXCEPT !.uid = v % W]

ext4_inode_get_size == inode.size_lo + (IF sb.rev_level > 0 /\ is_file THEN W * W * inode.size_hi ELSE 0)
ext4_inode_set_size(v) == inode' = [inode EXCEPT !.size_lo = Low(v), !.size_hi = Low(High(v))]

ext4_inode_get_csum == inode.osd2[5] + (IF sb.large THEN W * inode.checksum_hi ELSE 0)
ext4_inode_set_csum(v) ==
    inode' = [inode EXCEPT !.osd2[5] = v % W, !.checksum_hi = IF sb.large THEN (v \div W) % W ELSE @]

ext4_inode_get_blocks_count ==
    LET cnt == inode.blocks_lo + (IF sb.huge_file THEN W * W * inode.osd2[1] ELSE 0)
    IN  IF sb.huge_file /\ inode.huge THEN cnt * Sectors ELSE cnt

\* Mutant: the upper word of a count that has become small again is kept.
SetSmallCountKeepsHigh(v) == inode' = [inode EXCEPT !.blocks_lo = v, !.huge = FALSE]
SetSmallCount(v) == inode' = [inode EXCEPT !.blocks_lo = v, !.osd2[1] = 0, !.huge = FALSE]
ext4_inode_set_blocks_count(v) ==
    \/ v < W * W /\ SetSmallCount(v)
    \/ v >= W * W /\ ~sb.huge_file /\ UNCHANGED inode
    \/ /\ v >= W * W /\ sb.huge_file
       /\ LET big == v >= W * W * W
              c == IF big THEN v \div Sectors ELSE v
          IN  inode' = [inode EXCEPT !.blocks_lo = Low(c), !.osd2[1] = High(c) % W, !.huge = big]

\* The upper word is read back 16 bits too low.
ext4_inode_get_file_acl ==
    IF sb.os = "LINUX" THEN inode.acl_lo | (W * inode.osd2[2]) ELSE inode.acl_lo
ext4_inode_set_file_acl(v) ==
    inode' = [inode EXCEPT !.acl_lo = Low(v), !.osd2[2] = IF sb.os = "LINUX" THEN High(v) % W ELSE @]

ext4_inode_get_dev == IF inode.blocks[1] /= 0 THEN inode.blocks[1] ELSE inode.blocks[2]
ext4_inode_set_dev(v) == inode' = [inode EXCEPT !.blocks[IF v >= W THEN 2 ELSE 1] = v]

\* ext4_fs_alloc_inode
NewInode == [mode |-> 0, uid |-> 0, size_lo |-> 0, size_hi |-> 0, blocks_lo |-> 0, huge |-> FALSE, acl_lo |-> 0,
             checksum_hi |-> 0, blocks |-> <<0, 0>>, osd2 |-> <<0, 0, 0, 0, 0, 0>>]
InitFields ==
    /\ sb \in [os : {"LINUX", "HURD"}, rev_level : {0, 1}, huge_file : BOOLEAN, large : BOOLEAN]
    /\ inode = NewInode
    /\ want = [mode |-> 0, uid |-> 0, size |-> 0, csum |-> 0, blocks |-> 0, acl |-> 0, dev |-> 0]

Set(f, v) ==
    /\ want' = [want EXCEPT ![f] = v] /\ UNCHANGED sb
    /\ Cardinality({g \in DOMAIN want : want[g] /= 0} \cup {f}) <= MaxFields
\* The other kind of device number takes precedence.
Hidden(v) == IF v >= W THEN inode.blocks[1] /= 0 ELSE v = 0 /\ inode.blocks[2] /= 0
NextFields ==
    \E v \in Values :
       \/ v < W * W /\ ext4_inode_set_mode(v) /\ Set("mode", v)
       \/ v < W * W /\ ext4_inode_set_uid(v) /\ Set("uid", v)
       \/ ext4_inode_set_size(v) /\ Set("size", v)
       \/ v < W * W /\ ext4_inode_set_csum(v) /\ Set("csum", v)
       \/ /\ ext4_inode_set_blocks_count(v)
          /\ IF v >= W * W /\ ~sb.huge_file THEN UNCHANGED <<want, sb>> ELSE Set("blocks", v)
       \/ v < W * W * W /\ ext4_inode_set_file_acl(v) /\ Set("acl", v)
       \/ v < W * W /\ ext4_inode_set_dev(v) /\ Set("dev", IF Hidden(v) THEN -1 ELSE v)

SpecFields == InitFields /\ [][NextFields]_fieldVars
-----------------------------------------------------------------------------
(* Whatever is set in whatever order, a field keeps what was last set: no other field's words are touched, and
   no part of an earlier value is left.  What does not fit is lost without notice, and excluded here: the upper
   half of a user number; of a mode, except on a HURD file system; of a size, except of a regular file on a new
   file system; of a checksum in a small inode; of the number of a block of attributes; the sectors that do not
   fill a block in a huge file; and a device number when the other kind was set before it (ext4_mknod on an
   existing device). *)
FieldsKept ==
    /\ sb.os = "HURD" \/ want.mode < W => ext4_inode_get_mode = want.mode
    /\ want.uid < W => ext4_inode_get_uid = want.uid
    /\ (sb.rev_level > 0 /\ is_file) \/ want.size < W * W => ext4_inode_get_size % (W * W) = want.size % (W * W)
    /\ sb.rev_level > 0 /\ is_file => ext4_inode_get_size = want.size
    /\ sb.large \/ want.csum < W => ext4_inode_get_csum = want.csum
    /\ LET n == ext4_inode_get_blocks_count
       IN  IF want.blocks < W * W * W THEN n = want.blocks ELSE n = want.blocks - (want.blocks % Sectors)
    /\ want.acl < W * W => ext4_inode_get_file_acl = want.acl
    /\ want.dev /= -1 => ext4_inode_get_dev = want.dev

-----------------------------------------------------------------------------
layoutVars == <<sb, marked, place>>

SuperBlocks ==
    [groups : Groups, dsc : DscPerBlock, per_block : PerBlock, inodes_per_group : InodesPerGroup,
     sparse : BOOLEAN, meta_bg : BOOLEAN, first_meta_bg : {0, 1}, reserved : {0, 1},
     first_data_block : {0, 1}, short : {0, 2}]

Up(n, k) == (n + k - 1) \div k
RECURSIVE is_power_of(_, _)
is_power_of(a, b) == IF a < b THEN FALSE ELSE a = b \/ (a % b = 0 /\ is_power_of(a \div b, b))

ext4_sb_sparse(g) == g <= 1 \/ (g % 2 = 1 /\ (is_power_of(g, 7) \/ is_power_of(g, 5) \/ is_power_of(g, 3)))
ext4_sb_is_super_in_bg(g) == ~sb.sparse \/ ext4_sb_sparse(g)
One(b) == IF b THEN 1 ELSE 0

ext4_bg_num_gdb_meta(g) ==
    LET first == (g \div sb.dsc) * sb.dsc IN One(g \in {first, first + 1, first + sb.dsc - 1})
ext4_bg_num_gdb_nometa(g) ==
    IF ~ext4_sb_is_super_in_bg(g) THEN 0 ELSE IF sb.meta_bg THEN sb.first_meta_bg ELSE Up(sb.groups, sb.dsc)
ext4_bg_num_gdb(g) ==
    IF ~sb.meta_bg \/ g \div sb.dsc < sb.first_meta_bg THEN ext4_bg_num_gdb_nometa(g) ELSE ext4_bg_num_gdb_meta(g)

\* Mutant: the blocks reserved for more descriptors are not counted.
BitMaxUnreserved(g) == One(ext4_sb_is_super_in_bg(g)) + ext4_bg_num_gdb(g)

\* The leading blocks of a group: the superblock, the descriptors, the reserved ones.
bit_max(g) ==
    IF sb.meta_bg /\ g >= sb.first_meta_bg * sb.dsc THEN One(ext4_sb_is_super_in_bg(g)) + ext4_bg_num_gdb(g)
    ELSE IF ext4_sb_is_super_in_bg(g) THEN 1 + ext4_bg_num_gdb(g) + sb.reserved ELSE 0

ext4_fs_first_bg_block_no(g) == sb.first_data_block + g * blocks_per_group

\* With META_BG the block is sought in the group itself, not in the first of its metagroup.
ext4_fs_get_descriptor_block(g) ==
    IF ~sb.meta_bg \/ g \div sb.dsc < sb.first_meta_bg THEN sb.first_data_block + g \div sb.dsc + 1
    ELSE One(ext4_sb_is_super_in_bg(g)) + ext4_fs_first_bg_block_no(g)

\* A group as mke2fs lays it out: copies of the superblock and of the descriptors, reserved blocks, bitmaps, inodes.
DescriptorCopies(g) ==
    IF sb.meta_bg /\ g \div sb.dsc >= sb.first_meta_bg
    THEN {k \in {1} : g % sb.dsc \in {0, 1, sb.dsc - 1}}
    ELSE {k \in 1 .. (IF sb.meta_bg THEN sb.first_meta_bg ELSE Up(sb.groups, sb.dsc)) : ext4_sb_is_super_in_bg(g)}
ReservedBlocks(g) ==
    {k \in 1 .. sb.reserved : ext4_sb_is_super_in_bg(g) /\ (~sb.meta_bg \/ g < sb.first_meta_bg * sb.dsc)}
BlockBitmap(g) ==
    ext4_fs_first_bg_block_no(g) + One(ext4_sb_is_super_in_bg(g))
        + Cardinality(DescriptorCopies(g)) + Cardinality(ReservedBlocks(g))
InodeTable(g) == BlockBitmap(g) + 2
GroupBlocks(g) == blocks_per_group - (IF g = sb.groups - 1 THEN sb.short ELSE 0)
TableBlocks == Up(sb.inodes_per_group, sb.per_block)

\* The table of a group whose inodes do not fill whole blocks is marked one block short.
ext4_fs_init_block_bitmap(g) ==
    LET bit(b) == b - ext4_fs_first_bg_block_no(g)
    IN  (0 .. bit_max(g) - 1)
        \cup {bit(BlockBitmap(g)), bit(BlockBitmap(g) + 1)}
        \cup {bit(InodeTable(g) + k) : k \in 0 .. sb.inodes_per_group \div sb.per_block - 1}
        \cup (GroupBlocks(g) .. blocks_per_group - 1)

ext4_fs_init_inode_table(g) == InodeTable(g) .. InodeTable(g) + TableBlocks - 1

ext4_fs_get_inode_ref(index) ==
    LET g == (index - 1) \div sb.inodes_per_group
        k == (index - 1) % sb.inodes_per_group
    IN  <<InodeTable(g) + k \div sb.per_block, k % sb.per_block>>

\* The block an empty file is to begin at.
ext4_fs_indirect_find_goal(index) ==
    LET g == (index - 1) \div sb.inodes_per_group
    IN  InodeTable(g) + TableBlocks

Open(g) ==
    /\ g < sb.groups
    /\ marked' = Append(marked, ext4_fs_init_block_bitmap(g))
    /\ place' = Append(place, [i \in g * sb.inodes_per_group + 1 .. (g + 1) * sb.inodes_per_group |->
                                 ext4_fs_get_inode_ref(i)])
    /\ UNCHANGED sb

InitLayout ==
    /\ sb \in SuperBlocks
    /\ sb.first_meta_bg = 1 => sb.meta_bg
    /\ marked = <<>> /\ place = <<>>

NextLayout == Open(Len(marked))

SpecLayout == InitLayout /\ [][NextLayout]_layoutVars
-----------------------------------------------------------------------------
\* Whether the descriptor of a group is where the code looks for it: not so for most groups with META_BG.
Misplaced(g) == sb.meta_bg /\ g \div sb.dsc >= sb.first_meta_bg /\ g % sb.dsc /= 0

(* The bitmap that is made for a group marks the blocks mke2fs put there and no other, if its inodes fill whole
   blocks; the descriptors lie in marked blocks; no two inodes share a place, and all lie in blocks
   that ext4_fs_init_inode_table clears; the goal for an empty file is the first block behind the table. *)
LayoutIsMarked ==
    \A g \in 0 .. Len(marked) - 1 :
        LET first == ext4_fs_first_bg_block_no(g)
            meta == 0 .. InodeTable(g) + TableBlocks - first - 1
        IN  /\ sb.inodes_per_group % sb.per_block = 0 =>
                  marked[g + 1] = meta \cup (GroupBlocks(g) .. blocks_per_group - 1)
            /\ ~Misplaced(g) =>
                  \E h \in 0 .. g :
                     /\ ext4_fs_get_descriptor_block(g) - ext4_fs_first_bg_block_no(h) \in marked[h + 1]
                     /\ ext4_fs_get_descriptor_block(g) < BlockBitmap(h)
            /\ \A i \in DOMAIN place[g + 1] :
                  /\ place[g + 1][i][1] \in ext4_fs_init_inode_table(g)
                  /\ ext4_fs_indirect_find_goal(i) = first + Cardinality(meta)
                  /\ \A h \in 0 .. g : \A j \in DOMAIN place[h + 1] : i /= j => place[g + 1][i] /= place[h + 1][j]
=============================================================================
