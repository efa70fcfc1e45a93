------------------------------- MODULE Ext4Mkfs -------------------------------
(***************************************************************************)
(* Making an ext file system (ext4_mkfs.c) and opening it (ext4_fs_init,   *)
(* ext4_super.c): which block holds what, one step for each group or       *)
(* structure written.  Any step may fail, and formatting ends there.       *)
(***************************************************************************)
EXTENDS Integers, Sequences, FiniteSets, FiniteSetsExt, Functions

CONSTANTS Lengths,           \* blocks of the devices
          blocks_per_group,
          dsc_per_block,     \* group descriptors in a block
          inodes_per_block,
          Inodes,            \* the numbers of inodes asked for
          JournalBlocks      \* the numbers of blocks of a journal, 0: none

VARIABLES info,   \* what was asked for: [len, first_data_block, inodes, journal]
          aux,    \* struct fs_aux_info
          disk,   \* block -> what was written there last
          sb,     \* the primary superblock on the disk, <<>> if there is none
          used,   \* bits of the block bitmaps, by block number
          ninodes,\* inodes allocated
          pc, result
mkfsVars == <<info, aux, disk, sb, used, ninodes, pc, result>>

DivUp(a, b) == (a + b - 1) \div b
RECURSIVE IsPowerOf(_, _)
IsPowerOf(a, b) == a = b \/ (a > b /\ a % b = 0 /\ IsPowerOf(a \div b, b))
ext4_sb_sparse(g) == g <= 1 \/ (g % 2 = 1 /\ (IsPowerOf(g, 7) \/ IsPowerOf(g, 5) \/ IsPowerOf(g, 3)))
has_superblock(g) == ext4_sb_sparse(g)
Super(g) == IF has_superblock(g) THEN 1 ELSE 0

compute_inodes_per_group(i) ==
    DivUp(DivUp(i.inodes, DivUp(i.len, blocks_per_group)), inodes_per_block) * inodes_per_block

\* A last group that is too small for its tables is left out.
CutLast(a, size, header) ==
    IF size > 0 /\ size < header
    THEN [a EXCEPT !.groups = @ - 1, !.len_blocks = @ - size] ELSE a
WithDesc(a) ==
    CutLast(a, a.len_blocks % blocks_per_group,
            2 + a.inode_table_blocks + (IF has_superblock(a.groups - 1) THEN 1 + a.bg_desc_blocks ELSE 0))
create_fs_aux_info(i) ==
    LET groups == DivUp(i.len - i.first_data_block, blocks_per_group)
    IN  WithDesc([first_data_block |-> i.first_data_block, len_blocks |-> i.len, groups |-> groups,
                  inodes_per_group |-> compute_inodes_per_group(i),
                  inode_table_blocks |-> DivUp(compute_inodes_per_group(i), inodes_per_block),
                  bg_desc_blocks |-> DivUp(groups, dsc_per_block)])


\* Where the bitmaps and the inode table of group g are counted from.  The first
\* data block is added twice, and every group leaves room for the descriptors.
BgStart(a, g) == 2 * a.first_data_block + g * blocks_per_group + Super(g) + a.bg_desc_blocks
BlockBitmap(a, g) == BgStart(a, g) + 1
InodeBitmap(a, g) == BgStart(a, g) + 2
InodeTable(a, g) == BgStart(a, g) + 3 .. BgStart(a, g) + 2 + a.inode_table_blocks

\* A block of descriptors goes to every group, whether it has a superblock or not.
write_bgroup_block(a, k) ==
    {a.first_data_block + g * blocks_per_group + Super(g) + k : g \in 0 .. a.groups - 1}

BgFree(a, g) ==
    blocks_per_group - a.inode_table_blocks - 2
        - (IF g = a.groups - 1 THEN a.first_data_block ELSE 0)
        - (IF has_superblock(g) THEN 1 + a.bg_desc_blocks ELSE 0)

fill_sb(a) ==
    [inodes_count |-> a.inodes_per_group * a.groups, blocks_count |-> a.len_blocks,
     free_blocks |-> FoldFunction(+, 0, [g \in 0 .. a.groups - 1 |-> BgFree(a, g)]),
     first_data_block |-> a.first_data_block, inodes_per_group |-> a.inodes_per_group,
     state |-> "VALID_FS"]

\* The functions of ext4_super.c on a superblock.
ext4_block_group_cnt(s) == DivUp(s.blocks_count, blocks_per_group)
ext4_inodes_in_group_cnt(s, g) ==
    IF g < ext4_block_group_cnt(s) - 1 THEN s.inodes_per_group
    ELSE s.inodes_count - (ext4_block_group_cnt(s) - 1) * s.inodes_per_group
ext4_sb_check(s) == s.inodes_count > 0 /\ s.blocks_count > 0 /\ s.inodes_per_group > 0
ext4_bg_num_gdb(s, g) == IF has_superblock(g) THEN DivUp(ext4_block_group_cnt(s), dsc_per_block) ELSE 0
ext4_fs_get_descriptor_block(s, g) == s.first_data_block + g \div dsc_per_block + 1
GroupFirst(s, g) == s.first_data_block + g * blocks_per_group
GroupBlocks(s, g) ==
    GroupFirst(s, g) .. (IF g = ext4_block_group_cnt(s) - 1 THEN s.blocks_count - 1
                         ELSE GroupFirst(s, g + 1) - 1)
-----------------------------------------------------------------------------
Written(tags) == [b \in DOMAIN disk \cup DOMAIN tags |-> IF b \in DOMAIN tags THEN tags[b] ELSE disk[b]]
Tag(bs, x) == [b \in bs |-> x]

InitMkfs ==
    /\ info \in {i \in [len : Lengths, first_data_block : {0, 1}, inodes : Inodes, journal : JournalBlocks] :
                   i.len > blocks_per_group \div 2}
    /\ aux = create_fs_aux_info(info)
    /\ disk = <<>> /\ sb = <<>> /\ used = {} /\ ninodes = 0 /\ pc = <<"bgroups", 0>> /\ result = "EOK"

\* write_bgroups for group g, and the blocks of descriptors that are complete.
WriteGroup(g) ==
    /\ pc = <<"bgroups", g>>
    /\ IF g < aux.groups
       THEN /\ disk' = Written([b \in {BlockBitmap(aux, g), InodeBitmap(aux, g)} \cup
                                      (IF (g + 1) % dsc_per_block = 0
                                       THEN write_bgroup_block(aux, g \div dsc_per_block) ELSE {})
                                  |-> IF b = BlockBitmap(aux, g) THEN <<"bbmap", g>>
                                      ELSE IF b = InodeBitmap(aux, g) THEN <<"ibmap", g>>
                                      ELSE <<"desc", g \div dsc_per_block>>])
            /\ pc' = <<"bgroups", g + 1>>
       ELSE /\ disk' = Written(Tag(write_bgroup_block(aux, g \div dsc_per_block),
                                   <<"desc", g \div dsc_per_block>>))
            /\ pc' = <<"sblocks", 0>>
    /\ UNCHANGED <<info, aux, sb, used, ninodes, result>>

\* The backups, then the superblock itself.
write_sblocks ==
    /\ pc = <<"sblocks", 0>>
    /\ disk' = Written([b \in {GroupFirst(aux, g) : g \in {h \in 0 .. aux.groups - 1 : has_superblock(h)}}
                           \cup {aux.first_data_block} |-> <<"sb", 0>>])
    /\ sb' = fill_sb(aux)
    /\ pc' = <<"fs_init", 0>>
    /\ UNCHANGED <<info, aux, used, ninodes, result>>

ext4_fs_init ==
    /\ pc = <<"fs_init", 0>>
    /\ IF ext4_sb_check(sb) THEN sb' = [sb EXCEPT !.state = "ERROR_FS"] /\ pc' = <<"init_bgs", 0>> /\ UNCHANGED result
       ELSE result' = "ENOTSUP" /\ pc' = <<"done", 0>> /\ UNCHANGED sb
    /\ UNCHANGED <<info, aux, disk, used, ninodes>>

\* A reference to a group sets up its bitmaps and clears its inode table.  A group that got no
\* descriptor has no flag that asks for it.
InitialBits(g) ==
    (IF has_superblock(g) THEN GroupFirst(sb, g) .. GroupFirst(sb, g) + ext4_bg_num_gdb(sb, g) ELSE {})
        \cup {BlockBitmap(aux, g), InodeBitmap(aux, g)} \cup InodeTable(aux, g)
init_bgs(g) ==
    /\ pc = <<"init_bgs", g>>
    /\ IF g < aux.groups
       THEN /\ used' = used \cup InitialBits(g)
            /\ disk' = Written([b \in {BlockBitmap(aux, g), InodeBitmap(aux, g)} \cup InodeTable(aux, g) |->
                                  IF b = BlockBitmap(aux, g) THEN <<"bbmap", g>>
                                  ELSE IF b = InodeBitmap(aux, g) THEN <<"ibmap", g>> ELSE <<"itab", g>>])
       ELSE UNCHANGED <<used, disk>>
    /\ pc' = IF g + 1 < ext4_block_group_cnt(sb) THEN <<"init_bgs", g + 1>> ELSE <<"alloc_inodes", 0>>
    /\ UNCHANGED <<info, aux, sb, ninodes, result>>

\* ext4_fs_fini, which marks the file system valid whatever happened.
Fini(r) == result' = r /\ pc' = <<"done", 0>> /\ sb' = [sb EXCEPT !.state = "VALID_FS"]

alloc_inodes ==
    /\ pc = <<"alloc_inodes", 0>>
    /\ IF sb.inodes_count < 11 THEN Fini("ENOSPC") /\ UNCHANGED ninodes
       ELSE ninodes' = 11 /\ pc' = <<"create_dirs", 0>> /\ UNCHANGED <<sb, result>>
    /\ UNCHANGED <<info, aux, disk, used>>

FreeBlocks == (UNION {GroupBlocks(sb, g) : g \in 0 .. aux.groups - 1}) \ used
\* n blocks for directories or the journal (its indirect blocks included).
Take(n, what, next) ==
    LET got == {b \in FreeBlocks : Cardinality({c \in FreeBlocks : c < b}) < n}
    IN  /\ used' = used \cup got
        /\ disk' = Written(Tag(got, what))
        /\ IF Cardinality(got) < n THEN Fini("ENOSPC")
           ELSE IF next = "done" THEN result' = result /\ pc' = <<"done", 0>>
                                      /\ sb' = [sb EXCEPT !.state = "VALID_FS", !.free_blocks = @ - n]
           ELSE sb' = [sb EXCEPT !.free_blocks = @ - n] /\ pc' = <<next, 0>> /\ UNCHANGED result
        /\ UNCHANGED <<info, aux, ninodes>>
create_dirs == pc = <<"create_dirs", 0>> /\ Take(2, <<"dirs", 0>>, "create_journal_inode")
create_journal_inode == pc = <<"create_journal_inode", 0>> /\ Take(info.journal, <<"journal", 0>>, "done")

\* An error of the device.
IoError ==
    /\ pc[1] /= "done"
    /\ IF pc[1] \in {"bgroups", "sblocks", "fs_init"}
       THEN result' = "EIO" /\ pc' = <<"done", 0>> /\ UNCHANGED sb ELSE Fini("EIO")
    /\ UNCHANGED <<info, aux, disk, used, ninodes>>

NextMkfs ==
    \/ \E g \in 0 .. aux.groups : WriteGroup(g) \/ init_bgs(g)
    \/ write_sblocks \/ ext4_fs_init \/ alloc_inodes \/ create_dirs \/ create_journal_inode \/ IoError

SpecMkfs == InitMkfs /\ [][NextMkfs]_mkfsVars
-----------------------------------------------------------------------------
\* Devices whose last group fits the superblock's arithmetic badly: with a first data
\* block of 1 and one block left over, a group less is made than the file
\* system will be taken to have; and a short last group is kept whose inode table
\* does not fit, because its header is counted too small.
LastSize == info.len % blocks_per_group
LastHeader ==
    2 + aux.inode_table_blocks + (IF has_superblock(info.len \div blocks_per_group) THEN 1 + aux.bg_desc_blocks ELSE 0)
Misfit ==
    \/ info.first_data_block = 1 /\ LastSize = 1
    \/ LastSize \in LastHeader .. LastHeader + 2 * info.first_data_block
                     + (IF has_superblock(info.len \div blocks_per_group) THEN 0 ELSE aux.bg_desc_blocks)

\* The blocks of the last group that are counted as free but do not exist, less those counted
\* for the descriptors of a group that was then left out.
Overcount ==
    aux.groups * blocks_per_group - aux.len_blocks
        - Cardinality({g \in 0 .. aux.groups - 1 : has_superblock(g)})
              * (aux.bg_desc_blocks - DivUp(aux.groups, dsc_per_block))

=============================================================================
