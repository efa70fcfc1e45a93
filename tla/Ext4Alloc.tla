------------------------------- MODULE Ext4Alloc -------------------------------
(***************************************************************************)
(* The block allocator (ext4_balloc.c), the inode allocator                *)
(* (ext4_ialloc.c), the bit search below both (ext4_bitmap.c) and the      *)
(* block groups they work on (ext4_fs.c), whose bitmaps are made when a    *)
(* group is first used.  Bytes of bitmaps have BYTE bits and the search    *)
(* near a goal looks NEAR bits around it, where the code has 8 and 64.     *)
(***************************************************************************)
EXTENDS Naturals, FiniteSets, FiniteSetsExt, Functions

CONSTANTS blocks_count, blocks_per_group, first_data_block,
          inodes_count, inodes_per_group,
          BaseMeta,   \* leading blocks of group 0: superblock, descriptors
          Tables,     \* the blocks of bitmaps and inode tables (flex_bg)
          Owners,     \* inodes whose blocks are followed
          BYTE, NEAR

VARIABLES fs,      \* the file system's counters and bitmaps
          owner,   \* auxiliary: block -> the inode that was given it, or 0
          dirs,    \* auxiliary: the inodes in use that are directories
          inodes,  \* auxiliary: the inodes in use
          answer   \* what the last operation returned

allocVars == <<fs, owner, dirs, inodes, answer>>

\* x rounded up to a multiple of n.
RoundUp(x, n) == ((x + n - 1) \div n) * n
ext4_block_group_cnt == RoundUp(blocks_count, blocks_per_group) \div blocks_per_group
Groups == 0 .. ext4_block_group_cnt - 1
Blocks == first_data_block .. blocks_count - 1

InGroup(total, per, g) ==
    IF g < ext4_block_group_cnt - 1 THEN per ELSE total - (ext4_block_group_cnt - 1) * per
ext4_blocks_in_group_cnt(g) == InGroup(blocks_count, blocks_per_group, g)
ext4_inodes_in_group_cnt(g) == InGroup(inodes_count, inodes_per_group, g)

Relative(baddr) == IF first_data_block > 0 /\ baddr > 0 THEN baddr - 1 ELSE baddr
ext4_balloc_get_bgid_of_block(baddr) == Relative(baddr) \div blocks_per_group
ext4_fs_addr_to_idx_bg(baddr) == Relative(baddr) % blocks_per_group
ext4_balloc_get_block_of_bgid(g) ==
    (IF first_data_block > 0 THEN 1 ELSE 0) + g * blocks_per_group
ext4_fs_bg_idx_to_addr(i, g) == ext4_balloc_get_block_of_bgid(g) + i

-----------------------------------------------------------------------------
(* Bitmaps: the set of the bits that are 1.                                *)

NotFound == blocks_per_group + inodes_per_group

\* The search goes through the bits before the first whole byte one by one, and
\* when it finds one there it returns the bit where it started.
ext4_bmap_bit_find_clr(bits, sbit, ebit) ==
    LET aligned == RoundUp(sbit, BYTE)
        clear(a, b) == {i \in a .. b - 1 : i < ebit /\ i \notin bits}
    IN  IF clear(sbit, aligned) /= {} THEN sbit
        ELSE IF clear(aligned, ebit) /= {} THEN Min(clear(aligned, ebit))
        ELSE NotFound

\* Bits of a group that do not stand for blocks that can be allocated.
MetaBits(g) ==
    {ext4_fs_addr_to_idx_bg(b) : b \in {t \in Tables : ext4_balloc_get_bgid_of_block(t) = g}}
        \cup (IF g = 0 THEN 0 .. BaseMeta - 1 ELSE {})

\* ext4_fs_init_block_bitmap sets the bits behind the last group too, and counts
\* its blocks with first_data_block, unlike ext4_blocks_in_group_cnt.
GroupBlocks(g) ==
    IF g = ext4_block_group_cnt - 1
    THEN blocks_count - first_data_block - blocks_per_group * (ext4_block_group_cnt - 1)
    ELSE blocks_per_group

ext4_fs_mark_bitmap_end(from) == from .. blocks_per_group - 1

ext4_fs_init_block_bitmap(s, g) ==
    [s EXCEPT !.bm[g] = MetaBits(g) \cup ext4_fs_mark_bitmap_end(GroupBlocks(g))]
ext4_fs_init_inode_bitmap(s, g) == [s EXCEPT !.im[g] = {}]

ext4_fs_get_block_group_ref(s, g) ==
    IF g \notin s.uninit THEN s
    ELSE [ext4_fs_init_inode_bitmap(ext4_fs_init_block_bitmap(s, g), g)
             EXCEPT !.uninit = @ \ {g}]

-----------------------------------------------------------------------------
(* Blocks.                                                                 *)

\* Take bit i of group g for inode ino.
TakeBlock(s, ino, g, i) ==
    [s EXCEPT !.bm[g] = @ \cup {i}, !.bg_free[g] = @ - 1, !.sb_free = @ - 1,
              !.ino_blocks[ino] = @ + 1]

\* The free bit the goal's group offers: the goal, one near it, one behind it.
NearEnd(idx, g) ==
    IF RoundUp(idx, NEAR) > ext4_blocks_in_group_cnt(g) THEN ext4_blocks_in_group_cnt(g)
                                                        ELSE RoundUp(idx, NEAR)
InGoalGroup(s, g, idx) ==
    LET near == {i \in idx + 1 .. NearEnd(idx, g) - 1 : i \notin s.bm[g]}
    IN  IF idx \notin s.bm[g] THEN idx
        ELSE IF near /= {} THEN Min(near)
        ELSE ext4_bmap_bit_find_clr(s.bm[g], idx, ext4_blocks_in_group_cnt(g))

\* The groups after the goal's, once round.
RECURSIVE OtherGroups(_, _, _)
OtherGroups(s0, g, count) ==
    LET s == ext4_fs_get_block_group_ref(s0, g)
        i == ext4_bmap_bit_find_clr(s.bm[g], 0, ext4_blocks_in_group_cnt(g))
    IN  IF count = 0 THEN [s |-> s0, g |-> g, bit |-> NotFound]
        ELSE IF s.bg_free[g] > 0 /\ i /= NotFound THEN [s |-> s, g |-> g, bit |-> i]
        ELSE OtherGroups(s, (g + 1) % ext4_block_group_cnt, count - 1)

Taken(found, ino) ==
    IF found.bit = NotFound THEN [s |-> found.s, addr |-> 0]
    ELSE [s |-> TakeBlock(found.s, ino, found.g, found.bit),
          addr |-> ext4_fs_bg_idx_to_addr(found.bit, found.g)]

\* A goal behind the last group has an empty descriptor: no free blocks.
ext4_balloc_alloc_block(s0, ino, goal) ==
    LET g == ext4_balloc_get_bgid_of_block(goal)
        s == IF g \in Groups THEN ext4_fs_get_block_group_ref(s0, g) ELSE s0
        i == InGoalGroup(s, g, ext4_fs_addr_to_idx_bg(goal))
        here == g \in Groups /\ s.bg_free[g] > 0 /\ i /= NotFound
    IN  Taken(IF here THEN [s |-> s, g |-> g, bit |-> i]
              ELSE OtherGroups(s, (g + 1) % ext4_block_group_cnt, ext4_block_group_cnt), ino)

ext4_balloc_try_alloc_block(s0, ino, baddr) ==
    LET g == ext4_balloc_get_bgid_of_block(baddr)
        i == ext4_fs_addr_to_idx_bg(baddr)
        s == ext4_fs_get_block_group_ref(s0, g)
    IN  IF i \in s.bm[g] THEN [s |-> s, addr |-> 0]
        ELSE [s |-> TakeBlock(s, ino, g, i), addr |-> baddr]

ext4_balloc_free_block(s0, ino, baddr) ==
    LET g == ext4_balloc_get_bgid_of_block(baddr)
        s == ext4_fs_get_block_group_ref(s0, g)
    IN  [s EXCEPT !.bm[g] = @ \ {ext4_fs_addr_to_idx_bg(baddr)}, !.bg_free[g] = @ + 1,
                  !.sb_free = @ + 1, !.ino_blocks[ino] = @ - 1]

\* Mutant: the run of blocks is taken to lie in one group.
FreeBlocksOneGroup(s0, ino, first, count) ==
    LET g == ext4_balloc_get_bgid_of_block(first)
        s == ext4_fs_get_block_group_ref(s0, g)
        i == ext4_fs_addr_to_idx_bg(first)
    IN  [s EXCEPT !.bm[g] = @ \ (i .. i + count - 1), !.bg_free[g] = @ + count,
                  !.sb_free = @ + count, !.ino_blocks[ino] = @ - count]

\* Free count blocks from first on, group by group.
RECURSIVE ext4_balloc_free_blocks(_, _, _, _)
ext4_balloc_free_blocks(s0, ino, first, count) ==
    LET g == ext4_balloc_get_bgid_of_block(first)
        s == ext4_fs_get_block_group_ref(s0, g)
        i == ext4_fs_addr_to_idx_bg(first)
        n == IF count > blocks_per_group - i THEN blocks_per_group - i ELSE count
        s1 == [s EXCEPT !.bm[g] = @ \ (i .. i + n - 1), !.bg_free[g] = @ + n,
                        !.sb_free = @ + n, !.ino_blocks[ino] = @ - n]
    IN  IF count = 0 THEN s0 ELSE ext4_balloc_free_blocks(s1, ino, first + n, count - n)

-----------------------------------------------------------------------------
(* Inodes.                                                                 *)

\* The groups are searched from that of the last inode on, once round.
RECURSIVE InodeGroup(_, _, _, _)
InodeGroup(s0, g, count, rewind) ==
    LET s == ext4_fs_get_block_group_ref(s0, g)
    IN  IF g = count
        THEN IF rewind THEN [s |-> s0, g |-> count]
                       ELSE InodeGroup(s0, 0, s0.last_inode_bg_id, TRUE)
        ELSE IF s.bg_ifree[g] > 0 THEN [s |-> s, g |-> g]
        ELSE InodeGroup(s, g + 1, count, rewind)

\* The inodes at the end of a group's table that were never used, after inode i.
Unused(cnt, i, unused) == IF i >= cnt - unused THEN cnt - (i + 1) ELSE unused

AllocInGroup(found, is_dir) ==
    LET g == found.g
        s == found.s
        cnt == ext4_inodes_in_group_cnt(g)
        i == ext4_bmap_bit_find_clr(s.im[g], 0, cnt)
    IN  IF g \notin Groups \/ s.bg_ifree[g] = 0 THEN [s |-> s, ino |-> 0]
        ELSE [s |-> [s EXCEPT !.im[g] = @ \cup {i}, !.bg_ifree[g] = @ - 1,
                              !.bg_dirs[g] = IF is_dir THEN @ + 1 ELSE @,
                              !.itable_unused[g] = Unused(cnt, i, @),
                              !.sb_ifree = @ - 1, !.last_inode_bg_id = g],
              ino |-> g * inodes_per_group + i + 1]

ext4_ialloc_alloc_inode(s0, is_dir) ==
    AllocInGroup(InodeGroup(s0, s0.last_inode_bg_id, ext4_block_group_cnt, FALSE), is_dir)

ext4_ialloc_free_inode(s0, ino, is_dir) ==
    LET g == (ino - 1) \div inodes_per_group
        s == ext4_fs_get_block_group_ref(s0, g)
    IN  [s EXCEPT !.im[g] = @ \ {(ino - 1) % inodes_per_group}, !.bg_ifree[g] = @ + 1,
                  !.bg_dirs[g] = IF is_dir THEN @ - 1 ELSE @, !.sb_ifree = @ + 1]

-----------------------------------------------------------------------------
FreeAtFirst(g) == GroupBlocks(g) - Cardinality(MetaBits(g))

InitAlloc ==
    /\ fs = [bm |-> [g \in Groups |-> {}], im |-> [g \in Groups |-> {}], uninit |-> Groups,
             bg_free |-> [g \in Groups |-> FreeAtFirst(g)],
             sb_free |-> FoldFunction(+, 0, [g \in Groups |-> FreeAtFirst(g)]),
             ino_blocks |-> [o \in Owners |-> 0],
             bg_ifree |-> [g \in Groups |-> ext4_inodes_in_group_cnt(g)],
             bg_dirs |-> [g \in Groups |-> 0],
             itable_unused |-> [g \in Groups |-> ext4_inodes_in_group_cnt(g)],
             sb_ifree |-> inodes_count, last_inode_bg_id |-> 0]
    /\ owner = [b \in Blocks |-> 0]
    /\ dirs = {}
    /\ inodes = {}
    /\ answer = "none"

Used == {b \in Blocks : owner[b] /= 0}
Reserved == {b \in Blocks : ext4_fs_addr_to_idx_bg(b) \in
                                MetaBits(ext4_balloc_get_bgid_of_block(b))}
Free == Blocks \ (Used \cup Reserved)

Gives(r, ino, failure) ==
    /\ fs' = r.s
    /\ owner' = [b \in Blocks |-> IF b = r.addr /\ b > 0 THEN ino ELSE owner[b]]
    /\ answer' = IF r.addr = 0 THEN failure ELSE IF r.addr \in Free THEN "block" ELSE "taken"
    /\ UNCHANGED <<dirs, inodes>>

AllocBlock(ino, goal) == Gives(ext4_balloc_alloc_block(fs, ino, goal), ino, "ENOSPC")

TryAllocBlock(ino, b) == Gives(ext4_balloc_try_alloc_block(fs, ino, b), ino, "not free")

FreeBlock(ino, b) ==
    /\ owner[b] = ino
    /\ fs' = ext4_balloc_free_block(fs, ino, b)
    /\ owner' = [owner EXCEPT ![b] = 0]
    /\ answer' = "none"
    /\ UNCHANGED <<dirs, inodes>>

FreeBlocks(ino, b, n) ==
    /\ b + n <= blocks_count /\ \A k \in b .. b + n - 1 : owner[k] = ino
    /\ fs' = ext4_balloc_free_blocks(fs, ino, b, n)
    /\ owner' = [k \in Blocks |-> IF k \in b .. b + n - 1 THEN 0 ELSE owner[k]]
    /\ answer' = "none"
    /\ UNCHANGED <<dirs, inodes>>

AllocInode(is_dir) ==
    \E r \in {ext4_ialloc_alloc_inode(fs, is_dir)} :
        /\ fs' = r.s
        /\ answer' = IF r.ino = 0 THEN "no inode"
                     ELSE IF r.ino \in inodes THEN "taken" ELSE "inode"
        /\ inodes' = inodes \cup ({r.ino} \ {0})
        /\ dirs' = IF is_dir THEN dirs \cup ({r.ino} \ {0}) ELSE dirs
        /\ UNCHANGED owner

FreeInode(ino) ==
    /\ ino \in inodes
    /\ fs' = ext4_ialloc_free_inode(fs, ino, ino \in dirs)
    /\ inodes' = inodes \ {ino}
    /\ dirs' = dirs \ {ino}
    /\ answer' = "none"
    /\ UNCHANGED owner

NextAlloc ==
    \/ \E ino \in Owners, goal \in Blocks \cup {blocks_count} : AllocBlock(ino, goal)
    \/ \E ino \in Owners, b \in Blocks : TryAllocBlock(ino, b) \/ FreeBlock(ino, b)
    \/ \E ino \in Owners, b \in Blocks, n \in 2 .. blocks_per_group : FreeBlocks(ino, b, n)
    \/ \E is_dir \in BOOLEAN : AllocInode(is_dir)
    \/ \E ino \in 1 .. inodes_count : FreeInode(ino)

SpecAlloc == InitAlloc /\ [][NextAlloc]_allocVars
-----------------------------------------------------------------------------
OwnedBy(ino) == {b \in Blocks : owner[b] = ino}

\* No allocation returns a block or an inode that is in use, a block that holds
\* metadata, or one behind the end of the device: the search near the goal, the
\* bits set behind the last group and the search for a clear bit fit together.
BlockGivenOnce == answer /= "taken"

\* The free counts of the superblock and of the groups, the blocks of an inode and
\* the directories of a group say what the bitmaps say, also for runs of blocks
\* that cross groups and for groups whose bitmaps did not exist before.
CountersAgree ==
    /\ fs.sb_free = Cardinality(Free)
    /\ \A g \in Groups :
          fs.bg_free[g] = Cardinality({b \in Free : ext4_balloc_get_bgid_of_block(b) = g})
    /\ \A ino \in Owners : fs.ino_blocks[ino] = Cardinality(OwnedBy(ino))
    /\ fs.sb_ifree = inodes_count - Cardinality(inodes)
    /\ \A g \in Groups : fs.bg_dirs[g] =
          Cardinality({d \in dirs : (d - 1) \div inodes_per_group = g})

\* ENOSPC is returned only when no block, or no inode, is free anywhere.
FullMeansFull ==
    /\ answer = "ENOSPC" => Free = {}
    /\ answer = "no inode" => inodes = 1 .. inodes_count

\* itable_unused never counts an inode that is in use.
UnusedIsUnused ==
    \A ino \in inodes :
        LET g == (ino - 1) \div inodes_per_group
        IN  (ino - 1) % inodes_per_group <
                ext4_inodes_in_group_cnt(g) - fs.itable_unused[g]
=============================================================================
