------------------------------- MODULE Ext4Inode -------------------------------
(***************************************************************************)
(* The block map of an inode without extents (ext4_fs.c): direct blocks    *)
(* and three levels of indirect blocks.  One file is appended to,          *)
(* truncated and deleted on a device with a given number of free blocks.    *)
(***************************************************************************)
EXTENDS Naturals, Sequences, FiniteSets, FiniteSetsExt, Functions

CONSTANTS DIRECT,      \* EXT4_INODE_DIRECT_BLOCK_COUNT
          PerBlock,    \* block numbers in an indirect block
          block_size,
          Pools,       \* the numbers of free blocks a device may have
          MaxBlocks    \* bound on the file

VARIABLES ino,     \* the inode: size, direct, indirect
          ptrs,    \* the content of the indirect blocks
          used,    \* the blocks the allocator has given away
          device,  \* the blocks that were free at first
          file,    \* auxiliary: the data blocks the file was given, in order
          result

inodeVars == <<ino, ptrs, used, device, file, result>>

BlocksFor(bytes) == (bytes + block_size - 1) \div block_size

blocks_per_level(i) == PerBlock ^ i
RECURSIVE block_limits(_)
block_limits(i) == IF i = 0 THEN DIRECT ELSE block_limits(i - 1) + blocks_per_level(i)

\* The indirection level of a block: 0 when the file cannot have that many.
Level(iblock) ==
    LET ls == {l \in 1 .. 3 : iblock < block_limits(l)} IN IF ls = {} THEN 0 ELSE Min(ls)

\* The places of a block's number in the indirect blocks, from the topmost one.
RECURSIVE Offsets(_, _)
Offsets(off, l) ==
    IF l = 0 THEN <<>>
    ELSE <<off \div blocks_per_level(l - 1)>> \o Offsets(off % blocks_per_level(l - 1), l - 1)

Path(iblock) == Offsets(iblock - block_limits(Level(iblock) - 1), Level(iblock))

\* The operators below work on s = [ino, ptrs, used, r]; r is "EOK" or an error.
State == [ino |-> ino, ptrs |-> ptrs, used |-> used, r |-> "EOK"]
Fail(s, e) == [s EXCEPT !.r = e]
ext4_balloc_alloc_block(s) ==
    LET free == device \ s.used
    IN  IF free = {} THEN [s |-> Fail(s, "ENOSPC"), blk |-> 0]
        ELSE [s |-> [s EXCEPT !.used = @ \cup {Min(free)}], blk |-> Min(free)]
NoPointers == [k \in 0 .. PerBlock - 1 |-> 0]
\* What a free block holds does not matter: an indirect block is cleared when it
\* is allocated.
ext4_balloc_free_block(s, b) ==
    IF b \in s.used THEN [s EXCEPT !.used = @ \ {b}, !.ptrs[b] = NoPointers]
                    ELSE Fail(s, "double free")

RECURSIVE Follow(_, _, _)
Follow(s, blk, path) ==
    IF path = <<>> \/ blk = 0 THEN blk ELSE Follow(s, s.ptrs[blk][Head(path)], Tail(path))

ext4_fs_get_inode_dblk_idx(s, iblock) ==
    IF s.ino.size = 0 THEN 0
    ELSE IF iblock < DIRECT THEN s.ino.direct[iblock]
    ELSE IF Level(iblock) = 0 THEN 0
    ELSE Follow(s, s.ino.indirect[Level(iblock)], Path(iblock))

\* Write fblock at the end of the path below the indirect block blk; indirect
\* blocks that are missing on the way are allocated.
RECURSIVE SetBelow(_, _, _, _)
SetBelow(s, blk, path, fblock) ==
    IF Len(path) = 1 THEN [s EXCEPT !.ptrs[blk][path[1]] = fblock]
    ELSE LET next == s.ptrs[blk][path[1]]
             a == ext4_balloc_alloc_block(s)
             s1 == [a.s EXCEPT !.ptrs[a.blk] = NoPointers, !.ptrs[blk][path[1]] = a.blk]
         IN  IF next /= 0 THEN SetBelow(s, next, Tail(path), fblock)
             ELSE IF a.blk = 0 THEN a.s
             ELSE SetBelow(s1, a.blk, Tail(path), fblock)

ext4_fs_set_inode_data_block_index(s, iblock, fblock) ==
    LET l == Level(iblock)
        a == ext4_balloc_alloc_block(s)
        s1 == [a.s EXCEPT !.ino.indirect[l] = a.blk, !.ptrs[a.blk] = NoPointers]
    IN  IF iblock < DIRECT THEN [s EXCEPT !.ino.direct[iblock] = fblock]
        ELSE IF l = 0 THEN Fail(s, "EIO")
        ELSE IF s.ino.indirect[l] /= 0
        THEN SetBelow(s, s.ino.indirect[l], Path(iblock), fblock)
        ELSE IF a.blk = 0 THEN a.s ELSE SetBelow(s1, a.blk, Path(iblock), fblock)

\* Mutant: the data block is kept when it cannot be entered in the map.
AppendKeepsBlock(s) ==
    LET n == BlocksFor(s.ino.size)
        a == ext4_balloc_alloc_block(s)
        s1 == ext4_fs_set_inode_data_block_index(a.s, n, a.blk)
    IN  IF a.blk = 0 THEN [s |-> a.s, blk |-> 0]
        ELSE IF s1.r /= "EOK" THEN [s |-> s1, blk |-> 0]
        ELSE [s |-> [s1 EXCEPT !.ino.size = (n + 1) * block_size], blk |-> a.blk]

ext4_fs_append_inode_dblk(s) ==
    LET n == BlocksFor(s.ino.size)
        a == ext4_balloc_alloc_block(s)
        s1 == ext4_fs_set_inode_data_block_index(a.s, n, a.blk)
    IN  IF a.blk = 0 THEN [s |-> a.s, blk |-> 0]
        ELSE IF s1.r /= "EOK" THEN [s |-> ext4_balloc_free_block(s1, a.blk), blk |-> 0]
        ELSE [s |-> [s1 EXCEPT !.ino.size = (n + 1) * block_size], blk |-> a.blk]

\* The pointer to the last indirect block on the path to iblock, cleared.
RECURSIVE ClearBelow(_, _, _)
ClearBelow(s, blk, path) ==
    IF blk = 0 THEN s
    ELSE IF Len(path) = 1 THEN [s EXCEPT !.ptrs[blk][path[1]] = 0]
    ELSE ClearBelow(s, s.ptrs[blk][path[1]], Tail(path))

ext4_fs_release_inode_block(s, iblock) ==
    LET l == Level(iblock)
        b == IF iblock < DIRECT THEN s.ino.direct[iblock]
             ELSE Follow(s, s.ino.indirect[l], Path(iblock))
        s1 == IF iblock < DIRECT THEN [s EXCEPT !.ino.direct[iblock] = 0]
              ELSE ClearBelow(s, s.ino.indirect[l], Path(iblock))
    IN  IF b = 0 THEN s1 ELSE ext4_balloc_free_block(s1, b)

RECURSIVE ReleaseFrom(_, _, _)
ReleaseFrom(s, iblock, n) ==
    IF n = 0 \/ s.r /= "EOK" THEN s
    ELSE ReleaseFrom(ext4_fs_release_inode_block(s, iblock), iblock + 1, n - 1)

ext4_fs_truncate_inode(s, new_size) ==
    LET new == BlocksFor(new_size)
        s1 == ReleaseFrom(s, new, BlocksFor(s.ino.size) - new)
    IN  IF s.ino.size = new_size THEN s
        ELSE IF s.ino.size < new_size THEN Fail(s, "EINVAL")
        ELSE IF s1.r /= "EOK" THEN s1 ELSE [s1 EXCEPT !.ino.size = new_size]

\* The indirect blocks of the tree of height h below blk, blk included.
RECURSIVE FreeTree(_, _, _, _)
FreeTree(s, blk, h, k) ==
    IF h = 1 \/ k = PerBlock THEN ext4_balloc_free_block(s, blk)
    ELSE LET sub == s.ptrs[blk][k]
         IN  FreeTree(IF sub = 0 THEN s ELSE FreeTree(s, sub, h - 1, 0), blk, h, k + 1)

RECURSIVE ext4_fs_free_inode(_, _)
ext4_fs_free_inode(s, l) ==
    IF l > 3 THEN s
    ELSE ext4_fs_free_inode(IF s.ino.indirect[l] = 0 THEN s
                            ELSE [FreeTree(s, s.ino.indirect[l], l, 0)
                                     EXCEPT !.ino.indirect[l] = 0], l + 1)

-----------------------------------------------------------------------------
EmptyInode == [size |-> 0, direct |-> [i \in 0 .. DIRECT - 1 |-> 0],
               indirect |-> [l \in 1 .. 3 |-> 0]]

InitInode ==
    /\ ino = EmptyInode
    /\ \E n \in Pools : device = 1 .. n
    /\ ptrs = [b \in device |-> NoPointers]
    /\ used = {}
    /\ file = <<>>
    /\ result = "EOK"

Becomes(s) == ino' = s.ino /\ ptrs' = s.ptrs /\ used' = s.used /\ result' = s.r

AppendBlock ==
    /\ Len(file) < MaxBlocks
    /\ \E a \in {ext4_fs_append_inode_dblk(State)} :
          /\ Becomes(a.s)
          /\ file' = IF a.blk = 0 THEN file ELSE Append(file, a.blk)
    /\ UNCHANGED device

Truncate(size) ==
    /\ \E s \in {ext4_fs_truncate_inode(State, size)} : Becomes(s)
    /\ file' = IF size < ino.size THEN SubSeq(file, 1, BlocksFor(size)) ELSE file
    /\ UNCHANGED device

\* ext4_fremove truncates the inode before it frees it.
Delete ==
    /\ used /= {}
    /\ \E s \in {ext4_fs_free_inode(ext4_fs_truncate_inode(State, 0), 1)} : Becomes(s)
    /\ file' = <<>>
    /\ UNCHANGED device

NextInode ==
    \/ AppendBlock \/ Delete
    \/ \E size \in 0 .. ino.size + 1 : Truncate(size)

SpecInode == InitInode /\ [][NextInode]_inodeVars
-----------------------------------------------------------------------------
\* Every block of the file is found where it was put, whichever direct or indirect
\* block holds its number and however often the file shrank and grew.
MapsAsWritten ==
    /\ Len(file) = BlocksFor(ino.size)
    /\ \A i \in DOMAIN file : ext4_fs_get_inode_dblk_idx(State, i - 1) = file[i]

\* The blocks below an indirect block of level l, itself included.
RECURSIVE Tree(_, _)
Tree(blk, l) ==
    IF blk = 0 THEN {}
    ELSE {blk} \cup (IF l = 0 THEN {} ELSE UNION {Tree(ptrs[blk][k], l - 1) : k \in DOMAIN ptrs[blk]})

\* The blocks the allocator has given away are exactly those the inode
\* reaches: an append that runs out of space half way, a truncation
\* and a deletion leak nothing, and nothing is freed twice or while in use.
NothingLeaks ==
    /\ used = (Range(ino.direct) \ {0}) \cup UNION {Tree(ino.indirect[l], l) : l \in 1 .. 3}
    /\ result /= "double free"
=============================================================================
