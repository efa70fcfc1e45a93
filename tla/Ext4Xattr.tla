------------------------------ MODULE Ext4Xattr ------------------------------
(***************************************************************************)
(* Extended attributes (ext4_xattr.c).  An inode has attributes in the     *)
(* room behind it and in one block, which it may share with other inodes.  *)
(* In both places entries grow from the front and values from the end.     *)
(* Sizes are in units of EXT4_XATTR_PAD bytes.                             *)
(***************************************************************************)
EXTENDS Integers, Sequences, FiniteSets, FiniteSetsExt, SequencesExt

CONSTANTS Names,
          NameLen,     \* units of an entry with this name, EXT4_XATTR_LEN
          Sizes,       \* the lengths of values, EXT4_XATTR_SIZE
          Inodes,      \* units behind an inode, 0: extra_isize is 0
          Block,       \* units of a block
          Header,      \* units of its header
          Pool         \* blocks the allocator has at first

VARIABLES ibody,    \* the area behind the inode
          blocks,   \* the blocks in use: [area, h_refcount]
          acl,      \* file_acl of the inode, 0 if it has no block
          peer,     \* the block of another inode, 0 if it has none
          want,     \* auxiliary: the size of every attribute's value, -1 if it has none
          blame,    \* auxiliary: the known ways to lose attributes that were met
          result
xattrVars == <<ibody, blocks, acl, peer, want, blame, result>>

\* An area: where its entries start and its values end, the entries, the units of memory.
Cleared(first, end) ==
    [first |-> first, end |-> end, ents |-> <<>>, data |-> [k \in 0 .. end - 1 |-> <<>>]]
EmptyBlock == Cleared(Header, Block)

min_offs(a) == Min({a.end} \cup {a.ents[k].offs : k \in {j \in DOMAIN a.ents : a.ents[j].size > 0}})
last(a) == a.first + FoldLeft(LAMBDA n, e : n + NameLen[e.name], 0, a.ents)

\* The position of a name's entry, 0: not_found.
ext4_xattr_find_entry(a, n) == SelectInSeq(a.ents, LAMBDA e : e.name = n)

\* A value of size units stored at offs, and what is stored for an entry.
Value(n, size) == [k \in 1 .. size |-> <<n, size, k>>]
Stored(a, e) == [k \in 1 .. e.size |-> a.data[e.offs + k - 1]]

\* Validity.  The area behind the inode is measured from its header, a unit before
\* the place its offsets count from.
EntriesValid(a) ==
    \A k \in DOMAIN a.ents : /\ a.ents[k].size = 0 => a.ents[k].offs = 0
                             /\ a.ents[k].offs + a.ents[k].size <= a.end
ext4_xattr_is_block_valid(a) == EntriesValid(a) /\ min_offs(a) >= last(a) + 1
ext4_xattr_is_ibody_valid(a) ==
    /\ EntriesValid(a)
    /\ (IF min_offs(a) = a.end THEN a.end ELSE min_offs(a) - 1) >= last(a) + 1
-----------------------------------------------------------------------------
\* ext4_xattr_set_entry, in its two steps.  The value of the entry at p goes and
\* the values in front of it move up.  All smaller offsets follow, that of an
\* entry without a value as well.
Without(a, p, old, min) ==
    [a EXCEPT
       !.data = [k \in DOMAIN @ |->
                   IF old.offs = 0 \/ k < min \/ k >= old.offs + old.size THEN @[k]
                   ELSE IF k < min + old.size THEN <<>> ELSE @[k - old.size]],
       !.ents = [k \in DOMAIN @ |->
                   IF @[k].offs < old.offs THEN [@[k] EXCEPT !.offs = @ + old.size] ELSE @[k]]]

RemoveValue(a, p) == IF p = 0 THEN a ELSE Without(a, p, a.ents[p], min_offs(a))

\* The new value before the values there are; without one the offset is 0.
PutAt(a, p, n, size, offs) ==
    LET e == [name |-> n, offs |-> offs, size |-> size]
    IN  [a EXCEPT !.ents = IF p = 0 THEN Append(@, e) ELSE [@ EXCEPT ![p] = e],
                  !.data = [k \in DOMAIN @ |-> IF k \in offs .. offs + size - 1
                                               THEN Value(n, size)[k - offs + 1] ELSE @[k]]]
\* What min_offs is behind RemoveValue: the entry's own offset no longer counts.
FreeEnd(a, p) == IF p = 0 \/ a.ents[p].offs = 0 THEN min_offs(a) ELSE min_offs(a) + a.ents[p].size
Fits(a, p, n, size) ==
    size + NameLen[n] <= min_offs(a) - last(a) - 1
                         + (IF p = 0 THEN 0 ELSE a.ents[p].size + NameLen[n])

SetEntry(a, p, n, size) ==
    PutAt(RemoveValue(a, p), p, n, size, IF size = 0 THEN 0 ELSE FreeEnd(a, p) - size)
RemoveEntry(a, p) ==
    IF p = 0 THEN a ELSE [RemoveValue(a, p) EXCEPT !.ents = RemoveAt(@, p)]
-----------------------------------------------------------------------------
\* The operators below work on s = [ibody, blocks, acl, r, blame].
State == [ibody |-> ibody, blocks |-> blocks, acl |-> acl, r |-> "EOK", blame |-> {}]
Fail(s, e) == [s EXCEPT !.r = e]

\* A block of the pool, 0: ENOSPC.
ext4_balloc_alloc_block(s) ==
    LET free == Pool \ DOMAIN s.blocks IN IF free = {} THEN 0 ELSE Min(free)
WithBlock(s, b, x) == [k \in DOMAIN s.blocks \cup {b} |-> IF k = b THEN x ELSE s.blocks[k]]
ext4_xattr_try_free_block(s) ==
    [s EXCEPT !.acl = 0, !.blocks = [k \in DOMAIN s.blocks \ {s.acl} |-> s.blocks[k]]]

\* A block that is shared is copied and the inode gets the copy.
ext4_xattr_copy_new_block(s, b) ==
    IF s.blocks[s.acl].h_refcount = 1 THEN s
    ELSE IF b = 0 THEN Fail(s, "ENOSPC")
    ELSE [s EXCEPT !.acl = b,
                   !.blocks = [WithBlock(s, b, [s.blocks[s.acl] EXCEPT !.h_refcount = 1])
                                  EXCEPT ![s.acl].h_refcount = @ - 1]]

\* The entry is set in block b.
SetIn(s, b, p, n, size) ==
    IF ~ext4_xattr_is_block_valid(s.blocks[b].area) THEN Fail(s, "EIO")
    ELSE IF ~Fits(s.blocks[b].area, p, n, size) THEN Fail(s, "ENOSPC")
    ELSE [s EXCEPT !.blocks[b].area = SetEntry(@, p, n, size)]

\* Behind a copy the code goes on with the block that is still shared.
SetShared(s, orig, n, size) ==
    IF s.r /= "EOK" THEN s
    ELSE SetIn([s EXCEPT !.blame = IF s.acl = orig THEN @ ELSE @ \cup {"shared"}],
               orig, ext4_xattr_find_entry(s.blocks[orig].area, n), n, size)

\* In a new block the entry either fits or the block is freed again.
SetNew(s, b, n, size) ==
    IF b = 0 THEN Fail(s, "ENOSPC")
    ELSE IF ~Fits(EmptyBlock, 0, n, size) THEN Fail(s, "ENOSPC")
    ELSE [s EXCEPT !.acl = b, !.blocks = WithBlock(s, b, [area |-> SetEntry(EmptyBlock, 0, n, size),
                                                         h_refcount |-> 1])]
\* no_insert is looked at only when the block is shared or missing.
ext4_xattr_block_set(s, n, size, no_insert) ==
    IF s.acl = 0 THEN IF no_insert THEN Fail(s, "ENODATA")
                      ELSE SetNew(s, ext4_balloc_alloc_block(s), n, size)
    ELSE IF /\ no_insert /\ s.blocks[s.acl].h_refcount > 1
            /\ ext4_xattr_find_entry(s.blocks[s.acl].area, n) = 0
    THEN Fail(s, "ENODATA")
    ELSE SetShared(ext4_xattr_copy_new_block(s, ext4_balloc_alloc_block(s)), s.acl, n, size)

\* The name to look for was never filled in: the copy of the entry in the block stays.
ext4_xattr_block_remove(s) == ext4_xattr_copy_new_block(s, ext4_balloc_alloc_block(s))

\* An entry set behind the inode is removed from its block; one that found no room
\* there and in no block before is set in the block and removed behind the inode.
AfterBlock(s, p) == [s EXCEPT !.ibody = RemoveEntry(@, p),
                              !.blame = IF p /= 0 /\ s.r /= "EOK" THEN @ \cup {"overwrite"} ELSE @]


TryInsert(s, p, n, size, block_found) ==
    IF s.ibody.end > 0 /\ Fits(s.ibody, p, n, size)
    THEN IF block_found THEN ext4_xattr_block_remove([s EXCEPT !.r = "EOK", !.ibody = SetEntry(@, p, n, size)])
         ELSE [s EXCEPT !.r = "EOK", !.ibody = SetEntry(@, p, n, size)]
    ELSE IF block_found THEN Fail(s, "ENOSPC")
    ELSE AfterBlock(ext4_xattr_block_set([s EXCEPT !.r = "EOK"], n, size, FALSE), p)

AfterTry(s, n, size) ==
    IF s.r \in {"ENOSPC", "ENODATA"} THEN TryInsert(s, 0, n, size, TRUE) ELSE s
ext4_xattr_set(s, n, size) ==
    LET p == ext4_xattr_find_entry(s.ibody, n)
    IN  IF p = 0 /\ s.acl /= 0 THEN AfterTry(ext4_xattr_block_set(s, n, size, TRUE), n, size)
        ELSE TryInsert(s, p, n, size, FALSE)

\* An area that is not valid is cleared before anything is set.
ext4_xattr_ibody_initialize(s) ==
    IF s.ibody.end > 0 /\ ~ext4_xattr_is_ibody_valid(s.ibody) THEN [s EXCEPT !.ibody = Cleared(0, s.ibody.end)] ELSE s

RemoveFromBlock(s, n) ==
    IF s.r /= "EOK" THEN s
    ELSE LET a == RemoveEntry(s.blocks[s.acl].area, ext4_xattr_find_entry(s.blocks[s.acl].area, n))
         IN  IF a.ents = <<>> THEN ext4_xattr_try_free_block(s)
             ELSE [s EXCEPT !.blocks[s.acl].area = a]

\* An entry behind the inode, or one that is nowhere when there is no block, is removed with a
\* search context that was never filled in; here, nothing is removed.
ext4_xattr_remove(s, n) ==
    IF s.ibody.end > 0 /\ ~ext4_xattr_is_ibody_valid(s.ibody) THEN Fail(s, "EIO")
    ELSE IF ext4_xattr_find_entry(s.ibody, n) /= 0 \/ s.acl = 0
    THEN [s EXCEPT !.blame = @ \cup {"remove"}]
    ELSE IF ext4_xattr_find_entry(s.blocks[s.acl].area, n) = 0 THEN Fail(s, "ENODATA")
    ELSE RemoveFromBlock(ext4_xattr_copy_new_block(s, ext4_balloc_alloc_block(s)), n)

\* <<the value>>, or <<>> for an error.
GetFrom(a, n) ==
    LET p == ext4_xattr_find_entry(a, n) IN IF p = 0 THEN <<>> ELSE <<Stored(a, a.ents[p])>>
GetFromBlock(b, n) ==
    IF b = 0 \/ ~ext4_xattr_is_block_valid(blocks[b].area) THEN <<>> ELSE GetFrom(blocks[b].area, n)
ext4_xattr_get(n) ==
    IF ibody.end > 0 /\ ~ext4_xattr_is_ibody_valid(ibody) THEN <<>>
    ELSE IF GetFrom(ibody, n) /= <<>> THEN GetFrom(ibody, n)
    ELSE GetFromBlock(acl, n)

NamesIn(a) == {a.ents[k].name : k \in DOMAIN a.ents}
ext4_xattr_list ==
    (IF ibody.end > 0 /\ ext4_xattr_is_ibody_valid(ibody) THEN NamesIn(ibody) ELSE {})
        \cup (IF acl = 0 THEN {} ELSE NamesIn(blocks[acl].area))
-----------------------------------------------------------------------------
SharedBlock(n, size) == [area |-> SetEntry(EmptyBlock, 0, n, size), h_refcount |-> 2]

\* The inode has no attributes, or one in a block that another inode shares.
InitXattr ==
    /\ \E n \in Inodes : ibody = Cleared(0, n)
    /\ blame = {} /\ result = "EOK"
    /\ \/ acl = 0 /\ peer = 0 /\ blocks = <<>> /\ want = [n \in Names |-> -1]
       \/ \E n \in Names : /\ acl = Min(Pool) /\ peer = acl
                           /\ blocks = [b \in {acl} |-> SharedBlock(n, Max(Sizes))]
                           /\ want = [m \in Names |-> IF m = n THEN Max(Sizes) ELSE -1]

\* What makes an area invalid although its values are in place.
Blames(s) ==
    s.blame \cup (IF s.ibody.end > 0 /\ EntriesValid(s.ibody) /\ ~ext4_xattr_is_ibody_valid(s.ibody)
                  THEN {"full"} ELSE {})
            \cup (IF EntriesValid(s.ibody) /\ \A b \in DOMAIN s.blocks : EntriesValid(s.blocks[b].area)
                  THEN {} ELSE {"empty value"})
Becomes(s) ==
    /\ ibody' = s.ibody /\ blocks' = s.blocks /\ acl' = s.acl /\ result' = s.r
    /\ blame' = Blames(s)
    /\ UNCHANGED peer

ext4_setxattr(n, size) ==
    \E s \in {ext4_xattr_set(ext4_xattr_ibody_initialize(State), n, size)} :
       Becomes(s) /\ want' = IF s.r = "EOK" THEN [want EXCEPT ![n] = size] ELSE want
ext4_removexattr(n) ==
    \E s \in {ext4_xattr_remove(State, n)} :
       Becomes(s) /\ want' = IF s.r = "EOK" THEN [want EXCEPT ![n] = -1] ELSE want

\* Behind a loss nothing more is followed.
NextXattr ==
    /\ blame = {}
    /\ \E n \in Names : ext4_removexattr(n) \/ \E size \in Sizes : ext4_setxattr(n, size)

SpecXattr == InitXattr /\ [][NextXattr]_xattrVars
-----------------------------------------------------------------------------
=============================================================================
