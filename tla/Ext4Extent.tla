------------------------------ MODULE Ext4Extent ------------------------------
(***************************************************************************)
(* The extent tree of an ext4 inode (ext4_extent.c).  One file is appended *)
(* to, overwritten and truncated; the file may come from another ext4      *)
(* driver, with extents that are allocated but unwritten.  Blocks are read *)
(* and written through the buffer cache, so a tree block is a variable.    *)
(***************************************************************************)
EXTENDS Integers, Sequences, FiniteSets, FiniteSetsExt, SequencesExt

CONSTANTS MAX_LEN,    \* EXT_INIT_MAX_LEN, a power of two
          RootMax,    \* entries of the root in the inode
          BlockMax,   \* entries of a tree block, more than RootMax
          Images      \* initial files: [extents, free, limit]

\* A node is [depth, max, e]: its header, and its entries [lb, cnt, pb].  In a
\* leaf an entry is an extent, cnt its block count with the unwritten bit; above,
\* pb is the node one level down and cnt is not used.  Node 0 is the root.
VARIABLES t,        \* the nodes
          free,     \* the free blocks
          image, size,
          content,  \* auxiliary: for each block of the file its address and state
          answer    \* of the last operation

extentVars == <<t, free, image, size, content, answer>>

actual_len(c) == IF c <= MAX_LEN THEN c ELSE c - MAX_LEN
is_unwritten(c) == c > MAX_LEN
mark_unwritten(c) == IF c >= MAX_LEN THEN c ELSE c + MAX_LEN
Count16(n) == n % (2 * MAX_LEN)
Covers(x, lb) == x.lb <= lb /\ lb < x.lb + actual_len(x.cnt)

\* Operators work on s = [t, free, r]; r is "EOK" or an error.
NoNode == [depth |-> 0, max |-> 0, e |-> <<>>]
Fail(s, err) == [s EXCEPT !.r = err]

\* The allocator: the goal, the next free block, or the first one (see Ext4Alloc).
Alloc(s, goal) ==
    IF s.free = {} THEN 0
    ELSE Min(IF \E b \in s.free : b >= goal THEN {b \in s.free : b >= goal} ELSE s.free)
Take(s, b) == [s EXCEPT !.free = @ \ {b}]
ext4_ext_free_blocks(s, b, n) ==
    IF s.free \cap (b .. b + n - 1) /= {} THEN Fail(s, "double free")
    ELSE [s EXCEPT !.free = @ \cup (b .. b + n - 1),
                   !.t = [id \in DOMAIN @ |-> IF id \in b .. b + n - 1 THEN NoNode ELSE @[id]]]

RECURSIVE Bisect(_, _, _, _)
Bisect(e, lb, l, r) ==
    LET m == l + ((r - l) \div 2)
    IN  IF l > r THEN l - 1
        ELSE IF lb < e[m].lb THEN Bisect(e, lb, l, m - 1) ELSE Bisect(e, lb, m + 1, r)
binsearch(e, lb) == IF e = <<>> THEN 0 ELSE Bisect(e, lb, 2, Len(e))

\* The path to a block: for every level the node and the entry taken (0: NULL).
RECURSIVE Walk(_, _, _)
Walk(s, id, lb) ==
    LET n == s.t[id]
        at == binsearch(n.e, lb)
    IN  <<[id |-> id, at |-> at]>> \o (IF n.depth = 0 THEN <<>> ELSE Walk(s, n.e[at].pb, lb))
ext4_find_extent(s, lb) == Walk(s, 0, lb)

Leaf(path) == path[Len(path)]
Extent(s, path) == s.t[Leaf(path).id].e[Leaf(path).at]
Full(s, p) == Len(s.t[p.id].e) = s.t[p.id].max

ext4_ext_find_goal(s, path, lb) ==
    IF Leaf(path).at /= 0 THEN Extent(s, path).pb + (lb - Extent(s, path).lb)
    ELSE Leaf(path).id

\* A new first block of the leaf goes into the index above it, and further up as
\* long as the path is the leftmost one.
ext4_ext_correct_indexes(s, path) ==
    LET D == Len(path)
        up == {k \in 1 .. D - 1 : \A j \in k + 1 .. D : path[j].at = 1}
        border == Extent(s, path).lb
    IN  [s EXCEPT !.t = [id \in DOMAIN @ |->
            IF \E k \in up : path[k].id = id
            THEN [@[id] EXCEPT !.e[(CHOOSE p \in Range(path) : p.id = id).at].lb = border]
            ELSE @[id]]]

Joins(a, b) ==
    /\ a.pb + actual_len(a.cnt) = b.pb
    /\ a.lb + actual_len(a.cnt) = b.lb
ShortEnough(x, y) ==
    actual_len(x.cnt) + actual_len(y.cnt) <= IF is_unwritten(x.cnt) THEN MAX_LEN - 1 ELSE MAX_LEN
Joined(x, y) ==
    LET n == actual_len(x.cnt) + actual_len(y.cnt)
    IN  IF is_unwritten(x.cnt) THEN mark_unwritten(n) ELSE n

\* The new extent joins the one found, or is put next to it; r = "split" when the
\* leaf is full.  Joining at the front moves the logical start only.
ext4_ext_insert_leaf(s, path, new, combine) ==
    LET D == Len(path)
        id == path[D].id
        at == path[D].at
        x == Extent(s, path)
        p == IF at = 0 THEN 1 ELSE IF new.lb > x.lb THEN at + 1 ELSE at
        s1 == [s EXCEPT !.t[id].e = InsertAt(@, p, new)]
        found == [path EXCEPT ![D].at = IF at = 0 THEN 1 ELSE at]
    IN  IF at /= 0 /\ new.lb = x.lb THEN [s |-> Fail(s, "EIO"), path |-> path]
        ELSE IF at /= 0 /\ combine /\ Joins(x, new) /\ ShortEnough(x, new)
        THEN [s |-> [s EXCEPT !.t[id].e[at].cnt = Joined(x, new)], path |-> path]
        ELSE IF at /= 0 /\ combine /\ Joins(new, x) /\ ShortEnough(x, new)
        THEN [s |-> [s EXCEPT !.t[id].e[at].cnt = Joined(x, new), !.t[id].e[at].lb = new.lb],
              path |-> path]
        ELSE IF Full(s, path[D]) THEN [s |-> Fail(s, "split"), path |-> path]
        ELSE [s |-> ext4_ext_correct_indexes(s1, found), path |-> [path EXCEPT ![D].at = p]]

ext4_ext_insert_index(s, p, lb, block) ==
    LET n == s.t[p.id]
        at == IF lb > n.e[p.at].lb THEN p.at + 1 ELSE p.at
    IN  IF lb = n.e[p.at].lb \/ Full(s, p) THEN [s |-> Fail(s, "EIO"), at |-> p.at]
        ELSE [s |-> [s EXCEPT !.t[p.id].e = InsertAt(@, at, [lb |-> lb, cnt |-> 0, pb |-> block])],
              at |-> at]

\* The nodes of the path from the leaf up to level A, all full, are split behind
\* the entry taken.  Result: the new nodes, topmost first.  When a block is
\* missing the new ones are freed, with what was moved to them.
RECURSIVE SplitUp(_, _, _, _, _, _, _)
SplitUp(s, path, i, A, new, lb, npath) ==
    LET b == Alloc(s, ext4_ext_find_goal(s, path, new.lb))
        n == s.t[path[i].id]
        moved == SubSeq(n.e, path[i].at + 1, n.max)
        leaf == i = Len(path)
        head == IF leaf THEN <<>> ELSE <<[lb |-> lb, cnt |-> 0, pb |-> Head(npath).id]>>
        s1 == [Take(s, b) EXCEPT !.t[b] = [depth |-> Len(path) - i, max |-> BlockMax, e |-> head \o moved],
                                 !.t[path[i].id].e = SubSeq(@, 1, path[i].at)]
        np == <<[id |-> b, at |-> IF leaf /\ moved = <<>> THEN 0 ELSE 1]>> \o npath
    IN  IF i < A THEN [s |-> s, npath |-> npath]
        ELSE IF b = 0
        THEN [s |-> Fail(FoldSeq(LAMBDA p, z : ext4_ext_free_blocks(z, p.id, 1), s, npath), "ENOSPC"),
              npath |-> <<>>]
        ELSE SplitUp(s1, path, i - 1, A, new, lb, np)

\* x: the node above, with an entry for the new nodes u, or the reason why not.
Relinked(x, u, path, A, right) ==
    IF x.s.r /= "EOK"
    THEN [s |-> Fail(FoldSeq(LAMBDA p, z : ext4_ext_free_blocks(z, p.id, 1), u.s, u.npath), x.s.r),
          path |-> path]
    ELSE [s |-> x.s,
          path |-> IF right
                   THEN SubSeq(path, 1, A - 2) \o <<[path[A - 1] EXCEPT !.at = x.at]>> \o u.npath
                   ELSE path]
Split(u, path, A, lb, right) ==
    IF u.s.r /= "EOK" THEN [s |-> u.s, path |-> path]
    ELSE Relinked(ext4_ext_insert_index(u.s, path[A - 1], lb, u.npath[1].id), u, path, A, right)

\* Result: the state and the path to go on with.
ext4_ext_split_node(s, path, A, new) ==
    LET n == s.t[Leaf(path).id]
        lb == IF Leaf(path).at /= n.max THEN n.e[Leaf(path).at + 1].lb ELSE new.lb
    IN  Split(SplitUp(s, path, Len(path), A, new, lb, <<>>), path, A, lb, new.lb >= lb)

\* The root moves to a block of its own and becomes the index of that block.
ext4_ext_grow_indepth(s) ==
    LET root == s.t[0]
        b == Alloc(s, IF root.depth > 0 THEN root.e[1].pb ELSE 0)
    IN  IF b = 0 THEN Fail(s, "ENOSPC")
        ELSE [Take(s, b) EXCEPT
                !.t[b] = [root EXCEPT !.max = BlockMax],
                !.t[0] = [depth |-> root.depth + 1, max |-> RootMax,
                          e |-> <<[lb |-> root.e[1].lb, cnt |-> 0, pb |-> b]>>]]

\* Insert the extent; while the leaf is full, split it and the full nodes above it,
\* or grow the tree when all nodes of the path are full.
RECURSIVE ext4_ext_insert_extent(_, _, _, _), SplitAt(_, _, _, _, _)
AfterSplit(x, new, combine) ==
    IF x.s.r /= "EOK" THEN x ELSE ext4_ext_insert_extent(x.s, x.path, new, combine)
SplitAt(s, path, level, new, combine) ==
    IF level = 0 THEN ext4_ext_insert_extent(s, path, new, combine)
    ELSE AfterSplit(ext4_ext_split_node(s, path, Len(path) - level + 1, new), new, combine)
AfterGrow(s, path, new, combine) ==
    IF s.r /= "EOK" THEN [s |-> s, path |-> path]
    ELSE SplitAt(s, ext4_find_extent(s, new.lb), Len(path) - 1, new, combine)
AfterLeaf(r, s, path, new, combine) ==
    LET room == {i \in DOMAIN path : ~Full(s, path[i])}
    IN  IF r.s.r /= "split" THEN r
        ELSE IF room = {} THEN AfterGrow(ext4_ext_grow_indepth(s), path, new, combine)
        ELSE SplitAt(s, path, Len(path) - Max(room), new, combine)
ext4_ext_insert_extent(s, path, new, combine) ==
    AfterLeaf(ext4_ext_insert_leaf(s, path, new, combine), s, path, new, combine)

\* The extent of the path is cut at a block; u1, u2: the parts that stay unwritten.
\* When the second part cannot be inserted the first gets its length back, but not
\* its unwritten bit, and the caller is told EOK.
ext4_ext_split_extent_at(s, path, split, u1, u2) ==
    LET x == Extent(s, path)
        len == actual_len(x.cnt)
        Set(c) == [s EXCEPT !.t[Leaf(path).id].e[Leaf(path).at].cnt = c]
        Mark(c, u) == IF u THEN mark_unwritten(c) ELSE c
        new == [lb |-> split, cnt |-> Mark(Count16(len - (split - x.lb)), u2),
                pb |-> x.pb + (split - x.lb)]
        Restored(r) ==
            IF r.s.r = "EOK" THEN r
            ELSE [s |-> [r.s EXCEPT !.t[Leaf(path).id].e[Leaf(path).at].cnt = len, !.r = "EOK"],
                  path |-> path]
    IN  IF split = x.lb THEN [s |-> Set(Mark(len, u2)), path |-> path]
        ELSE Restored(ext4_ext_insert_extent(Set(Mark(Count16(split - x.lb), u1)), path, new, FALSE))


\* One block of an unwritten extent becomes written.  In the third case the path
\* still leads to the part inserted by the first cut when the second is made.
ext4_ext_convert_to_initialized(s, path, split) ==
    LET x == Extent(s, path)
        SecondCut(r) == IF r.s.r /= "EOK" THEN r.s
                        ELSE ext4_ext_split_extent_at(r.s, r.path, split, TRUE, FALSE).s
    IN  IF split + 1 = x.lb + actual_len(x.cnt)
        THEN ext4_ext_split_extent_at(s, path, split, TRUE, FALSE).s
        ELSE IF x.lb = split
        THEN ext4_ext_split_extent_at(s, path, split + 1, FALSE, TRUE).s
        ELSE SecondCut(ext4_ext_split_extent_at(s, path, split + 1, TRUE, TRUE))

\* ext4_extent_get_blocks for one block: [s, blk]; blk = 0: no block.
ext4_extent_get_blocks(s, lb, create) ==
    LET path == ext4_find_extent(s, lb)
        x == Extent(s, path)
        b == Alloc(s, ext4_ext_find_goal(s, path, lb))
        Given(z) == IF z.r = "EOK" THEN [s |-> z, blk |-> b]
                    ELSE [s |-> Fail(ext4_ext_free_blocks(z, b, 1), z.r), blk |-> 0]
    IN  IF Leaf(path).at /= 0 /\ Covers(x, lb)
        THEN IF ~is_unwritten(x.cnt) THEN [s |-> s, blk |-> x.pb + (lb - x.lb)]
             ELSE IF ~create THEN [s |-> s, blk |-> 0]
             ELSE [s |-> ext4_ext_convert_to_initialized(s, path, lb), blk |-> x.pb + (lb - x.lb)]
        ELSE IF ~create THEN [s |-> s, blk |-> 0]
        ELSE IF b = 0 THEN [s |-> Fail(s, "ENOSPC"), blk |-> 0]
        ELSE Given(ext4_ext_insert_extent(Take(s, b), path, [lb |-> lb, cnt |-> 1, pb |-> b], TRUE).s)

\* The entry at level i of the path leaves its node, and its child is freed.
ext4_ext_remove_idx(s, path, i) ==
    LET p == path[i]
        n == s.t[p.id]
        s1 == ext4_ext_free_blocks([s EXCEPT !.t[p.id].e = RemoveAt(@, p.at)], n.e[p.at].pb, 1)
        first == IF p.at < Len(n.e) THEN n.e[p.at + 1].lb ELSE n.e[p.at].lb
        up == {k \in 1 .. i - 1 : \A j \in k + 1 .. i : path[j].at = 1}
    IN  [s1 EXCEPT !.t = [id \in DOMAIN @ |->
            IF \E k \in up : path[k].id = id
            THEN [@[id] EXCEPT !.e[(CHOOSE q \in Range(SubSeq(path, 1, i)) : q.id = id).at].lb = first]
            ELSE @[id]]]

\* The extents of the leaf from block `from` on, and the leaf itself if it becomes
\* empty; the index above moves on to the next leaf.
ext4_ext_remove_leaf(s, path, from) ==
    LET D == Len(path)
        p == path[D]
        e == s.t[p.id].e
        x == e[p.at]
        cut == x.lb < from
        keep == SubSeq(e, 1, p.at - 1) \o
                (IF cut THEN <<[x EXCEPT !.cnt = IF is_unwritten(x.cnt) THEN mark_unwritten(from - x.lb)
                                                 ELSE from - x.lb]>> ELSE <<>>)
        Freed(z, k) ==
            LET skip == IF cut /\ k = p.at THEN from - e[k].lb ELSE 0
            IN  ext4_ext_free_blocks(z, e[k].pb + skip, actual_len(e[k].cnt) - skip)
        s1 == FoldLeft(Freed, [s EXCEPT !.t[p.id].e = keep], [k \in 1 .. Len(e) - p.at + 1 |-> p.at + k - 1])
        s2 == IF p.at = 1 /\ keep /= <<>> THEN ext4_ext_correct_indexes(s1, path) ELSE s1
    IN  IF keep = <<>> /\ D > 1 THEN [s |-> ext4_ext_remove_idx(s2, path, D - 1), path |-> path]
        ELSE IF D > 1 THEN [s |-> s2, path |-> [path EXCEPT ![D - 1].at = @ + 1]]
        ELSE [s |-> s2, path |-> path]

\* The walk of ext4_extent_remove_space up and down the tree, at level i.
RECURSIVE RemoveWalk(_, _, _, _)
RemoveWalk(s, path, i, from) ==
    LET n == s.t[path[i].id]
        Up(r) == RemoveWalk(r.s, r.path, i - 1, from)
    IN  IF i = 0 THEN s
        ELSE IF i = Len(path) THEN Up(ext4_ext_remove_leaf(s, path, from))
        ELSE IF path[i].at <= Len(n.e)   \* ext4_ext_more_to_rm
        THEN RemoveWalk(s, [path EXCEPT ![i + 1] = [id |-> n.e[path[i].at].pb, at |-> 1]], i + 1, from)
        ELSE IF i = 1 THEN s
        ELSE IF n.e = <<>> THEN RemoveWalk(ext4_ext_remove_idx(s, path, i - 1), path, i - 1, from)
        ELSE RemoveWalk(s, [path EXCEPT ![i - 1].at = @ + 1], i - 1, from)

\* Everything from block `from` to EXT_MAX_BLOCKS, the only range the callers use.
\* Nothing is removed when `from` lies in a hole.
ext4_extent_remove_space(s, from) ==
    LET path == ext4_find_extent(s, from)
        Emptied(z) == IF z.t[0].e /= <<>> THEN z
                      ELSE [z EXCEPT !.t[0].depth = 0, !.t[0].max = RootMax]
    IN  IF Leaf(path).at = 0 \/ ~Covers(Extent(s, path), from) THEN s
        ELSE Emptied(RemoveWalk(s, path, Len(path), from))
-----------------------------------------------------------------------------
State == [t |-> t, free |-> free, r |-> "EOK"]
Becomes(s) == t' = s.t /\ free' = s.free
Blocks(e) == UNION {x.pb .. x.pb + actual_len(x.cnt) - 1 : x \in Range(e)}
End(e) == IF e = <<>> THEN 0 ELSE Last(e).lb + actual_len(Last(e).cnt)

\* ext4_extent_tree_init, or a file of another driver whose extents fit the root.
InitExtent ==
    /\ image \in Images
    /\ free = image.free
    /\ t = [id \in {0} \cup free \cup Blocks(image.extents) |->
              IF id = 0 THEN [depth |-> 0, max |-> RootMax, e |-> image.extents] ELSE NoNode]
    /\ size = End(image.extents)
    /\ content = [lb \in 0 .. size - 1 |->
         LET on == {x \in Range(image.extents) : Covers(x, lb)}
         IN  IF on = {} THEN [pb |-> 0, st |-> "hole"]
             ELSE LET x == CHOOSE y \in on : TRUE
                  IN  [pb |-> x.pb + (lb - x.lb),
                       st |-> IF is_unwritten(x.cnt) THEN "unwritten" ELSE "written"]]
    /\ answer = "EOK"

\* ext4_fs_append_inode_dblk for an inode with extents.
AppendBlock ==
    \E a \in {ext4_extent_get_blocks(State, size, TRUE)} :
        /\ size < image.limit
        /\ Becomes(a.s)
        /\ answer' = a.s.r
        /\ IF a.blk = 0 THEN UNCHANGED <<size, content>>
           ELSE /\ size' = size + 1
                /\ content' = [lb \in 0 .. size |-> IF lb = size THEN [pb |-> a.blk, st |-> "appended"]
                                                    ELSE content[lb]]
        /\ UNCHANGED image

\* ext4_fs_init_inode_dblk_idx: the block is about to be written.
WriteBlock(lb) ==
    \E a \in {ext4_extent_get_blocks(State, lb, TRUE)} :
        /\ lb < size
        /\ Becomes(a.s)
        /\ answer' = a.s.r
        /\ content' = IF a.blk = 0 THEN content
                      ELSE [content EXCEPT ![lb] = [pb |-> a.blk, st |-> "written"]]
        /\ UNCHANGED <<image, size>>

\* ext4_fs_truncate_inode, in whole blocks.
TruncateTo(n) ==
    \E s \in {ext4_extent_remove_space(State, n)} :
        /\ n < size
        /\ Becomes(s)
        /\ answer' = s.r
        /\ size' = n
        /\ content' = [lb \in 0 .. n - 1 |-> content[lb]]
        /\ UNCHANGED image

NextExtent ==
    \/ AppendBlock
    \/ \E n \in 0 .. image.limit : WriteBlock(n) \/ TruncateTo(n)

SpecExtent == InitExtent /\ [][NextExtent]_extentVars
-----------------------------------------------------------------------------
\* Every block of the file is found through the tree where it was put, whatever
\* splits, joins, truncations and growth the tree went through; a preallocated
\* block reads as zeros until it is written and a written one does not.  (A block
\* that is appended may join an unwritten extent and read as zeros: no claim is
\* made for it.  ext4_extent_get_blocks, ext4_ext_insert_leaf)
TreeMapsFile ==
    \A lb \in 0 .. size - 1 :
        LET path == ext4_find_extent(State, lb)
            x == Extent(State, path)
            in == Leaf(path).at /= 0 /\ Covers(x, lb)
        IN  IF content[lb].st = "hole" THEN ~in
            ELSE /\ in
                 /\ x.pb + (lb - x.lb) = content[lb].pb
                 /\ content[lb].st = "written" => ~is_unwritten(x.cnt)
                 /\ content[lb].st = "unwritten" => is_unwritten(x.cnt)

RECURSIVE Reach(_)
Reach(id) == IF t[id].depth = 0 THEN Blocks(t[id].e)
             ELSE UNION {{x.pb} \cup Reach(x.pb) : x \in Range(t[id].e)}

\* A block is free or it is a node or a data block of the tree, never both and
\* never neither: an insertion that runs out of space gives back what it took, and
\* a truncation frees data blocks and emptied nodes once.  (ext4_ext_split_node,
\* ext4_extent_remove_space)
TreeOwnsBlocks ==
    /\ answer /= "double free"
    /\ Reach(0) \cap free = {}
    /\ Reach(0) \cup free = DOMAIN t \ {0}
=============================================================================
