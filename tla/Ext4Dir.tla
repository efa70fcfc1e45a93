------------------------------- MODULE Ext4Dir -------------------------------
(***************************************************************************)
(* One ext4 directory (src/drivers/fs/ext/ext4_dir.c, ext4_dir_idx.c): the *)
(* entries inside its blocks, the linear algorithm, the hash index with    *)
(* its splits, and a reader that goes through the entries between the      *)
(* calls of the others.  Hashing is a constant; metadata_csum is off.      *)
(***************************************************************************)
EXTENDS Integers, Sequences, SequencesExt

CONSTANTS Names, NameLen, Hash,   \* hashes are even: bit 0 says "continued"
          HDR, DOT,               \* sizes of an entry's header and of a dot entry
          BLOCK,                  \* bytes of a block
          RootLimit, NodeLimit,   \* index entries of the root and of a node
          Kinds                   \* directories: [indexed, max (blocks the disk has),
                                  \* names (that are added), scans]

TERM == -1                        \* EXT4_DIR_ENTRY_OFFSET_TERM

VARIABLES d,         \* the directory: its blocks and its INDEX flag
          present,   \* the names callers added and did not remove
          reader     \* an open directory handle and what it has reported
dirVars == <<d, present, reader>>

EntrySize(n) == HDR + NameLen[n]

\* Entries as they lie in the block: offset -> entry.  Writing an entry destroys
\* what its bytes cover; older entries in its slack stay readable at their offsets.
ext4_dir_write_entry(at, o, n, len) ==
    [x \in (DOMAIN at \ (o .. o + EntrySize(n) - 1)) \cup {o} |->
        IF x = o THEN [name |-> n, live |-> TRUE, len |-> len] ELSE at[x]]

Empty == [o \in {0} |-> [name |-> "", live |-> FALSE, len |-> BLOCK]]
Dots == [o \in {0, DOT} |-> IF o = 0 THEN [name |-> ".", live |-> TRUE, len |-> DOT]
                            ELSE [name |-> "..", live |-> TRUE, len |-> BLOCK - DOT]]
Leaf(at) == [at |-> at, e |-> <<>>, levels |-> 0]

RECURSIVE Chain(_, _)
Chain(at, o) == IF o >= BLOCK THEN <<>> ELSE <<o>> \o Chain(at, o + at[o].len)

UsedBy(en) == IF ~en.live THEN 0 ELSE IF en.name \in {".", ".."} THEN DOT ELSE EntrySize(en.name)

\* First fit; <<>> is ENOSPC.
ext4_dir_try_insert_entry(at, n) ==
    LET fits == SelectSeq(Chain(at, 0), LAMBDA o : at[o].len - UsedBy(at[o]) >= EntrySize(n))
        o == fits[1]
        used == UsedBy(at[o])
    IN  IF fits = <<>> THEN <<>>
        ELSE IF used = 0 THEN <<ext4_dir_write_entry(at, o, n, at[o].len)>>
        ELSE <<ext4_dir_write_entry([at EXCEPT ![o].len = used], o + used, n, at[o].len - used)>>

\* The offset of a name in a block; -1: ENOENT.
ext4_dir_find_in_block(at, n) ==
    LET hits == SelectSeq(Chain(at, 0), LAMBDA o : at[o].live /\ at[o].name = n)
    IN  IF hits = <<>> THEN -1 ELSE hits[1]

Block(dir, b) == dir.blocks[b + 1]
Count(dir) == Len(dir.blocks)
Entries(dir, b) == Block(dir, b).e
ext4_fs_append_inode_dblk(dir, block) == [dir EXCEPT !.blocks = Append(@, block)]

\* The linear algorithm of ext4_dir_add_entry.
AddLinear(dir, n) ==
    LET open == {b \in 0 .. Count(dir) - 1 : ext4_dir_try_insert_entry(Block(dir, b).at, n) /= <<>>}
        b == CHOOSE x \in open : \A y \in open : x <= y
    IN  IF open /= {}
        THEN [r |-> "EOK", d |-> [dir EXCEPT !.blocks[b + 1].at = ext4_dir_try_insert_entry(@, n)[1]]]
        ELSE IF Count(dir) = dir.max THEN [r |-> "ENOSPC", d |-> dir]
        ELSE [r |-> "EOK",
              d |-> ext4_fs_append_inode_dblk(dir, Leaf(ext4_dir_write_entry(Empty, 0, n, BLOCK)))]

---------------------------------------------------------------------------
(* The hash index.  A path is the positions in the root and, below it, in a node. *)

\* The binary search of ext4_dir_dx_get_leaf in one index block: positions p .. q
\* are still open.  The first entry has no hash: its bytes hold count and limit.
RECURSIVE Search(_, _, _, _)
Search(e, h, p, q) ==
    IF p > q THEN p - 1
    ELSE LET m == p + (q - p) \div 2
         IN  IF e[m].hash > h THEN Search(e, h, p, m - 1) ELSE Search(e, h, m + 1, q)

ext4_dir_dx_get_leaf(dir, h) ==
    LET root == Block(dir, 0)
        i == Search(root.e, h, 2, Len(root.e))
        node == Entries(dir, root.e[i].blk)
    IN  IF root.levels = 0 THEN <<i>> ELSE <<i, Search(node, h, 2, Len(node))>>

\* The index block a path ends in, and the leaf it points to.
LastBlock(dir, path) == IF Len(path) = 1 THEN 0 ELSE Entries(dir, 0)[path[1]].blk
LeafOf(dir, path) == Entries(dir, LastBlock(dir, path))[Last(path)].blk


\* The path to the next leaf if entries of hash h may continue there, else <<>>.
ext4_dir_dx_next_block(dir, h, path) ==
    LET root == Entries(dir, 0)
        e == Entries(dir, LastBlock(dir, path))
    IN  IF Last(path) < Len(e)
        THEN IF e[Last(path) + 1].hash - (e[Last(path) + 1].hash % 2) /= h THEN <<>>
             ELSE Append(Front(path), Last(path) + 1)
        ELSE IF Len(path) = 1 \/ path[1] = Len(root) THEN <<>>
        ELSE IF root[path[1] + 1].hash - (root[path[1] + 1].hash % 2) /= h THEN <<>>
        ELSE <<path[1] + 1, 1>>

\* The block that holds a name; -1: ENOENT.
RECURSIVE FindFrom(_, _, _)
FindFrom(dir, n, path) ==
    IF path = <<>> THEN -1
    ELSE IF ext4_dir_find_in_block(Block(dir, LeafOf(dir, path)).at, n) >= 0 THEN LeafOf(dir, path)
    ELSE FindFrom(dir, n, ext4_dir_dx_next_block(dir, Hash[n], path))

ext4_dir_dx_find_entry(dir, n) == FindFrom(dir, n, ext4_dir_dx_get_leaf(dir, Hash[n]))

ext4_dir_dx_insert_entry(dir, b, position, h, blk) ==
    [dir EXCEPT !.blocks[b + 1].e = InsertAt(@, position + 1, [hash |-> h, blk |-> blk])]

\* Makes room in the index block that the path ends in: a full root moves into a
\* new node below it, a full node gives its right half to a new one.
ext4_dir_dx_split_index(dir, path) ==
    LET b == LastBlock(dir, path)
        e == Entries(dir, b)
        left == Len(e) \div 2
        Node(es) == [at |-> Empty, e |-> es, levels |-> 0]
    IN  IF Len(e) < (IF Len(path) = 1 THEN RootLimit ELSE NodeLimit)
        THEN [r |-> "EOK", d |-> dir, path |-> path]
        ELSE IF Len(path) = 1
        THEN [r |-> "EOK", path |-> <<1, path[1]>>,
              d |-> ext4_fs_append_inode_dblk(
                        [dir EXCEPT !.blocks[1].levels = 1,
                                    !.blocks[1].e = <<[hash |-> 0, blk |-> Count(dir)]>>], Node(e))]
        ELSE IF Len(Entries(dir, 0)) = RootLimit THEN [r |-> "ENOSPC", d |-> dir, path |-> path]
        ELSE [r |-> "EOK",
              path |-> IF path[2] > left THEN <<path[1] + 1, path[2] - left>> ELSE path,
              d |-> ext4_dir_dx_insert_entry(
                        ext4_fs_append_inode_dblk([dir EXCEPT !.blocks[b + 1].e = SubSeq(e, 1, left)],
                                                  Node(SubSeq(e, left + 1, Len(e)))),
                        0, path[1], e[left + 1].hash, Count(dir))]

\* Entries packed from the start of a block; the last one takes the rest of it.
RECURSIVE Packed(_, _, _)
Packed(at, o, ns) ==
    IF ns = <<>> THEN at
    ELSE LET len == IF Len(ns) = 1 THEN BLOCK - o ELSE EntrySize(Head(ns))
         IN  Packed(ext4_dir_write_entry(at, o, Head(ns), len), o + EntrySize(Head(ns)), Tail(ns))

\* How many of the sorted entries stay in the old block.  0: they all fit in its half.
RECURSIVE Half(_, _, _)
Half(ns, i, size) ==
    IF i > Len(ns) THEN 0
    ELSE IF size + EntrySize(ns[i]) > BLOCK \div 2 THEN i - 1
    ELSE Half(ns, i + 1, size + EntrySize(ns[i]))

\* The hash of the new index entry.  With mid = 0 the code compares with sort[-1],
\* whatever lies before the array: garbage.
SplitHash(ns, mid, garbage) ==
    IF mid = 0 THEN garbage
    ELSE Hash[ns[mid + 1]] + (IF Hash[ns[mid]] = Hash[ns[mid + 1]] THEN 1 ELSE 0)

ext4_dir_dx_split_data(dir, path, garbage) ==
    LET leaf == LeafOf(dir, path)
        at == Block(dir, leaf).at
        offsets == SelectSeq(Chain(at, 0), LAMBDA o : at[o].live)
        ns == SortSeq([i \in DOMAIN offsets |-> at[offsets[i]].name], LAMBDA x, y : Hash[x] < Hash[y])
        mid == Half(ns, 1, 0)
    IN  ext4_dir_dx_insert_entry(
            ext4_fs_append_inode_dblk(
                [dir EXCEPT !.blocks[leaf + 1].at = Packed(@, 0, SubSeq(ns, 1, mid))],
                Leaf(Packed([o \in {} |-> 0], 0, SubSeq(ns, mid + 1, Len(ns))))),
            LastBlock(dir, path), Last(path), SplitHash(ns, mid, garbage), Count(dir))

\* at: block b with the new entry, or <<>>: no room.
Put(dir, b, at) == IF at = <<>> THEN dir ELSE [dir EXCEPT !.blocks[b + 1].at = at[1]]
InsertIn(dir, b, n) == Put(dir, b, ext4_dir_try_insert_entry(Block(dir, b).at, n))

\* The leaf has been cut in two.  The answer of the second insertion is
\* overwritten: EOK either way.
AfterCut(dir, path, leaf, n) ==
    InsertIn(dir, IF Hash[n] >= Entries(dir, LastBlock(dir, path))[Last(path) + 1].hash
                  THEN Count(dir) - 1 ELSE leaf, n)
InLeaf(dir, path, leaf, at, n, garbage) ==
    IF at /= <<>> THEN [r |-> "EOK", d |-> Put(dir, leaf, at)]
    ELSE IF Count(dir) = dir.max THEN [r |-> "ENOSPC", d |-> dir]
    ELSE [r |-> "EOK",
          d |-> AfterCut(ext4_dir_dx_split_data(dir, path, garbage), path, leaf, n)]
WithRoom(s, dir, n, garbage) ==
    IF s.r /= "EOK" THEN [r |-> s.r, d |-> dir]
    ELSE LET leaf == LeafOf(s.d, s.path)
         IN  InLeaf(s.d, s.path, leaf, ext4_dir_try_insert_entry(Block(s.d, leaf).at, n), n, garbage)
ext4_dir_dx_add_entry(dir, n, garbage) ==
    WithRoom(ext4_dir_dx_split_index(dir, ext4_dir_dx_get_leaf(dir, Hash[n])), dir, n, garbage)

---------------------------------------------------------------------------
\* The block that holds a name; -1: ENOENT.
ext4_dir_find_entry(dir, n) ==
    LET has == {b \in 0 .. Count(dir) - 1 : ext4_dir_find_in_block(Block(dir, b).at, n) >= 0}
    IN  IF dir.indexed THEN ext4_dir_dx_find_entry(dir, n)
        ELSE IF has = {} THEN -1 ELSE CHOOSE b \in has : \A c \in has : b <= c

\* Clears the inode; an entry that is not the first of its block joins the one before it.
ext4_dir_remove_entry(at, n) ==
    LET o == ext4_dir_find_in_block(at, n)
        IsBefore(x) == Contains(Chain(at, 0), x) /\ x + at[x].len = o
    IN  [x \in DOMAIN at |->
            IF x = o THEN [at[x] EXCEPT !.live = FALSE, !.name = ""]
            ELSE IF IsBefore(x) THEN [at[x] EXCEPT !.len = @ + at[o].len] ELSE at[x]]

ext4_dir_add_entry(dir, n, garbage) ==
    IF dir.indexed THEN ext4_dir_dx_add_entry(dir, n, garbage) ELSE AddLinear(dir, n)

\* The entry at an offset of the directory; <<>> where no entry was ever written.
EntryAt(dir, off) ==
    LET at == Block(dir, off \div BLOCK).at
    IN  IF off % BLOCK \in DOMAIN at THEN <<at[off % BLOCK]>> ELSE <<>>

\* ext4_dir_iterator_next: the offset of the next valid entry behind the one at off.
RECURSIVE ext4_dir_iterator_next(_, _)
ext4_dir_iterator_next(dir, off) ==
    LET next == off + EntryAt(dir, off)[1].len
    IN  IF next >= Count(dir) * BLOCK THEN TERM
        ELSE IF EntryAt(dir, next)[1].live THEN next
        ELSE ext4_dir_iterator_next(dir, next)

---------------------------------------------------------------------------
Rewound == [off |-> TERM, must |-> {}, seen |-> {}, wrong |-> FALSE, grew |-> FALSE]

\* ext4_dir_dx_init, or a block that ext4_link gave the two dot entries.
InitDir ==
    /\ \E k \in Kinds :
          d = [indexed |-> k.indexed, max |-> k.max, names |-> k.names, scans |-> k.scans,
               blocks |-> IF k.indexed THEN <<[at |-> Dots, e |-> <<[hash |-> 0, blk |-> 1]>>, levels |-> 0], Leaf(Empty)>>
                          ELSE <<Leaf(Dots)>>]
    /\ present = {}
    /\ reader = Rewound

\* Without a block for the index itself the code releases a block it never loaded;
\* the model stops before that.
Add(n) ==
    /\ n \in d.names \ present
    /\ Count(d) < d.max \/ ~d.indexed
    /\ \E garbage \in {0, 1} :
          \E a \in {ext4_dir_add_entry(d, n, garbage)} :
              /\ d' = a.d
              /\ present' = IF a.r = "EOK" THEN present \cup {n} ELSE present
    /\ reader' = IF reader.off = TERM THEN reader ELSE [reader EXCEPT !.grew = TRUE]

Unlink(n) ==
    LET b == ext4_dir_find_entry(d, n)
    IN  /\ b >= 0
        /\ d' = [d EXCEPT !.blocks[b + 1].at = ext4_dir_remove_entry(@, n)]
        /\ present' = present \ {n}
        /\ reader' = [reader EXCEPT !.must = @ \ {n}]

Rewind == /\ d.scans /\ reader = Rewound
          /\ reader' = [Rewound EXCEPT !.off = 0, !.must = present]
          /\ UNCHANGED <<d, present>>

\* ext4_dir_entry_next: reports the entry at the saved offset, then saves the next one.
ReadNext ==
    /\ reader.off /= TERM
    /\ LET en == EntryAt(d, reader.off)
           new == IF en[1].live THEN {en[1].name} \cap Names ELSE {}
       IN  /\ en /= <<>>
           /\ reader' = [reader EXCEPT !.off = ext4_dir_iterator_next(d, reader.off),
                                       !.seen = @ \cup new,
                                       !.wrong = @ \/ ~(new \subseteq present \ reader.seen)]
    /\ UNCHANGED <<d, present>>

Close == /\ reader.off = TERM /\ reader /= Rewound
         /\ reader' = Rewound
         /\ UNCHANGED <<d, present>>

NextDir == \/ \E n \in Names : Add(n) \/ Unlink(n)
           \/ Rewind \/ ReadNext \/ Close
SpecDir == InitDir /\ [][NextDir]_dirVars

---------------------------------------------------------------------------
(* A lookup finds exactly the names that were added and not removed since, through
   every split of a leaf, of an index node and of the root, also when names of one
   hash lie in two leaves, and after calls that failed for lack of space. *)
FindsWhatWasAdded == \A n \in Names : ext4_dir_find_entry(d, n) >= 0 <=> n \in present

(* A reader that is at it while others only remove reports every name that stays,
   none twice and none that is gone, although removals merge the entry under its saved offset into
   the one before it. *)
ListsOnce ==
    reader.off = TERM /\ ~reader.grew =>
        reader.must \subseteq reader.seen /\ ~reader.wrong

(* The saved offset of a reader is always the start of an entry, written or
   removed: with names of one length no insertion covers it. *)
OffsetIsAnEntry == reader.off /= TERM => EntryAt(d, reader.off) /= <<>>
=============================================================================
