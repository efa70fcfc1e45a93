-------------------------------- MODULE MCExt4 --------------------------------
(***************************************************************************)
(* The parts of the ext4 library that are checked apart from one another,  *)
(* in one TLC run.  part says which of them a behaviour is about; v1 to v8 *)
(* are the variables of that part, and hold 0 where it has fewer.          *)
(***************************************************************************)
EXTENDS Integers, Sequences

VARIABLES part, v1, v2, v3, v4, v5, v6, v7, v8
all == <<part, v1, v2, v3, v4, v5, v6, v7, v8>>

Tags == INSTANCE Ext4JournalTags
    WITH TableSizes <- {36, 41, 48, 60}, Highs <- {0, 1}, MaxTags <- 3,
         features <- v1, size <- v2, tags <- v3, tables <- v4, read <- v5

Cache == INSTANCE Ext4Cache
    WITH lg_bcnt <- 4, cnt <- 2, MaxRef <- 1, MaxWrite <- <<1, 1, 0>>, Faults <- TRUE,
         bc <- v1, disk <- v2, write_back <- v3, bad <- v4, latest <- v5, missed <- v6

Alloc == INSTANCE Ext4Alloc
    WITH blocks_count <- 11, blocks_per_group <- 8, first_data_block <- 1,
         inodes_count <- 3, inodes_per_group <- 2, BaseMeta <- 3, Tables <- {4, 5},
         Owners <- {1}, BYTE <- 4, NEAR <- 4,
         fs <- v1, owner <- v2, dirs <- v3, inodes <- v4, answer <- v5

Inode == INSTANCE Ext4Inode
    WITH DIRECT <- 1, PerBlock <- 2, block_size <- 2, Pools <- 3 .. 18, MaxBlocks <- 10,
         ino <- v1, ptrs <- v2, used <- v3, device <- v4, file <- v5, result <- v6

\* An empty file on a fragmented disk, and one with an unwritten extent of two blocks.
Files == {[extents |-> <<>>, limit |-> 11,
           free |-> {1, 2, 3, 5, 6, 8, 10, 11, 13, 15, 17, 18, 20, 21, 23, 25}],
          [extents |-> <<[lb |-> 0, cnt |-> 4 + 2, pb |-> 1]>>, limit |-> 4,
           free |-> {4, 6, 8, 10, 12, 14, 16, 18}]}

Extent == INSTANCE Ext4Extent
    WITH MAX_LEN <- 4, RootMax <- 2, BlockMax <- 3, Images <- Files,
         t <- v1, free <- v2, image <- v3, size <- v4, content <- v5, answer <- v6

\* Three of the names have the same hash.  The directories: an index that grows to
\* two levels, a list, and a small index that is read while it changes.
FourNames == {"a", "b", "c", "d"}
Directories ==
    {[indexed |-> TRUE,  max |-> 7, names |-> FourNames, scans |-> FALSE],
     [indexed |-> FALSE, max |-> 2, names |-> {"a", "b", "c"}, scans |-> TRUE],
     [indexed |-> TRUE,  max |-> 3, names |-> {"a", "b", "c"}, scans |-> TRUE]}

Dir == INSTANCE Ext4Dir
    WITH Names <- FourNames, NameLen <- [n \in FourNames |-> 1],
         Hash <- [n \in FourNames |-> IF n = "a" THEN 2 ELSE 4],
         HDR <- 1, DOT <- 2, BLOCK <- 6, RootLimit <- 2, NodeLimit <- 3, Kinds <- Directories,
         d <- v1, present <- v2, reader <- v3

Namespace == INSTANCE Ext4Names
    WITH Inodes <- 2 .. 5, Names <- 1 .. 2, Paths <- UNION {[1 .. n -> 1 .. 2] : n \in 1 .. 3},
         Journal <- TRUE, RmShared <- FALSE, MoveBelow <- FALSE, MaxCrash <- 1,
         fs <- v1, op <- v2, wanted <- v3, crashes <- v4

IO == INSTANCE Ext4FileIO
    WITH block_size <- 2, FreeLists <- {<<2, 1>>, <<1>>, <<1, 2>>}, Handles <- {1, 2},
         Sizes <- {1, 3, 4}, Marks <- {1, 2}, MaxSize <- 4,
         file <- v1, handle <- v2, want <- v3, right <- v4, write_back <- v5

Xattr == INSTANCE Ext4Xattr
    WITH Names <- {"a", "b", "c"}, NameLen <- [a |-> 1, b |-> 1, c |-> 2], Sizes <- 0 .. 2,
         Inodes <- {0, 7}, Block <- 9, Header <- 1, Pool <- {1, 2},
         ibody <- v1, blocks <- v2, acl <- v3, peer <- v4, want <- v5, blame <- v6, result <- v7

\* Devices that end in the middle of a group, at its end, and one block behind it.
Mkfs == INSTANCE Ext4Mkfs
    WITH Lengths <- {12, 16, 17, 18, 20, 25, 32, 33, 34, 35, 36, 40, 42, 48, 49, 50, 52, 53, 54, 56,
                     57, 60, 64, 65, 72, 97},
         blocks_per_group <- 16, dsc_per_block <- 2, inodes_per_block <- 8, Inodes <- {12, 30},
         JournalBlocks <- {0, 3},
         info <- v1, aux <- v2, disk <- v3, sb <- v4, used <- v5, ninodes <- v6, pc <- v7, result <- v8

Calls == INSTANCE Ext4Calls
    WITH Threads <- {1, 2},
         locks <- v1, lock <- v2, write_back <- v3, asked <- v4, trans <- v5, pc <- v6, blame <- v7

Mounts == INSTANCE Ext4Mounts
    WITH BLOCKDEVS_COUNT <- 2, MOUNTPOINTS_COUNT <- 2, Devices <- {"a", "b"}, Points <- {<<>>, <<"x">>},
         Contents <- {"good", "no_magic", "ro_compatible", "incompatible"},
         s_bdevices <- v1, s_mp <- v2, bdev <- v3, state <- v4, blame <- v5

Structures == INSTANCE Ext4Structures
    WITH W <- 4, Sectors <- 2, Values <- {0, 3, 7, 19, 67}, MaxFields <- 3,
         blocks_per_group <- 16, Groups <- {1, 3, 4, 7, 10}, DscPerBlock <- {2, 4}, PerBlock <- {2, 4},
         InodesPerGroup <- {4, 6},
         sb <- v1, inode <- v2, want <- v3, marked <- v4, place <- v5

Bytes == INSTANCE Ext4Bytes
    WITH ph_bsize <- 2, ph_bcnt <- 3,
         Parts <- {[offset |-> 0, size |-> 6], [offset |-> 2, size |-> 4]},
         DiskSizes <- {32256, 1000000, 33000000, 264192000, 264257000, 2147483647},
         Divisions <- {0, 1, 33, 50, 100}, MaxName <- 70,
         disk <- v1, part <- v2, op <- v3

InitExt4 ==
    \/ part = "tags"    /\ Tags!InitTags        /\ v6 = 0 /\ v7 = 0 /\ v8 = 0
    \/ part = "cache"   /\ Cache!InitCache      /\ v7 = 0 /\ v8 = 0
    \/ part = "alloc"   /\ Alloc!InitAlloc      /\ v6 = 0 /\ v7 = 0 /\ v8 = 0
    \/ part = "inode"   /\ Inode!InitInode      /\ v7 = 0 /\ v8 = 0
    \/ part = "extent"  /\ Extent!InitExtent    /\ v7 = 0 /\ v8 = 0
    \/ part = "dir"     /\ Dir!InitDir          /\ v4 = 0 /\ v5 = 0 /\ v6 = 0 /\ v7 = 0 /\ v8 = 0
    \/ part = "names"   /\ Namespace!InitNames  /\ v5 = 0 /\ v6 = 0 /\ v7 = 0 /\ v8 = 0
    \/ part = "io"      /\ IO!InitIO            /\ v6 = 0 /\ v7 = 0 /\ v8 = 0
    \/ part = "xattr"   /\ Xattr!InitXattr      /\ v8 = 0
    \/ part = "mkfs"    /\ Mkfs!InitMkfs
    \/ part = "calls"   /\ Calls!InitCalls      /\ v8 = 0
    \/ part = "mounts"  /\ Mounts!InitMounts    /\ v6 = 0 /\ v7 = 0 /\ v8 = 0
    \/ part = "fields"  /\ Structures!InitFields /\ v4 = 0 /\ v5 = 0 /\ v6 = 0 /\ v7 = 0 /\ v8 = 0
    \/ part = "layout"  /\ Structures!InitLayout /\ v2 = 0 /\ v3 = 0 /\ v6 = 0 /\ v7 = 0 /\ v8 = 0
    \/ part = "bytes"   /\ Bytes!InitBytes      /\ v4 = 0 /\ v5 = 0 /\ v6 = 0 /\ v7 = 0 /\ v8 = 0

NextExt4 ==
    /\ \/ part = "tags"    /\ Tags!NextTags        /\ UNCHANGED <<v6, v7, v8>>
       \/ part = "cache"   /\ Cache!NextCache      /\ UNCHANGED <<v7, v8>>
       \/ part = "alloc"   /\ Alloc!NextAlloc      /\ UNCHANGED <<v6, v7, v8>>
       \/ part = "inode"   /\ Inode!NextInode      /\ UNCHANGED <<v7, v8>>
       \/ part = "extent"  /\ Extent!NextExtent    /\ UNCHANGED <<v7, v8>>
       \/ part = "dir"     /\ Dir!NextDir          /\ UNCHANGED <<v4, v5, v6, v7, v8>>
       \/ part = "names"   /\ Namespace!NextNames  /\ UNCHANGED <<v5, v6, v7, v8>>
       \/ part = "io"      /\ IO!NextIO            /\ UNCHANGED <<v6, v7, v8>>
       \/ part = "xattr"   /\ Xattr!NextXattr      /\ UNCHANGED v8
       \/ part = "mkfs"    /\ Mkfs!NextMkfs
       \/ part = "calls"   /\ Calls!NextCalls      /\ UNCHANGED v8
       \/ part = "mounts"  /\ Mounts!NextMounts    /\ UNCHANGED <<v6, v7, v8>>
       \/ part = "fields"  /\ Structures!NextFields /\ UNCHANGED <<v4, v5, v6, v7, v8>>
       \/ part = "layout"  /\ Structures!NextLayout /\ UNCHANGED <<v2, v3, v6, v7, v8>>
       \/ part = "bytes"   /\ Bytes!NextBytes      /\ UNCHANGED <<v4, v5, v6, v7, v8>>
    /\ UNCHANGED part

SpecExt4 == InitExt4 /\ [][NextExt4]_all
-----------------------------------------------------------------------------

\* The block cache outgrows its size only when every buffer is referenced, and what
\* was written back is on disk when write-back mode ends.
CacheFlushes == [][part = "cache" => Cache!GrowStep /\ Cache!FlushStep]_all

\* The block and inode allocators give away free ones only and fail only when there
\* are none; the free counts of groups and superblock agree with the bitmaps;
\* itable_unused never covers an inode in use.
AllocatorsAreExact ==
    part = "alloc" => /\ Alloc!BlockGivenOnce /\ Alloc!FullMeansFull
                      /\ Alloc!CountersAgree /\ Alloc!UnusedIsUnused








=============================================================================
