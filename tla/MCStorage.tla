------------------------------ MODULE MCStorage ------------------------------
(***************************************************************************)
(* The FAT file system and the disk drivers, layer by layer, in one TLC     *)
(* run.  part says which layer a behaviour is about; v1 to v8 are the      *)
(* variables of that part, and hold 0 where it has fewer.                  *)
(***************************************************************************)
EXTENDS Integers, Sequences

VARIABLES part, v1, v2, v3, v4, v5, v6, v7, v8
all == <<part, v1, v2, v3, v4, v5, v6, v7, v8>>

Table == INSTANCE FatTable
    WITH FAT_BUFFERS <- 1, PerSector <- 2, fat_sectors <- 3, rootdir_first_cluster <- 2, Values <- {0, 5},
         fs <- v1, fault <- v2, links <- v3, answer <- v4

Sector == INSTANCE FatSector
    WITH sectors_per_cluster <- 2, rootdir_sectors <- 1, Clusters <- <<2, 4>>, Values <- {1},
         disk <- v1, currentsector <- v2, fault <- v3, result <- v4, failed <- v5

\* The three names take one, two and three slots besides the short entry; a and b have the same short name.
Dir == INSTANCE FatDir
    WITH Names <- {"a", "b", "c"}, TextSlots <- [a |-> 1, b |-> 2, c |-> 3], Base <- [a |-> 1, b |-> 1, c |-> 2],
         SLOTS <- 4, MaxClusters <- 2, MaxTail <- 3, MaxSize <- 1,
         slots <- v1, present <- v2, reader <- v3

Tree == INSTANCE FatTree
    WITH Names <- {"a", "b"}, Clusters <- 2 .. 5, MAX_OPEN_FILES <- 2, MaxDepth <- 3, MAX <- 1,
         fat16 <- v1, dirs <- v2, used <- v3, handles <- v4, made <- v5, waste <- v6, hung <- v7

\* Two files on three clusters: one is written at will, in pieces of one byte and of three, the other
\* appended to.
Files == INSTANCE FatFiles
    WITH SECTOR <- 2, sectors_per_cluster <- 1, Clusters <- 2 .. 5, MAX_OPEN_FILES <- 2, Names <- {"a", "b"},
         Modes <- [a |-> {"w+", "a"}, b |-> {"a"}], Lengths <- [a |-> {1, 3}, b |-> {2}],
         Marks <- [a |-> {1, 2}, b |-> {3}], MaxLength <- [a |-> 3, b |-> 2], SeekDirty <- FALSE,
         fat <- v1, data <- v2, dir <- v3, open <- v4, want <- v5, lost <- v6, right <- v7

\* Boot sectors others made: FAT16, FAT32, a floppy, sectors of 2048 bytes, no
\* signature, one FAT.
Boot(bytes, spc, reserved, fats, entries, total16, fat16, total32, fat32, root, signed) ==
    [bytes |-> bytes, spc |-> spc, reserved |-> reserved, fats |-> fats, root_entries |-> entries,
     total16 |-> total16, fat16 |-> fat16, total32 |-> total32, fat32 |-> fat32,
     root_cluster |-> root, signed |-> signed]
ForeignBoots ==
    {Boot(512, 4, 1, 2, 512, 65000, 64, 0, -1, -1, TRUE), Boot(512, 8, 32, 2, 0, 0, 0, 4000000, 3900, 2, TRUE),
     Boot(512, 1, 1, 2, 224, 2880, 9, 0, -1, -1, TRUE), Boot(2048, 1, 1, 2, 512, 65000, 64, 0, -1, -1, TRUE),
     Boot(512, 4, 1, 2, 512, 65000, 64, 0, -1, -1, FALSE), Boot(512, 4, 1, 1, 512, 0, 256, 262000, -1, -1, TRUE)}
\* The sizes are the bounds in the tables of cluster sizes, each with its neighbours.
Format == INSTANCE FatFormat
    WITH Sizes <- {8000, 8243, 8244, 32680, 32681, 262144, 262145, 524288, 524289, 1048576, 1048577, 2097152,
                   2097153, 4194151, 4194152, 4194304, 4194305, 16777216, 16777217, 33554433, 67108865, 2147483647},
         Foreign <- [first : {0, 63, 2048}, boot : ForeignBoots],
         disk <- v1, fs <- v2, made <- v3, result <- v4

\* Entries of two characters, short names of three and one.
Conversions == INSTANCE FatNames
    WITH LFN_LENGTH <- 2, PARTIAL <- 3, EXT <- 1, MaxName <- 4, MaxOther <- 2, Tails <- {1, 9, 10},
         Stamps <- {<<h, m, s, d, mo, y>> : h \in {0, 23}, m \in {0, 59}, s \in {0, 1, 59},
                                            d \in {1, 31}, mo \in {1, 12}, y \in {1980, 2107}},
         name <- v1, other <- v2, stamp <- v3

\* Two ports with everything check_type tells apart; the memory holds a command of two
\* table entries.
Ahci == INSTANCE Ahci
    WITH Ports <- {1, 2},
         Kinds <- {<<"ATA", "ATAPI">>, <<"unimplemented", "ATA">>, <<"SEMB", "PM">>, <<"asleep", "absent">>},
         ENTRY <- 2, HUGE <- 9, DiskSize <- 4, MemSize <- 6, MaxCount <- 4, MaxCommands <- 2, TIMEOUT <- 2,
         hba <- v1, kind <- v2, slot <- v3, disk <- v4, mem <- v5, devices <- v6, drv <- v7, before <- v8

\* Two channels with two units each.  The sectors are the bounds of the ways to address one:
\* heads and cylinders, 24, 28 and 48 bits.
Unit(kind, size, lba) == [kind |-> kind, size |-> size, lba |-> lba]
Channels(a, b, c, d) == [u \in {0, 1} \X {0, 1} |-> <<a, b, c, d>>[2 * u[1] + u[2] + 1]]
None == Unit("none", 0, FALSE)
Cd == Unit("ATAPI", 0, TRUE)
Chs == Unit("ATA", 2000, FALSE)
Lba == Unit("ATA", 2^28 + 100, TRUE)
Ide == INSTANCE Ide
    WITH Lbas <- {0, 1, 62, 63, 64, 1007, 1008, 2000, 2^24 - 1, 2^24, 2^28 - 1, 2^28, 2^28 + 1},
         MaxRequests <- 2, MaxCount <- 2, Marks <- {"a"},
         Machines <- {Channels(Chs, None, Lba, Cd), Channels(None, Lba, Unit("unknown", 0, FALSE), Chs),
                      Channels(Cd, Chs, None, None)},
         attached <- v1, ide <- v2, cur <- v3, disk <- v4, last <- v5

Drive(type, num, fat) == [type |-> type, num |-> num, fat |-> fat]
Vfs == INSTANCE Vfs
    WITH Machines <- {<<Drive("IDE", 0, TRUE), Drive("AHCI", 1, FALSE)>>, <<Drive("AHCI", 0, TRUE)>>, <<>>},
         Names <- {"a", "b"}, Dirs <- {<<>>, <<"a">>}, MAX_OPEN <- 3,
         st <- v1, handles <- v2, open_files <- v3, cwd <- v4, stale <- v5

InitStorage ==
    \/ part = "table"   /\ Table!InitTable         /\ v5 = 0 /\ v6 = 0 /\ v7 = 0 /\ v8 = 0
    \/ part = "sector"  /\ Sector!InitSector       /\ v6 = 0 /\ v7 = 0 /\ v8 = 0
    \/ part = "dir"     /\ Dir!InitDir             /\ v4 = 0 /\ v5 = 0 /\ v6 = 0 /\ v7 = 0 /\ v8 = 0
    \/ part = "tree"    /\ Tree!InitTree           /\ v8 = 0
    \/ part = "files"   /\ Files!InitFiles         /\ v8 = 0
    \/ part = "format"  /\ Format!InitFormat       /\ v5 = 0 /\ v6 = 0 /\ v7 = 0 /\ v8 = 0
    \/ part = "names"   /\ Conversions!InitNames   /\ v4 = 0 /\ v5 = 0 /\ v6 = 0 /\ v7 = 0 /\ v8 = 0
    \/ part = "ahci"    /\ Ahci!InitAhci
    \/ part = "ide"     /\ Ide!InitIde             /\ v6 = 0 /\ v7 = 0 /\ v8 = 0
    \/ part = "vfs"     /\ Vfs!InitVfs             /\ v6 = 0 /\ v7 = 0 /\ v8 = 0

NextStorage ==
    /\ \/ part = "table"   /\ Table!NextTable         /\ UNCHANGED <<v5, v6, v7, v8>>
       \/ part = "sector"  /\ Sector!NextSector       /\ UNCHANGED <<v6, v7, v8>>
       \/ part = "dir"     /\ Dir!NextDir             /\ UNCHANGED <<v4, v5, v6, v7, v8>>
       \/ part = "tree"    /\ Tree!NextTree           /\ UNCHANGED v8
       \/ part = "files"   /\ Files!NextFiles         /\ UNCHANGED v8
       \/ part = "format"  /\ Format!NextFormat       /\ UNCHANGED <<v5, v6, v7, v8>>
       \/ part = "names"   /\ Conversions!NextNames   /\ UNCHANGED <<v4, v5, v6, v7, v8>>
       \/ part = "ahci"    /\ Ahci!NextAhci
       \/ part = "ide"     /\ Ide!NextIde             /\ UNCHANGED <<v6, v7, v8>>
       \/ part = "vfs"     /\ Vfs!NextVfs             /\ UNCHANGED <<v6, v7, v8>>
    /\ UNCHANGED part

SpecStorage == InitStorage /\ [][NextStorage]_all
-----------------------------------------------------------------------------
\* The buffers of the FAT and of the directories hold what the media holds, or what was last
\* written to them.
FatBuffersAreTrue ==
    /\ part = "table" => Table!TableKeepsLinks
    /\ part = "sector" => Sector!CurrentSectorIsTrue

\* A name leads to its own file and no other, in the slots of a directory and along a path,
\* and survives its conversions.
FatNamesAreKept ==
    /\ part = "dir" => Dir!FatDirKeepsNames /\ Dir!ListsEveryFile
    /\ part = "tree" => Tree!FatTreeIsSound
    /\ part = "names" => Conversions!FatNamesRoundTrip


\* A volume that was formatted is mounted as what it is.
FatFormatMounts == part = "format" => Format!FatFormatMounts


=============================================================================
