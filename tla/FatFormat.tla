------------------------------ MODULE FatFormat ------------------------------
(***************************************************************************)
(* Formatting a volume (fat_format.c) and mounting it again (fatfs_init of *)
(* fat_access.c).  The volumes have their real sizes; of the sectors only  *)
(* the fields of the boot sector are kept and which areas were cleared.    *)
(* A write may fail, which ends the formatting there.                      *)
(***************************************************************************)
EXTENDS Integers, Sequences, FiniteSets, FiniteSetsExt

CONSTANTS Sizes,      \* numbers of sectors of the volumes
          Foreign     \* volumes made by other systems: [first, boot]

VARIABLES disk,       \* [mbr, boot, fat, root]: the boot sector and the cleared areas
          fs,         \* struct fatfs, <<>> when nothing is mounted
          made,       \* auxiliary: what the last successful formatting left in fs, or <<>>
          result
formatVars == <<disk, fs, made, result>>

SECTOR == 512
ROOT_ENTRIES == 512
GARBAGE == -1          \* bytes of other fields read as a number

\* <<sectors, sectors_per_cluster>>
_cluster_size_table16 ==
    <<<<32680, 2>>, <<262144, 4>>, <<524288, 8>>, <<1048576, 16>>, <<2097152, 32>>,
      <<4194304, 64>>, <<8388608, 128>>>>
\* The limit of the last row is 2^32 - 1.
_cluster_size_table32 ==
    <<<<532480, 1>>, <<16777216, 8>>, <<33554432, 16>>, <<67108864, 32>>, <<2147483647, 64>>>>

fatfs_calc_cluster_size(sectors, is_fat32) ==
    LET table == IF is_fat32 THEN _cluster_size_table32 ELSE _cluster_size_table16
        rows == {i \in DOMAIN table : sectors <= table[i][1]}
    IN  IF rows = {} THEN 0 ELSE table[Min(rows)][2]

\* Mutant: the table has no entries for the two clusters that do not exist.
FatSectorsTight(sectors, spc, per_sector) == (sectors \div spc) \div per_sector

\* The sectors of a table with per_sector entries in each.
fat_sectors(sectors, spc, per_sector) == ((sectors \div spc) + 1) \div per_sector + 1

\* The fields fatfs_init reads.  In a FAT16 boot sector the volume's name
\* stands where a FAT32 one has the root cluster.
BootSector16(sectors, spc) ==
    [bytes |-> SECTOR, spc |-> spc, reserved |-> 8, fats |-> 2, root_entries |-> ROOT_ENTRIES,
     total16 |-> 0, fat16 |-> fat_sectors(sectors, spc, SECTOR \div 2),
     total32 |-> sectors, fat32 |-> GARBAGE, root_cluster |-> GARBAGE, signed |-> TRUE]
BootSector32(sectors, spc) ==
    [bytes |-> SECTOR, spc |-> spc, reserved |-> 32, fats |-> 2, root_entries |-> 0,
     total16 |-> 0, fat16 |-> 0,
     total32 |-> sectors, fat32 |-> fat_sectors(sectors, spc, SECTOR \div 4), root_cluster |-> 2,
     signed |-> TRUE]

fatfs_create_boot_sector(sectors, is_fat32) ==
    LET spc == fatfs_calc_cluster_size(sectors, is_fat32)
    IN  IF is_fat32 THEN BootSector32(sectors, spc) ELSE BootSector16(sectors, spc)

FatSize(b) == IF b.fat16 /= 0 THEN b.fat16 ELSE b.fat32
RootSectors(entries) == (entries * 32 + SECTOR - 1) \div SECTOR

\* The fields of struct fatfs that follow from a boot sector at lba.
Layout(b, lba, type, root) ==
    [fat_type |-> type, lba_begin |-> lba, sectors_per_cluster |-> b.spc,
     root_entry_count |-> b.root_entries, fat_sectors |-> FatSize(b),
     rootdir_first_cluster |-> root,
     rootdir_first_sector |-> b.reserved + b.fats * FatSize(b),
     rootdir_sectors |-> RootSectors(b.root_entries),
     fat_begin_lba |-> lba + b.reserved,
     cluster_begin_lba |-> lba + b.reserved + b.fats * FatSize(b)]

fatfs_lba_of_cluster(f, n) ==
    f.cluster_begin_lba + (IF f.fat_type = 16 THEN (f.root_entry_count * 32) \div SECTOR ELSE 0)
        + (n - 2) * f.sectors_per_cluster

\* <<first, count>> of the sectors that are cleared.
fatfs_erase_fat(f) == <<f.fat_begin_lba, 2 * f.fat_sectors>>
fatfs_erase_sectors(f) ==
    IF f.fat_type = 16 THEN <<f.lba_begin + f.rootdir_first_sector, f.rootdir_sectors>>
    ELSE <<fatfs_lba_of_cluster(f, f.rootdir_first_cluster), f.sectors_per_cluster>>

\* The boot sector comes first, then (for FAT32, in a sector nobody reads again) the
\* FSInfo sector, the tables and the root; written is how many of them succeed.
FormatWith(b, f, written) ==
    /\ disk' = [disk EXCEPT !.mbr = IF written >= 1 THEN <<>> ELSE @,
                            !.boot = IF written >= 1 THEN b ELSE @,
                            !.fat = IF written >= 3 THEN fatfs_erase_fat(f) ELSE @,
                            !.root = IF written = 4 THEN fatfs_erase_sectors(f) ELSE @]
    /\ made' = IF written = 4 THEN f ELSE <<>>
    /\ result' = IF written = 4 THEN "formatted" ELSE "failed"
    /\ fs' = <<>>
fatfs_format_fat16(n, written) ==
    LET b == fatfs_create_boot_sector(n, FALSE)
    IN  /\ written /= 2 /\ FormatWith(b, Layout(b, 0, 16, 0), written)
fatfs_format_fat32(n, written) ==
    LET b == fatfs_create_boot_sector(n, TRUE)
    IN  FormatWith(b, Layout(b, 0, 32, 2), written)
fatfs_format(n, written) ==
    IF n <= 4194304 THEN fatfs_format_fat16(n, written) ELSE fatfs_format_fat32(n, written)

\* The clusters behind the tables and the FAT16 root; unsigned, so a volume that is too small
\* for them seems huge.
CountOfClusters(b) ==
    LET total == IF b.total16 /= 0 THEN b.total16 ELSE b.total32
        used == b.reserved + b.fats * FatSize(b) + RootSectors(b.root_entries)
    IN  IF total < used THEN 2147483647 ELSE (total - used) \div b.spc

\* A master boot record names the first sector of the volume; without one it is 0.
fatfs_init ==
    LET b == disk.boot
        lba == IF disk.mbr = <<>> THEN 0 ELSE disk.mbr[1]
        n == CountOfClusters(b)
        type == IF n < 65525 THEN 16 ELSE 32
    IN  /\ disk.boot /= <<>>
        /\ IF ~b.signed THEN fs' = <<>> /\ result' = "FAT_INIT_INVALID_SIGNATURE"
           ELSE IF b.bytes /= SECTOR THEN fs' = <<>> /\ result' = "FAT_INIT_INVALID_SECTOR_SIZE"
           ELSE IF b.spc = 0 \/ n < 4085 THEN fs' = <<>> /\ result' = "FAT_INIT_WRONG_FILESYS_TYPE"
           ELSE /\ fs' = Layout(b, lba, type, IF type = 16 THEN 0 ELSE b.root_cluster)
                /\ result' = "FAT_INIT_OK"
        /\ UNCHANGED <<disk, made>>

InitFormat ==
    /\ \/ disk = [mbr |-> <<>>, boot |-> <<>>, fat |-> <<>>, root |-> <<>>]
       \/ \E v \in Foreign :
             disk = [mbr |-> IF v.first = 0 THEN <<>> ELSE <<v.first>>, boot |-> v.boot,
                     fat |-> <<>>, root |-> <<>>]
    /\ fs = <<>> /\ made = <<>> /\ result = ""

NextFormat ==
    \/ \E n \in Sizes, written \in 0 .. 4 : fatfs_format(n, written)
    \/ fatfs_init

SpecFormat == InitFormat /\ [][NextFormat]_formatVars
-----------------------------------------------------------------------------
Total(b) == IF b.total16 /= 0 THEN b.total16 ELSE b.total32

\* What is mounted lies within its volume: the tables, the FAT16 root and the
\* clusters follow one another, the last cluster ends before the volume does, and
\* the tables have an entry for every cluster.
WellLaid(f, b) ==
    LET n == CountOfClusters(b)
    IN  /\ f.fat_begin_lba > f.lba_begin
        /\ f.cluster_begin_lba >= f.fat_begin_lba + f.fat_sectors
        /\ fatfs_lba_of_cluster(f, 2) >= f.lba_begin + f.rootdir_first_sector + f.rootdir_sectors
        /\ fatfs_lba_of_cluster(f, n + 2) <= f.lba_begin + Total(b)
        /\ (n + 2) <= f.fat_sectors * (IF f.fat_type = 16 THEN 256 ELSE 128)

\* Sizes that are formatted as FAT16 but have so many clusters that fatfs_init takes
\* them for FAT32, with the root directory at a cluster made of the volume's name.
Misread(n) == n \in 4194152 .. 4194304

\* A volume that was formatted without an error and is then mounted has the layout the
\* formatting wrote, with the tables and the root directory where they
\* were cleared, for every size that has enough clusters and is not Misread;
\* and whatever is mounted is well laid out, volumes of other systems included.
FatFormatMounts ==
    /\ (made /= <<>> /\ result = "FAT_INIT_OK") =>
          \/ /\ fs = made
             /\ disk.fat = fatfs_erase_fat(fs)
             /\ disk.root = fatfs_erase_sectors(fs)
          \/ Misread(disk.boot.total32)
    /\ (made /= <<>> /\ fs = <<>> /\ result /= "formatted") => CountOfClusters(disk.boot) < 4085
    /\ fs /= <<>> /\ ~Misread(disk.boot.total32) => WellLaid(fs, disk.boot)
=============================================================================
