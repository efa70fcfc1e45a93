------------------------------ MODULE FatSector ------------------------------
(***************************************************************************)
(* The current sector of a FAT volume (fat_access.c): the one buffer every  *)
(* search of a directory reads through and every change of an entry is     *)
(* written from, while transfers may fail.                                 *)
(***************************************************************************)
EXTENDS Integers, Sequences

CONSTANTS sectors_per_cluster, rootdir_sectors,
          Clusters,   \* the chain of a directory, as a sequence of clusters
          Values      \* what a sector can hold

VARIABLES disk, currentsector, fault, result, failed
sectorVars == <<disk, currentsector, fault, result, failed>>

NONE == -1
\* The root directory of FAT16 lies before the first cluster.
fatfs_lba_of_cluster(c) == rootdir_sectors + (c - 2) * sectors_per_cluster
Lba == 0 .. fatfs_lba_of_cluster(Clusters[Len(Clusters)]) + sectors_per_cluster - 1

\* The address of a sector of a directory, NONE beyond its end.  Cluster 0 is FAT16's root.
AddressOf(start, offset) ==
    IF start = 0 THEN IF offset < rootdir_sectors THEN offset ELSE NONE
    ELSE IF offset \div sectors_per_cluster >= Len(Clusters) THEN NONE
    ELSE fatfs_lba_of_cluster(Clusters[(offset \div sectors_per_cluster) + 1]) + (offset % sectors_per_cluster)

\* A transfer that fails leaves the buffer as it is, though its address is the new one.
ReadMedia(lba) ==
    /\ currentsector' = [address |-> lba, sector |-> IF fault THEN currentsector.sector ELSE disk[lba]]
    /\ result' = ~fault
    /\ failed' = IF fault THEN failed \cup {lba} ELSE failed \ {lba}
    /\ UNCHANGED <<disk, fault>>

\* Mutant: a new address does not make the sector be read.
ReaderTrusts(start, offset) ==
    \E lba \in {AddressOf(start, offset)} :
        IF lba = NONE THEN result' = FALSE /\ UNCHANGED <<disk, currentsector, fault, failed>>
        ELSE IF currentsector.address /= NONE
        THEN /\ result' = TRUE /\ currentsector' = [currentsector EXCEPT !.address = lba]
             /\ UNCHANGED <<disk, fault, failed>>
        ELSE ReadMedia(lba)

fatfs_sector_reader(start, offset) ==
    \E lba \in {AddressOf(start, offset)} :
        IF lba = NONE THEN result' = FALSE /\ UNCHANGED <<disk, currentsector, fault, failed>>
        ELSE IF lba = currentsector.address
        THEN result' = TRUE /\ UNCHANGED <<disk, currentsector, fault, failed>>
        ELSE ReadMedia(lba)

\* fatfs_read_sector reads always.
fatfs_read_sector(start, offset) ==
    \E lba \in {AddressOf(start, offset)} : lba /= NONE /\ ReadMedia(lba)

\* An entry of the current sector is changed and the sector written where it came from
\* (fatfs_update_file_length, fatfs_mark_file_deleted) or to a place given (fatfs_write_sector).
WriteCurrent(lba, v) ==
    /\ lba /= NONE
    /\ currentsector' = [address |-> lba, sector |-> v]
    /\ disk' = IF fault THEN disk ELSE [disk EXCEPT ![lba] = v]
    /\ result' = ~fault
    /\ failed' = IF fault THEN failed \cup {lba} ELSE failed \ {lba}
    /\ UNCHANGED fault
UpdateEntry(v) ==
    /\ result /\ currentsector.address /= NONE /\ v /= currentsector.sector
    /\ WriteCurrent(currentsector.address, v)
fatfs_write_sector(start, offset, v) == WriteCurrent(AddressOf(start, offset), v)

Fault == fault' = ~fault /\ UNCHANGED <<disk, currentsector, result, failed>>

InitSector ==
    /\ disk \in [Lba -> {0}] /\ currentsector = [address |-> NONE, sector |-> 0]
    /\ fault = FALSE /\ result = FALSE /\ failed = {}
Places == ({0} \X (0 .. rootdir_sectors)) \cup ({2} \X (0 .. Len(Clusters) * sectors_per_cluster))
NextSector ==
    \/ \E p \in Places :
          \/ fatfs_sector_reader(p[1], p[2]) \/ fatfs_read_sector(p[1], p[2])
          \/ \E v \in Values : fatfs_write_sector(p[1], p[2], v)
    \/ \E v \in Values : UpdateEntry(v)
    \/ Fault
SpecSector == InitSector /\ [][NextSector]_sectorVars

\* The current sector holds what the disk holds at its address, so that an entry is looked up, and changed,
\* in the sector it is in, unless the last transfer to or from that address
\* failed: then the buffer is taken for the sector although it is not.
CurrentSectorIsTrue ==
    currentsector.address \notin failed \cup {NONE} => currentsector.sector = disk[currentsector.address]
=============================================================================
