------------------------------ MODULE FatTable ------------------------------
(***************************************************************************)
(* The file allocation table behind its sector buffers (fat_table.c).      *)
(* The buffers are written back when they are evicted or purged; the media *)
(* may refuse to read or to write.                                          *)
(***************************************************************************)
EXTENDS Integers, Sequences, FiniteSets, FiniteSetsExt

CONSTANTS FAT_BUFFERS,
          PerSector,              \* table entries in a sector
          fat_sectors,
          rootdir_first_cluster,
          Values                  \* bound: links that callers set

VARIABLES fs,       \* the table on the media, its buffers and the FSINFO hint
          fault,    \* which accesses the media refuses: none, read or write
          links,    \* auxiliary: the links callers were told are set
          answer    \* auxiliary: the last answer, and what it should have been
tableVars == <<fs, fault, links, answer>>

LAST == -1          \* FAT32_LAST_CLUSTER
INVALID == -2       \* FAT32_INVALID_CLUSTER, as an address
INFO == fat_sectors \* the address of the FSINFO sector
Clusters == 0 .. fat_sectors * PerSector - 1

SectorOf(cluster) == cluster \div PerSector
Zeros == [k \in 0 .. PerSector - 1 |-> 0]

\* The operators below return the new fs; at is the buffer they found, 0 for NULL.
fatfs_fat_init(media) ==
    [media |-> media, next_free_cluster |-> 0, at |-> 0,
     bufs |-> [i \in 1 .. FAT_BUFFERS |-> [address |-> INVALID, dirty |-> FALSE, sector |-> Zeros]]]

fatfs_fat_writeback(s, i) ==
    IF s.bufs[i].dirty /\ fault /= "write"
    THEN [s EXCEPT !.media[s.bufs[i].address] = s.bufs[i].sector, !.bufs[i].dirty = FALSE]
    ELSE s

\* Mutant: a buffer that cannot be written back is used for the new sector all the same.
ReadSectorAnyway(s, address) ==
    LET found == {i \in DOMAIN s.bufs : s.bufs[i].address = address}
        moved == [s EXCEPT !.bufs = <<s.bufs[FAT_BUFFERS]>> \o SubSeq(s.bufs, 1, FAT_BUFFERS - 1)]
        w == fatfs_fat_writeback(moved, 1)
    IN  IF found /= {} THEN [s EXCEPT !.at = Min(found)]
        ELSE IF fault = "read" THEN [w EXCEPT !.bufs[1].address = INVALID, !.at = 0]
        ELSE [w EXCEPT !.bufs[1] = [address |-> address, dirty |-> FALSE, sector |-> w.media[address]],
                       !.at = 1]

\* A sector that is in no buffer takes the place of the last one, which moves to the
\* front of the list.
fatfs_fat_read_sector(s, address) ==
    LET found == {i \in DOMAIN s.bufs : s.bufs[i].address = address}
        moved == [s EXCEPT !.bufs = <<s.bufs[FAT_BUFFERS]>> \o SubSeq(s.bufs, 1, FAT_BUFFERS - 1)]
        w == fatfs_fat_writeback(moved, 1)
    IN  IF found /= {} THEN [s EXCEPT !.at = Min(found)]
        ELSE IF w.bufs[1].dirty THEN [w EXCEPT !.at = 0]
        ELSE IF fault = "read" THEN [w EXCEPT !.bufs[1].address = INVALID, !.at = 0]
        ELSE [w EXCEPT !.bufs[1] = [address |-> address, dirty |-> FALSE, sector |-> w.media[address]],
                       !.at = 1]

\* Stops at the first buffer it cannot write; at = 0 is failure.
RECURSIVE Purge(_, _)
Purge(s, i) ==
    IF i > FAT_BUFFERS THEN [s EXCEPT !.at = 1]
    ELSE LET w == fatfs_fat_writeback(s, i)
         IN  IF w.bufs[i].dirty THEN [w EXCEPT !.at = 0] ELSE Purge(w, i + 1)
fatfs_fat_purge(s) == Purge(s, 1)

Entry(s, cluster) == s.bufs[s.at].sector[cluster % PerSector]

\* A link that cannot be read counts as the end of its chain.
fatfs_find_next_cluster(s, cluster) ==
    LET c == IF cluster = 0 THEN 2 ELSE cluster
        r == fatfs_fat_read_sector(s, SectorOf(c))
    IN  [fs |-> r, res |-> IF r.at = 0 THEN LAST ELSE Entry(r, c)]

RECURSIVE BlankFrom(_, _)
BlankFrom(s, cluster) ==
    LET r == fatfs_fat_read_sector(s, SectorOf(cluster))
    IN  IF SectorOf(cluster) >= fat_sectors THEN [fs |-> s, res |-> 0]
        ELSE IF r.at = 0 THEN [fs |-> r, res |-> 0]
        ELSE IF Entry(r, cluster) = 0 THEN [fs |-> r, res |-> cluster]
        ELSE BlankFrom(r, cluster + 1)
fatfs_find_blank_cluster(s) == BlankFrom(s, rootdir_first_cluster)

fatfs_fat_set_cluster(s, cluster, next) ==
    LET r == fatfs_fat_read_sector(s, SectorOf(cluster))
    IN  IF r.at = 0 THEN [fs |-> r, res |-> 0]
        ELSE [fs |-> [r EXCEPT !.bufs[r.at].sector[cluster % PerSector] = next,
                               !.bufs[r.at].dirty = TRUE],
              res |-> 1]

RECURSIVE CountFrom(_, _, _)
CountFrom(s, i, n) ==
    LET r == fatfs_fat_read_sector(s, i)
    IN  IF i = fat_sectors THEN [fs |-> s, res |-> n]
        ELSE IF r.at = 0 THEN [fs |-> r, res |-> n]
        ELSE CountFrom(r, i + 1,
                       n + Cardinality({k \in 0 .. PerSector - 1 : r.bufs[r.at].sector[k] = 0}))
fatfs_count_free_clusters(s) == CountFrom(s, 0, 0)

\* The FSINFO sector passes through a buffer of the table and leaves it invalid.
fatfs_set_fs_info_next_free_cluster(s, value) ==
    LET r == fatfs_fat_read_sector(s, INFO)
        new == [r.bufs[r.at].sector EXCEPT ![0] = value]
        w == [r EXCEPT !.bufs[r.at] = [address |-> INVALID, dirty |-> FALSE, sector |-> new],
                       !.next_free_cluster = value]
    IN  IF r.at = 0 THEN r
        ELSE IF fault = "write" THEN w ELSE [w EXCEPT !.media[INFO] = new]
-----------------------------------------------------------------------------
\* The first clusters are reserved, the third is the root directory.
Formatted == [c \in Clusters |-> IF c <= 2 THEN LAST ELSE 0]

InitTable ==
    /\ fs = fatfs_fat_init([a \in 0 .. INFO |->
                [k \in 0 .. PerSector - 1 |->
                    IF a = INFO THEN 0 ELSE Formatted[a * PerSector + k]]])
    /\ fault = "none"
    /\ links = Formatted
    /\ answer = <<0, 0>>

SetCluster(cluster, next) ==
    \E r \in {fatfs_fat_set_cluster(fs, cluster, next)} :
        /\ fs' = [r.fs EXCEPT !.at = 0]
        /\ links' = IF r.res = 1 THEN [links EXCEPT ![cluster] = next] ELSE links
        /\ answer' = <<0, 0>>
        /\ UNCHANGED fault

\* A failing media excuses an answer.
Answers(r, right) ==
    /\ fs' = [r.fs EXCEPT !.at = 0]
    /\ answer' = IF fault = "none" THEN <<r.res, right>> ELSE <<0, 0>>
    /\ UNCHANGED <<fault, links>>

FindNext(cluster) == \E r \in {fatfs_find_next_cluster(fs, cluster)} : Answers(r, links[cluster])

FindBlank ==
    LET blank == {c \in Clusters : c >= rootdir_first_cluster /\ links[c] = 0}
    IN  \E r \in {fatfs_find_blank_cluster(fs)} :
            Answers(r, IF blank = {} THEN 0 ELSE Min(blank))

CountFree ==
    \E r \in {fatfs_count_free_clusters(fs)} :
        Answers(r, Cardinality({c \in Clusters : links[c] = 0}))

SetInfo == Answers([fs |-> fatfs_set_fs_info_next_free_cluster(fs, LAST), res |-> 0], 0)

\* After a purge that succeeded the media holds every link.
PurgeTable ==
    \E s \in {fatfs_fat_purge(fs)} :
        Answers([fs |-> s, res |-> IF s.at = 0 THEN links
                                   ELSE [c \in Clusters |-> s.media[SectorOf(c)][c % PerSector]]],
                links)

Fail(f) == fault' = f /\ fault /= f /\ UNCHANGED <<fs, links, answer>>

NextTable ==
    \/ \E c \in Clusters \ {0, 1} : FindNext(c) \/ \E v \in Values : SetCluster(c, v)
    \/ FindBlank \/ CountFree \/ SetInfo \/ PurgeTable
    \/ \E f \in {"none", "read", "write"} : Fail(f)

SpecTable == InitTable /\ [][NextTable]_tableVars
-----------------------------------------------------------------------------
\* Every link that fatfs_fat_set_cluster said it set is kept, in the one buffer of
\* its sector or, when there is none, on the media, however buffers are evicted and
\* whichever accesses fail; and while the media works every answer is right.
TableKeepsLinks ==
    /\ \A c \in Clusters :
          LET b == {i \in DOMAIN fs.bufs : fs.bufs[i].address = SectorOf(c)}
          IN  /\ Cardinality(b) <= 1
              /\ links[c] = IF b = {} THEN fs.media[SectorOf(c)][c % PerSector]
                            ELSE fs.bufs[Min(b)].sector[c % PerSector]
    /\ \A i \in DOMAIN fs.bufs :
          ~fs.bufs[i].dirty => fs.bufs[i].address \in {INVALID, INFO}
                               \/ fs.bufs[i].sector = fs.media[fs.bufs[i].address]
    /\ answer[1] = answer[2]
=============================================================================
