---------------------------------- MODULE Ide ----------------------------------
(***************************************************************************)
(* The IDE driver (ide.c): finding the drives of the two channels, and PIO  *)
(* transfers by CHS, 28-bit and 48-bit addresses.  The driver polls with    *)
(* interrupts of the device off, so a request is one step; the device may   *)
(* fail at any sector of it.  Disks are known at the sectors Lbas.          *)
(***************************************************************************)
EXTENDS Integers, Sequences, FiniteSets, FiniteSetsExt

CONSTANTS Lbas,       \* the sectors the model knows of
          Machines,   \* what is attached: functions from Units
          MaxCount,   \* bound on the sectors of a request; num_sectors has 8 bits
          MaxRequests,
          Marks       \* contents written

Units == {0, 1} \X {0, 1}      \* channel, master or slave
MAXIMUM_IDE_DEVICES == 5

VARIABLES attached,  \* unit -> [kind, size, lba]: kind none, unknown, ATAPI or ATA; lba: LBA is supported
          ide,       \* g_ide_devices[0 .. count - 1]
          cur,       \* _drive_num
          disk,      \* unit -> sector -> content
          last       \* the last request: op, dev, lba, count, data, result, fault, and the disks before it
ideVars == <<attached, ide, cur, disk, last>>

NoRequest == [op |-> "none", dev |-> 0, lba |-> 0, count |-> 0, data |-> <<>>, result |-> 0,
              fault |-> FALSE, disk |-> disk, n |-> 0]

\* The name of what is on a disk to begin with.
Old(u) == <<"A", "B", "C", "D">>[2 * u[1] + u[2] + 1]

\* The order in which ide_init probes.
Probed == <<<<0, 0>>, <<0, 1>>, <<1, 0>>, <<1, 1>>>>

\* A unit that answers ERR to IDENTIFY and has no packet signature is skipped.
Found(m) == SelectSeq(Probed, LAMBDA u : m[u].kind \in {"ATA", "ATAPI"})

ide_init ==
    /\ ide = <<>>
    /\ \E us \in {Found(attached)} :
          ide' = [i \in DOMAIN us |-> [unit |-> us[i], type |-> attached[us[i]].kind,
                                       size |-> attached[us[i]].size, lba |-> attached[us[i]].lba]]
    /\ UNCHANGED <<attached, cur, disk, last>>

\* valid_drive_nums holds the numbers ide_init gave.
select_ide_drive ==
    /\ \E n \in 0 .. 4 : cur' = IF n + 1 \in DOMAIN ide THEN n ELSE cur
    /\ UNCHANGED <<attached, ide, disk, last>>

-----------------------------------------------------------------------------
SECTORS == 63
HEADS == 16
Byte(x, k) == (x \div 256 ^ k) % 256


\* The address registers of a request.
Address(dev, lba) ==
    IF lba >= 2 ^ 28
    THEN [mode |-> "LBA48", io |-> <<Byte(lba, 0), Byte(lba, 1), Byte(lba, 2), Byte(lba, 3)>>, head |-> 0]
    ELSE IF dev.lba
    THEN [mode |-> "LBA28", io |-> <<Byte(lba, 0), Byte(lba, 1), Byte(lba, 2), 0>>,
          head |-> (lba \div 2 ^ 24) % 16]
    ELSE LET sect == (lba % SECTORS) + 1
             cyl == ((lba + 1 - sect) \div (HEADS * SECTORS)) % 2 ^ 16
         IN  [mode |-> "CHS", io |-> <<sect, cyl % 256, cyl \div 256, 0>>,
              head |-> ((lba + 1 - sect) % (HEADS * SECTORS)) \div SECTORS]

\* The sector the drive finds in its registers.
Decoded(r) ==
    CASE r.mode = "LBA48" -> r.io[1] + 256 * (r.io[2] + 256 * (r.io[3] + 256 * r.io[4]))
      [] r.mode = "LBA28" -> r.io[1] + 256 * (r.io[2] + 256 * (r.io[3] + 256 * r.head))
      [] r.mode = "CHS" -> ((r.io[2] + 256 * r.io[3]) * HEADS + r.head) * SECTORS + r.io[1] - 1

\* What a drive shows when it stops: ERR with a bit of its error register or none, DF, or no DRQ.
Stops == {[status |-> "ERR", error |-> e] :
             e \in {"AMNF", "TK0NF", "ABRT", "MCR", "IDNF", "MC", "UNC", "BBK", "none"}}
         \cup {[status |-> s, error |-> "none"] : s \in {"DF", "no DRQ"}}
Ready == [status |-> "DRQ", error |-> "none"]

ide_polling(d) == CASE d.status = "ERR" -> 2 [] d.status = "DF" -> 1 [] d.status = "no DRQ" -> 3 [] OTHER -> 0

\* The code for the caller; an error without a known bit stays 2.
ide_print_error(d, err) ==
    CASE err = 1 -> 19 [] err = 3 -> 23
      [] err = 2 -> (CASE d.error = "AMNF" -> 7 [] d.error \in {"TK0NF", "MCR", "MC"} -> 3
                       [] d.error = "ABRT" -> 20 [] d.error = "IDNF" -> 21 [] d.error = "UNC" -> 22
                       [] d.error = "BBK" -> 13 [] OTHER -> 2)
      [] OTHER -> err

\* Sectors other than Lbas hold something else.
ReadData(u, from, n) ==
    [k \in 1 .. n |-> IF from + k - 1 \in Lbas THEN disk[u][from + k - 1] ELSE <<"other", 0>>]

\* The drive stops at sector `stop` of the transfer, showing d.
ide_ata_read(dev, lba, n, stop, d) ==
    [data |-> ReadData(dev.unit, Decoded(Address(dev, lba)), IF stop < n THEN stop ELSE n),
     err |-> ide_polling(IF stop < n THEN d ELSE Ready)]

\* A write polls without looking at the error bits.
ide_ata_write(dev, lba, data, stop) ==
    LET from == Decoded(Address(dev, lba))
        n == IF stop < Len(data) THEN stop ELSE Len(data)
    IN  [disk EXCEPT ![dev.unit] = [i \in DOMAIN @ |->
            IF i - from + 1 \in 1 .. n THEN data[i - from + 1] ELSE @[i]]]

\* The checks of ide_read_sectors and ide_write_sectors: 0 goes on to the drive.
Refused(n, lba, count) ==
    IF n > MAXIMUM_IDE_DEVICES \/ n + 1 \notin DOMAIN ide THEN -1
    ELSE IF lba + count > ide[n + 1].size /\ ide[n + 1].type = "ATA" THEN -2 ELSE 0

InRange(lba, count) == \A k \in 0 .. count - 1 : lba + k \in Lbas

\* Before a drive is known there is nothing to read.
ide_read_sectors_fat ==
    /\ ide /= <<>> /\ last.n < MaxRequests
    /\ \E lba \in Lbas, count \in 1 .. MaxCount, stop \in 0 .. MaxCount, d \in Stops :
          LET no == Refused(cur, lba, count)
              dev == ide[cur + 1]
          IN  /\ InRange(lba, count) /\ stop <= count
              /\ IF no /= 0
                 THEN last' = [op |-> "read", dev |-> cur, lba |-> lba, count |-> count, data |-> <<>>,
                               result |-> 0, fault |-> FALSE, disk |-> disk, n |-> last.n + 1]
                 ELSE IF dev.type = "ATA"
                 THEN \E r \in {ide_ata_read(dev, lba, count, stop, d)} :
                         last' = [op |-> "read", dev |-> cur, lba |-> lba, count |-> count, data |-> r.data,
                                  result |-> IF ide_print_error(d, r.err) = 0 THEN 1 ELSE 0, fault |-> stop < count, disk |-> disk, n |-> last.n + 1]
                 ELSE \E err \in {0, 1} :    \* err is never set for a packet device
                         last' = [op |-> "read", dev |-> cur, lba |-> lba, count |-> count, data |-> <<>>,
                                  result |-> 1 - err, fault |-> FALSE, disk |-> disk, n |-> last.n + 1]
    /\ UNCHANGED <<attached, ide, cur, disk>>

\* What was written is read back from drive 0 and compared; the answer is 1 either way.
ide_write_sectors_fat ==
    /\ ide /= <<>> /\ last.n < MaxRequests
    /\ \E lba \in Lbas, count \in 1 .. MaxCount, stop \in 0 .. MaxCount, mark \in Marks :
          LET no == Refused(cur, lba, count)
              dev == ide[cur + 1]
              data == [k \in 1 .. count |-> <<mark, k>>]
          IN  /\ InRange(lba, count) /\ stop <= count
              /\ IF no = 0 /\ dev.type = "ATA"
                 THEN \E d \in {ide_ata_write(dev, lba, data, stop)} : disk' = d
                 ELSE UNCHANGED disk
              /\ \E err \in IF no = 0 /\ dev.type /= "ATA" THEN {0, 1} ELSE {no} :
                    last' = [op |-> "write", dev |-> cur, lba |-> lba, count |-> count, data |-> data,
                             result |-> IF err = 0 THEN 1 ELSE 0,
                             fault |-> no = 0 /\ dev.type = "ATA" /\ stop < count, disk |-> disk, n |-> last.n + 1]
    /\ UNCHANGED <<attached, ide, cur>>

InitIde ==
    /\ attached \in Machines
    /\ ide = <<>> /\ cur = 0
    /\ disk = [u \in Units |-> [i \in Lbas |-> <<Old(u), i>>]]
    /\ last = NoRequest

NextIde == ide_init \/ select_ide_drive \/ ide_read_sectors_fat \/ ide_write_sectors_fat
SpecIde == InitIde /\ [][NextIde]_ideVars
-----------------------------------------------------------------------------
\* A request the driver answers with success reached the selected drive and the sectors
\* asked for, whichever address form was used: a read delivers their contents, and a
\* write the drive did not fail stored exactly the data; no request changes another
\* sector or another drive.  A write the drive fails is reported as a success all the
\* same, so nothing is promised for it; packet devices are not read at all.
IdeMovesSectors ==
    last.op /= "none" =>
    LET u == ide[last.dev + 1].unit
        ks == 1 .. last.count
    IN  /\ last.dev + 1 \in DOMAIN ide /\ ide[last.dev + 1].type = "ATA" /\ last.result = 1
           /\ (last.op = "write" => ~last.fault) =>
              /\ last.op = "read" =>
                    last.data = [k \in ks |-> last.disk[u][last.lba + k - 1]]
              /\ last.op = "write" =>
                    \A k \in ks : disk[u][last.lba + k - 1] = last.data[k]
        /\ \A v \in Units, i \in Lbas :
              \/ disk[v][i] = last.disk[v][i]
              \/ last.op = "write" /\ v = u /\ i - last.lba + 1 \in ks
=============================================================================
