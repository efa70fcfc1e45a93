--------------------------------- MODULE Ahci ---------------------------------
(***************************************************************************)
(* The AHCI driver (ahci_main.c): probing the ports, and commands issued   *)
(* through command slot 0 to a device that is slow, fails or never answers. *)
(* Memory, buffers and disks are in sectors; a descriptor (PRDT entry) of   *)
(* 4 KB holds ENTRY sectors.  The device follows the AHCI specification: it *)
(* runs a command while the port's engine is on, and after a task file      *)
(* error it runs no further command until the engine is restarted.          *)
(***************************************************************************)
EXTENDS Integers, Sequences, FiniteSets, FiniteSetsExt, SequencesExt

CONSTANTS Ports,      \* implemented and other ports
          Kinds,      \* what may be found at a port: sequences over Attached, one per port
          ENTRY,      \* sectors of a descriptor: 8
          HUGE,       \* sectors a byte count of -1 stands for in 22 bits: 8192
          DiskSize, MemSize,
          MaxCount,   \* bound on the sectors of a request
          MaxCommands,
          TIMEOUT     \* polls before the driver gives up on a busy device

Attached == {"unimplemented", "absent", "asleep", "ATA", "ATAPI", "SEMB", "PM"}

VARIABLES hba,      \* port -> the registers: st, fre, cr, fr, busy, tfes, ci, and dead: after an error
          kind,     \* port -> what is attached
          slot,     \* port -> command header and table: ctba, w, prdt, fis
          disk,     \* port -> sectors
          mem,
          devices,  \* ahci_devices: the ports of the valid entries, in order
          drv,      \* the driver: at, todo, cmd, timeout, result
          before    \* auxiliary: memory and disks when the command began
ahciVars == <<hba, kind, slot, disk, mem, devices, drv, before>>

check_type(k) ==
    CASE k \in {"unimplemented", "absent", "asleep"} -> "NULL"
      [] k = "ATAPI" -> "SATAPI" [] k = "SEMB" -> "SEMB" [] k = "PM" -> "PM"
      [] OTHER -> "SATA"

NoCommand == [op |-> "none", port |-> 0, lba |-> 0, buf |-> 1, count |-> 0]
NoTable == [w |-> FALSE, prdt |-> <<>>, fis |-> NoCommand]

InitAhci ==
    /\ kind \in Kinds
    /\ hba = [p \in Ports |-> [st |-> TRUE, fre |-> TRUE, cr |-> TRUE, fr |-> TRUE,
                               busy |-> FALSE, tfes |-> FALSE, ci |-> FALSE, dead |-> FALSE]]
    /\ slot = [p \in Ports |-> [ctba |-> "firmware", table |-> NoTable]]
    /\ disk = [p \in Ports |-> [i \in 0 .. DiskSize - 1 |-> <<p, i>>]]
    /\ mem = [i \in 1 .. MemSize |-> <<0, i>>]
    /\ devices = <<>>
    /\ drv = [at |-> "reset", port |-> 1, todo |-> <<>>, cmd |-> NoCommand, timeout |-> 0,
              result |-> 0, n |-> 0]
    /\ before = [mem |-> mem, disk |-> disk]

-----------------------------------------------------------------------------
\* Probing.

\* ahci_main up to probe_port.
ResetController ==
    /\ drv.at = "reset"
    /\ hba' = [p \in Ports |-> [hba[p] EXCEPT !.st = FALSE, !.fre = FALSE, !.cr = FALSE, !.fr = FALSE]]
    /\ devices' = <<>>
    /\ drv' = [drv EXCEPT !.at = "probe"]
    /\ UNCHANGED <<kind, slot, disk, mem, before>>

stop_cmd ==
    /\ drv.at = "probe" /\ drv.port \in Ports
    /\ check_type(kind[drv.port]) = "SATA"
    /\ hba' = [hba EXCEPT ![drv.port].st = FALSE, ![drv.port].fre = FALSE]
    /\ drv' = [drv EXCEPT !.at = "stopping"]
    /\ UNCHANGED <<kind, slot, disk, mem, devices, before>>

SkipPort ==
    /\ drv.at = "probe" /\ drv.port \in Ports
    /\ check_type(kind[drv.port]) /= "SATA"
    /\ drv' = [drv EXCEPT !.port = @ + 1]
    /\ UNCHANGED <<hba, kind, slot, disk, mem, devices, before>>

\* port_rebase, start_cmd, add_ahci_drive; the identify and read of probe_port follow.
port_rebase ==
    /\ drv.at = "stopping"
    /\ ~hba[drv.port].fr /\ ~hba[drv.port].cr
    /\ slot' = [slot EXCEPT ![drv.port] = [ctba |-> "own", table |-> NoTable]]
    /\ hba' = [hba EXCEPT ![drv.port].fre = TRUE, ![drv.port].st = TRUE]
    /\ devices' = Append(devices, drv.port)
    /\ drv' = [drv EXCEPT !.at = "probed", !.port = @ + 1,
                 !.todo = <<[NoCommand EXCEPT !.op = "identify", !.port = drv.port],
                            [op |-> "read", port |-> drv.port, lba |-> 0, buf |-> 1, count |-> 1]>>]
    /\ UNCHANGED <<kind, disk, mem, before>>

ProbedAll ==
    /\ drv.at = "probe" /\ drv.port \notin Ports
    /\ drv' = [drv EXCEPT !.at = "idle"]
    /\ UNCHANGED <<hba, kind, slot, disk, mem, devices, before>>

-----------------------------------------------------------------------------
\* Commands.

\* Mutant: the last descriptor is counted twice into its address.
DescriptorsShifted(buf, count) ==
    LET n == (count + ENTRY - 1) \div ENTRY
        last == count % ENTRY
    IN  [i \in 1 .. n |-> IF i < n THEN [dba |-> buf + (i - 1) * ENTRY, sectors |-> ENTRY]
                          ELSE [dba |-> buf + (IF n > 1 THEN n ELSE 0) * ENTRY,
                                sectors |-> IF last = 0 THEN HUGE ELSE last]]

\* prdtl entries of 4 KB; the byte count of the last one is that of the rest, and -1,
\* cut to 22 bits, when nothing remains.
Descriptors(buf, count) ==
    LET n == (count + ENTRY - 1) \div ENTRY
        last == count % ENTRY
    IN  [i \in 1 .. n |-> [dba |-> buf + (i - 1) * ENTRY,
                           sectors |-> IF i < n THEN ENTRY ELSE IF last = 0 THEN HUGE ELSE last]]

\* ahci_identify_device and int_get_sector_count: one descriptor for a buffer of their own.
IdentifyTable == [w |-> FALSE, prdt |-> <<>>, fis |-> [NoCommand EXCEPT !.op = "identify"]]

\* int_get_sector_count waits first and then clears the header, the address of the table
\* with it: from then on the port's table lies at address 0.
Setup(c) ==
    [ctba |-> IF c.op = "sectors" THEN "zero" ELSE slot[c.port].ctba,
     table |-> IF c.op \in {"identify", "sectors"} THEN IdentifyTable
               ELSE [w |-> c.op = "write", prdt |-> Descriptors(c.buf, c.count), fis |-> c]]

\* Ports whose table lies at address 0 share it.
WithSlot(c, new) ==
    [p \in Ports |-> IF p = c.port THEN new
                     ELSE IF new.ctba = "zero" /\ slot[p].ctba = "zero" THEN [slot[p] EXCEPT !.table = new.table]
                     ELSE slot[p]]

Begin(c) ==
    /\ hba' = [hba EXCEPT ![c.port].tfes = FALSE]
    /\ slot' = WithSlot(c, Setup(c))
    /\ before' = [mem |-> mem, disk |-> disk]
    /\ UNCHANGED <<kind, disk, mem, devices>>

\* The commands of probe_port.
ProbeCommand ==
    /\ drv.at = "probed" /\ drv.todo /= <<>>
    /\ Begin(Head(drv.todo))
    /\ drv' = [drv EXCEPT !.at = "wait", !.cmd = Head(drv.todo), !.todo = Tail(@), !.timeout = 0]

ProbedPort ==
    /\ drv.at = "probed" /\ drv.todo = <<>>
    /\ drv' = [drv EXCEPT !.at = "probe"]
    /\ UNCHANGED <<hba, kind, slot, disk, mem, devices, before>>

\* ahci_read_sector_hal, ahci_write_sector_hal and get_ahci_sector_count on the drive
\* that select_ahci_drive chose.
Request ==
    /\ drv.at = "idle" /\ drv.n < MaxCommands
    /\ \E d \in DOMAIN devices, op \in {"read", "write", "sectors"}, count \in 1 .. MaxCount,
          lba \in 0 .. DiskSize - 1, buf \in 2 .. 3 :
          LET c == [op |-> op, port |-> devices[d], lba |-> lba, buf |-> buf, count |-> count]
          IN  /\ lba + count <= DiskSize
              /\ op = "sectors" => lba = 0 /\ count = 1 /\ buf = 2
              /\ Begin(c)
              /\ drv' = [drv EXCEPT !.at = "wait", !.cmd = c, !.timeout = 0, !.n = @ + 1]

Port == hba[drv.cmd.port]

WaitBusy ==
    /\ drv.at = "wait" /\ Port.busy /\ drv.timeout < TIMEOUT
    /\ drv' = [drv EXCEPT !.timeout = @ + 1]
    /\ UNCHANGED <<hba, kind, slot, disk, mem, devices, before>>

Return(r) == drv' = [drv EXCEPT !.result = r, !.at = "returned"]

GiveUp ==
    /\ drv.at = "wait" /\ drv.timeout >= TIMEOUT
    /\ Return(0)
    /\ UNCHANGED <<hba, kind, slot, disk, mem, devices, before>>

Issue ==
    /\ drv.at = "wait" /\ ~Port.busy /\ drv.timeout < TIMEOUT
    /\ hba' = [hba EXCEPT ![drv.cmd.port].ci = TRUE]
    /\ drv' = [drv EXCEPT !.at = "poll"]
    /\ UNCHANGED <<kind, slot, disk, mem, devices, before>>

\* The loop leaves when the command is gone, and looks at the error bit afterwards again
\* (int_get_sector_count does not).
Completed ==
    /\ drv.at = "poll" /\ ~Port.ci
    /\ Return(IF Port.tfes /\ drv.cmd.op /= "sectors" THEN IF drv.cmd.op = "read" THEN -9 ELSE 0 ELSE 1)
    /\ UNCHANGED <<hba, kind, slot, disk, mem, devices, before>>

Failed ==
    /\ drv.at = "poll" /\ Port.ci /\ Port.tfes
    /\ Return(0)
    /\ UNCHANGED <<hba, kind, slot, disk, mem, devices, before>>

Resume ==
    /\ drv.at = "returned"
    /\ drv' = [drv EXCEPT !.at = IF drv.n = 0 THEN "probed" ELSE "idle", !.cmd = NoCommand, !.result = 0]
    /\ before' = [mem |-> mem, disk |-> disk]
    /\ UNCHANGED <<hba, kind, slot, disk, mem, devices>>

-----------------------------------------------------------------------------
\* The device.

EngineFollows(p) ==
    /\ hba[p].cr /= hba[p].st \/ hba[p].fr /= hba[p].fre
    /\ hba' = [hba EXCEPT ![p].cr = hba[p].st, ![p].fr = hba[p].fre]
    /\ UNCHANGED <<kind, slot, disk, mem, devices, drv, before>>

\* Sector k of a transfer goes to the descriptor the sectors before it leave room in.
RECURSIVE CellOf(_, _)
CellOf(prdt, k) ==
    IF prdt = <<>> THEN 0
    ELSE IF k <= Head(prdt).sectors THEN Head(prdt).dba + k - 1
    ELSE CellOf(Tail(prdt), k - Head(prdt).sectors)

\* The first n sectors of the command in slot 0.
Transfer(p, n) ==
    LET t == slot[p].table
        c == t.fis
        ks == 1 .. n
    IN  IF c.op = "read"
        THEN /\ mem' = [i \in DOMAIN mem |->
                           LET here == {k \in ks : CellOf(t.prdt, k) = i}
                           IN  IF here = {} THEN mem[i] ELSE disk[p][c.lba + Max(here) - 1]]
             /\ UNCHANGED disk
        ELSE IF c.op = "write"
        THEN /\ disk' = [disk EXCEPT ![p] = [i \in DOMAIN @ |->
                            IF i - c.lba + 1 \in ks THEN mem[CellOf(t.prdt, i - c.lba + 1)] ELSE @[i]]]
             /\ UNCHANGED mem
        ELSE UNCHANGED <<mem, disk>>

Running(p) == hba[p].ci /\ hba[p].cr /\ ~hba[p].dead

DeviceCompletes(p) ==
    /\ Running(p)
    /\ Transfer(p, slot[p].table.fis.count)
    /\ hba' = [hba EXCEPT ![p].ci = FALSE]
    /\ UNCHANGED <<kind, slot, devices, drv, before>>

\* A task file error after part of the transfer: the command stays in ci.
DeviceFails(p) ==
    /\ Running(p)
    /\ \E n \in 0 .. slot[p].table.fis.count : Transfer(p, n)
    /\ hba' = [hba EXCEPT ![p].tfes = TRUE, ![p].dead = TRUE]
    /\ UNCHANGED <<kind, slot, devices, drv, before>>

DeviceBusy(p) ==
    /\ kind[p] = "ATA" /\ ~hba[p].ci /\ drv.at = "idle" /\ ~hba[p].busy
    /\ hba' = [hba EXCEPT ![p].busy = TRUE]
    /\ UNCHANGED <<kind, slot, disk, mem, devices, drv, before>>

DeviceReady(p) ==
    /\ hba[p].busy
    /\ hba' = [hba EXCEPT ![p].busy = FALSE]
    /\ UNCHANGED <<kind, slot, disk, mem, devices, drv, before>>

Device(p) ==
    \/ EngineFollows(p) \/ DeviceCompletes(p) \/ DeviceFails(p) \/ DeviceBusy(p) \/ DeviceReady(p)

NextAhci ==
    \/ ResetController \/ stop_cmd \/ SkipPort \/ port_rebase \/ ProbedAll
    \/ ProbeCommand \/ ProbedPort \/ Request
    \/ WaitBusy \/ GiveUp \/ Issue \/ Completed \/ Failed \/ Resume
    \/ \E p \in Ports : Device(p)
SpecAhci == InitAhci /\ [][NextAhci]_ahciVars
-----------------------------------------------------------------------------
Sectors(c) == c.lba .. c.lba + c.count - 1
Cells(c) == c.buf .. c.buf + c.count - 1

\* A command that reports success moved exactly the sectors asked for, in order, between
\* the selected drive and the caller's buffer, whatever the descriptors its buffer was
\* split into and whichever commands ran or failed before; and at no time, also when the
\* device stops half way or the driver gives up, does a command touch other memory,
\* other sectors or another drive.
AhciMovesSectors ==
    LET c == drv.cmd
        own == IF c.op = "read" THEN Cells(c) ELSE {}
        written == IF c.op = "write" THEN Sectors(c) ELSE {}
    IN  /\ \A i \in DOMAIN mem \ own : mem[i] = before.mem[i]
        /\ \A p \in Ports, i \in 0 .. DiskSize - 1 :
              (p = c.port /\ i \in written) \/ disk[p][i] = before.disk[p][i]
        /\ drv.at = "returned" /\ drv.result = 1 =>
              /\ c.op = "read" => \A k \in 0 .. c.count - 1 : mem[c.buf + k] = disk[c.port][c.lba + k]
              /\ c.op = "write" => \A k \in 0 .. c.count - 1 : disk[c.port][c.lba + k] = mem[c.buf + k]
=============================================================================
