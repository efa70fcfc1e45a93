------------------------------ MODULE Ext4Mounts ------------------------------
(***************************************************************************)
(* The table of block devices and the table of mount points of ext4.c.      *)
(* A mount point's name is a path that ends with a slash; here it is the    *)
(* sequence of the names in the path, and <<>> is "/".                      *)
(***************************************************************************)
EXTENDS Integers, Sequences, FiniteSets, FiniteSetsExt, SequencesExt

CONSTANTS BLOCKDEVS_COUNT, MOUNTPOINTS_COUNT,
          Devices,     \* the block devices; a device is registered under its own name, or another
          Points,      \* the names of mount points
          Contents     \* what a device may hold: kinds of superblocks

VARIABLES s_bdevices,  \* [name, bd] by slot; "" is the empty name
          s_mp,        \* [name, mounted, bd, read_only, journal] by slot
          bdev,        \* by device: [holds, ph_refctr, open, bc, fs]: bound to the slots bc and fs, 0: none
          state,       \* by device: what the superblock on it says
          blame        \* the misuses so far that the code does not notice
mountVars == <<s_bdevices, s_mp, bdev, state, blame>>

First(S) == IF S = {} THEN 0 ELSE Min(S)
NoDevice == [name |-> "", bd |-> ""]
NoName == <<"?">>    \* the empty string: no mount point has it

ext4_device_register(d, name) ==
    LET free == First({i \in DOMAIN s_bdevices : s_bdevices[i].bd = ""})
    IN  /\ \A i \in DOMAIN s_bdevices : s_bdevices[i].name /= name    \* else EEXIST
        /\ free /= 0                                                  \* else ENOSPC
        /\ s_bdevices' = [s_bdevices EXCEPT ![free] = [name |-> name, bd |-> d]]
        /\ UNCHANGED <<s_mp, bdev, state, blame>>

ext4_device_unregister(name) ==
    LET i == First({j \in DOMAIN s_bdevices : s_bdevices[j].name = name})
    IN  /\ i /= 0                                                      \* else ENOENT
        /\ s_bdevices' = [s_bdevices EXCEPT ![i] = NoDevice]
        /\ UNCHANGED <<s_mp, bdev, state, blame>>

ext4_device_unregister_all ==
    /\ s_bdevices' = [i \in DOMAIN s_bdevices |-> NoDevice]
    /\ UNCHANGED <<s_mp, bdev, state, blame>>

\* ext4_block_init, ext4_block_fini on the table of devices
ext4_block_init(b, d) == [b EXCEPT ![d].ph_refctr = @ + 1, ![d].open = TRUE]
ext4_block_fini(b, d) ==
    IF b[d].ph_refctr = 0 THEN b
    ELSE [b EXCEPT ![d].ph_refctr = @ - 1, ![d].open = b[d].ph_refctr > 1]

\* ext4_sb_check and ext4_fs_check_features
ext4_sb_check(d) == bdev[d].holds /= "no_magic"
ext4_fs_check_features(d, ro) ==
    IF bdev[d].holds = "incompatible" THEN [r |-> "ENOTSUP", ro |-> ro]
    ELSE [r |-> "EOK", ro |-> ro \/ bdev[d].holds = "ro_compatible"]

\* ext4_fs_init; the superblock is marked while the file system is mounted for writing, unless that
\* write fails.  jbd_journal keeps the value an earlier file system left.
FsInit(d, ro, fault) ==
    LET f == ext4_fs_check_features(d, ro)
    IN  IF ~ext4_sb_check(d) THEN [r |-> "ENOTSUP", ro |-> ro]
        ELSE IF f.r /= "EOK" THEN f
        ELSE IF fault /\ ~f.ro THEN [f EXCEPT !.r = "EIO"] ELSE f


\* What ext4_mount does with the device after ext4_fs_init
AfterInit(b, d, r) == IF r = "EOK" THEN b ELSE ext4_block_fini(b, d)

\* The first slot that is not mounted is taken, and given the name, before the later ones are looked at.
ext4_mount(dev_name, point, ro, fault) ==
    LET found == First({j \in DOMAIN s_bdevices : s_bdevices[j].name = dev_name})
        d == s_bdevices[found].bd
        i == First({j \in DOMAIN s_mp : ~s_mp[j].mounted \/ s_mp[j].name = point})
        f == FsInit(d, ro, fault)
        ok == f.r = "EOK"
    IN  /\ found /= 0                                                  \* else ENODEV
        /\ i /= 0                                                      \* else ENOMEM
        /\ ~s_mp[i].mounted                                            \* else EOK
        /\ bdev' = AfterInit([ext4_block_init(bdev, d) EXCEPT ![d].bc = IF ok THEN i ELSE @,
                                                              ![d].fs = IF ok THEN i ELSE @], d, f.r)
        /\ s_mp' = [s_mp EXCEPT ![i].name = point, ![i].mounted = ok, ![i].bd = d, ![i].read_only = f.ro]
        /\ state' = IF ok /\ ~f.ro THEN [state EXCEPT ![d] = "ERROR_FS"] ELSE state
        /\ blame' = IF ~ok THEN blame
                    ELSE blame \cup (IF \E j \in DOMAIN s_mp : s_mp[j].mounted /\ s_mp[j].name = point THEN {"twice"} ELSE {})
                               \cup (IF \E j \in DOMAIN s_mp : s_mp[j].mounted /\ s_mp[j].bd = d THEN {"shared"} ELSE {})
                               \cup (IF s_mp[i].journal /= "" THEN {"stale journal"} ELSE {})
        /\ UNCHANGED s_bdevices

\* The slot is found by its name, mounted or not.  When the superblock cannot be written it stays mounted,
\* with its device bound to no file system.
ext4_umount(point, fault) ==
    LET i == First({j \in DOMAIN s_mp : s_mp[j].name = point})
        d == s_mp[i].bd
        wrote == s_mp[i].read_only \/ ~fault
    IN  /\ i /= 0                                                      \* else ENODEV
        /\ state' = IF wrote /\ ~s_mp[i].read_only THEN [state EXCEPT ![d] = "VALID_FS"] ELSE state
        /\ s_mp' = [s_mp EXCEPT ![i].mounted = @ /\ ~wrote]
        /\ bdev' = [IF wrote THEN ext4_block_fini(bdev, d) ELSE bdev EXCEPT ![d].fs = 0]
        /\ blame' = blame \cup (IF s_mp[i].mounted THEN {} ELSE {"not mounted"})
                          \cup (IF wrote THEN {} ELSE {"unbound"})
        /\ UNCHANGED s_bdevices

\* The first mounted slot whose name the path begins with.
ext4_get_mount(path) == First({i \in DOMAIN s_mp : s_mp[i].mounted /\ IsPrefix(s_mp[i].name, path)})

\* __ext4_journal_start, __ext4_journal_stop: nothing happens on a mount for reading.
Journal(path, j) ==
    LET i == ext4_get_mount(path)
    IN  /\ i /= 0 /\ ~s_mp[i].read_only
        /\ s_mp' = [s_mp EXCEPT ![i].journal = IF j THEN s_mp[i].bd ELSE ""]
        /\ UNCHANGED <<s_bdevices, bdev, state, blame>>
ext4_journal_start(path) == Journal(path, TRUE)
ext4_journal_stop(path) == Journal(path, FALSE)
-----------------------------------------------------------------------------
NoMount == [name |-> NoName, mounted |-> FALSE, bd |-> "", read_only |-> FALSE, journal |-> ""]
InitMounts ==
    /\ s_bdevices = [i \in 1 .. BLOCKDEVS_COUNT |-> NoDevice]
    /\ s_mp = [i \in 1 .. MOUNTPOINTS_COUNT |-> NoMount]
    /\ bdev \in [Devices -> [holds : Contents, ph_refctr : {0}, open : {FALSE}, bc : {0}, fs : {0}]]
    /\ state = [d \in Devices |-> "VALID_FS"]
    /\ blame = {}

NextMounts ==
    /\ blame = {}
    /\ \/ \E d \in Devices : ext4_device_register(d, d) \/ ext4_device_unregister(d)
       \/ ext4_device_unregister_all
       \/ \E d \in Devices, p \in Points, ro \in BOOLEAN, fault \in BOOLEAN : ext4_mount(d, p, ro, fault)
       \/ \E p \in Points, fault \in BOOLEAN : ext4_umount(p, fault)
       \/ \E p \in Points : ext4_journal_start(p) \/ ext4_journal_stop(p)

SpecMounts == InitMounts /\ [][NextMounts]_mountVars
-----------------------------------------------------------------------------
Users(d) == {i \in DOMAIN s_mp : s_mp[i].mounted /\ s_mp[i].bd = d}

(* Through every order of registering, mounting, failing to mount and unmounting: a device is open as long
   as a mount point uses it and no longer, and is bound to the mount point that uses it; it is marked as in
   use exactly while it is mounted for writing; and a path below a mount point leads to one that contains it.
   The code does not notice, and the property excludes, that a name is mounted a second time because a slot
   before it is free, that two mount points share a device, that a slot which is not mounted is unmounted
   because it still has the name, that a journal is still set from an earlier mount, and that unmounting
   failed half way. *)
MountsAreCounted ==
    blame = {} =>
        /\ \A d \in Devices :
              /\ bdev[d].ph_refctr = Cardinality(Users(d)) /\ (bdev[d].open <=> Users(d) /= {})
              /\ \A i \in Users(d) : bdev[d].bc = i /\ bdev[d].fs = i
              /\ state[d] = "ERROR_FS" <=> \E i \in Users(d) : ~s_mp[i].read_only
        /\ \A i \in DOMAIN s_mp : s_mp[i].mounted =>
              ext4_get_mount(s_mp[i].name) /= 0
              /\ (s_mp[i].journal /= "" => s_mp[i].journal = s_mp[i].bd /\ ~s_mp[i].read_only)
=============================================================================
