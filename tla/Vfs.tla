---------------------------------- MODULE Vfs ----------------------------------
(***************************************************************************)
(* The layers between programs and the FAT library: the table of storage    *)
(* devices and the primary device (storage.c), the probing for a file       *)
(* system (fs.c), the C library's file functions with their table of open   *)
(* files and the current directory (file.c), and the virtual devices        *)
(* (devices.c).  The FAT library appears by its handles: which of them are   *)
(* open and under which path.                                               *)
(***************************************************************************)
EXTENDS Integers, Sequences, FiniteSets, SequencesExt, FiniteSetsExt

CONSTANTS Machines,   \* the drives found: sequences of [type, num, fat]
          Names,      \* file names programs use
          Dirs,       \* the directories of the volume: sequences of names
          MAX_OPEN    \* FATFS_MAX_OPEN_FILES

VARIABLES st,         \* devices: devs, primary, sel, attached, fs_active
          handles,    \* the FAT library's file objects: path, or <<>> when free
          open_files, \* the table of file.c
          cwd,        \* [names, empty, freed]: empty, the string is ""
          stale       \* auxiliary: the library was re-initialised with files open
vfsVars == <<st, handles, open_files, cwd, stale>>

Closed == [h \in 1 .. MAX_OPEN |-> <<>>]
OpenHandles == {h \in DOMAIN handles : handles[h] /= <<>>}

-----------------------------------------------------------------------------
\* Storage.

\* select_ahci_drive or select_ide_drive.
Select(s, dev) == [s EXCEPT !.sel[dev.type] = dev.num]

\* fl_attach_media through secondary_storage_read.  Nothing is read for an IDE drive: what
\* the library finds is what its buffer held.
Attaches(dev) == IF dev.type = "AHCI" THEN {dev.fat} ELSE BOOLEAN

\* The device becomes the primary one before its file system is known to be good.
set_primary_dev(s, n, ok) ==
    IF n + 1 \notin DOMAIN s.devs THEN s
    ELSE [Select([s EXCEPT !.primary = n], s.devs[n + 1]) EXCEPT !.attached = ok]

\* Two attachments, one by set_primary_dev and one by try_fat; the second decides.
init_file_system(s, n, ok) ==
    [set_primary_dev(s, n, ok) EXCEPT !.fs_active = ok]

\* check_fs_types leaves the last device as the primary one.
RECURSIVE CheckFsTypes(_, _)
CheckFsTypes(s, n) ==
    IF n + 1 \notin DOMAIN s.devs THEN {s}
    ELSE UNION {CheckFsTypes([init_file_system(s, n, ok) EXCEPT !.devs[n + 1].fs = IF ok THEN "FAT" ELSE "UNKNOWN"],
                             n + 1) : ok \in Attaches(s.devs[n + 1])}

\* init_storage and the init_file_system(0) of main.
Boot ==
    /\ st.primary = -1
    /\ \E s \in CheckFsTypes(st, 0) :
          IF s.devs = <<>> THEN st' = [s EXCEPT !.primary = 0]
          ELSE \E ok \in Attaches(s.devs[1]) : st' = init_file_system(s, 0, ok)
    /\ handles' = Closed
    /\ UNCHANGED <<open_files, cwd, stale>>

\* The shell's command: the FAT library forgets its open files, file.c does not.
SetPrimary ==
    /\ st.primary >= 0
    /\ \E n \in 0 .. Len(st.devs) :
          /\ \E ok \in IF n + 1 \in DOMAIN st.devs THEN Attaches(st.devs[n + 1]) ELSE {FALSE} :
                st' = set_primary_dev(st, n, ok)
          /\ IF n + 1 \in DOMAIN st.devs
             THEN handles' = Closed /\ stale' = (stale \/ open_files /= <<>>)
             ELSE UNCHANGED <<handles, stale>>
    /\ UNCHANGED <<open_files, cwd>>

-----------------------------------------------------------------------------
\* The current directory.

\* cd ".." from "" hands _cwd itself to kfree.
move_back_one_folder(c) ==
    IF c.empty THEN [c EXCEPT !.freed = TRUE]
    ELSE [c EXCEPT !.names = IF @ = <<>> THEN @ ELSE Front(@), !.empty = Len(c.names) <= 1]

\* chdir: ".." and absolute paths are taken as they are; a relative path must lead to
\* a directory, and is glued to the current one without a separator when the byte
\* behind the string happens to be one.
chdir ==
    /\ st.fs_active /\ ~cwd.freed
    /\ \/ cwd' = move_back_one_folder(cwd)
       \/ \E d \in Dirs : cwd' = [cwd EXCEPT !.names = d, !.empty = FALSE]
       \/ \E n \in Names :
             IF Append(cwd.names, n) \in Dirs
             THEN \/ cwd' = [cwd EXCEPT !.names = Append(@, n), !.empty = FALSE]
                  \/ UNCHANGED cwd
             ELSE UNCHANGED cwd
    /\ UNCHANGED <<st, handles, open_files, stale>>

-----------------------------------------------------------------------------
\* Files.

\* fl_fopen: no two handles for one path, and none when all are in use.
CanOpen(path) ==
    /\ st.attached
    /\ \A h \in OpenHandles : handles[h] /= path
    /\ OpenHandles /= 1 .. MAX_OPEN

\* A relative path: the current directory and the name.  An absolute one is not copied
\* at all, and a name made of uninitialised memory is looked for.
fopen(n) ==
    LET path == Append(cwd.names, n)
        h == Min(DOMAIN handles \ OpenHandles)
    IN  /\ st.fs_active /\ ~cwd.freed
        /\ CanOpen(path)
        /\ Len(open_files) < MAX_OPEN + 1      \* bound
        /\ handles' = [handles EXCEPT ![h] = path]
        /\ open_files' = Append(open_files, h)
        /\ UNCHANGED <<st, cwd, stale>>


\* The loop of fclose: entry i goes when its path is that of the file, and the entry
\* moved into its place is not looked at.
RECURSIVE Without(_, _, _)
Without(files, h, i) ==
    IF i > Len(files) THEN files
    ELSE IF handles[files[i]] = handles[h] THEN Without(RemoveAt(files, i), h, i + 1)
    ELSE Without(files, h, i + 1)

ClosedFiles(files, h) == Without(files, h, 1)

fclose ==
    /\ st.fs_active
    /\ \E h \in OpenHandles :
          /\ \E files \in {ClosedFiles(open_files, h)} : open_files' = files
          /\ handles' = [handles EXCEPT ![h] = <<>>]
    /\ UNCHANGED <<st, cwd, stale>>

\* The loop's index grows while fclose moves the entries up.
RECURSIVE Shutdown(_, _, _)
Shutdown(files, hs, i) ==
    IF i > Len(files) THEN [files |-> files, handles |-> hs]
    ELSE Shutdown(SelectSeq(files, LAMBDA h : h /= files[i]), [hs EXCEPT ![files[i]] = <<>>], i + 1)

fs_shutdown ==
    /\ st.fs_active /\ ~stale
    /\ \E r \in {Shutdown(open_files, handles, 1)} : open_files' = r.files /\ handles' = r.handles
    /\ UNCHANGED <<st, cwd, stale>>

-----------------------------------------------------------------------------
\* Operations on streams: where the bytes go to or come from.

Devices == {"tty", "ttySO", "random", "mem", "null", "fmb"}

\* The functions of a virtual device; "none", it supports no such transfer.
decode_device(d) ==
    CASE d = "tty" -> [read |-> "keyboard", write |-> "screen"]
      [] d = "ttySO" -> [read |-> "none", write |-> "screen"]
      [] d = "random" -> [read |-> "none", write |-> "none"]
      [] d = "mem" -> [read |-> "memory", write |-> "none"]
      [] d = "null" -> [read |-> "none", write |-> "nowhere"]
      [] d = "fmb" -> [read |-> "none", write |-> "framebuffer"]

\* The mode sets one flag; the other is what malloc's memory held.
handle_virtual_device_fopen(d, mode) ==
    {v \in [name : {d}, read_flag : BOOLEAN, write_flag : BOOLEAN] :
        IF mode = "r" THEN v.read_flag ELSE v.write_flag}

\* Without support or flag nothing is transferred, and no value is returned.
device_read(v) ==
    LET read == decode_device(v.name).read IN IF read /= "none" /\ v.read_flag THEN read ELSE "refused"
device_write(v) ==
    LET write == decode_device(v.name).write IN IF write /= "none" /\ v.write_flag THEN write ELSE "refused"

Stream(n) == [name |-> n, read_flag |-> FALSE, write_flag |-> FALSE]
Streams == {Stream(n) : n \in {"stdin", "stdout", "stderr"} \cup Names}
           \cup UNION {handle_virtual_device_fopen(d, mode) : d \in Devices, mode \in {"r", "w"}}
is_virtual_device(s) == s.name \in Devices

\* The name is looked up in the FAT library's handles by the caller's pointer.
FatSink(checked) == IF checked /\ ~st.fs_active THEN "refused" ELSE "FAT"

fread(s) ==
    IF is_virtual_device(s) THEN device_read(s) ELSE IF s.name = "stdin" THEN "keyboard" ELSE FatSink(TRUE)
\* fwrite asks for an active file system for stderr, and not for files.
fwrite(s) ==
    CASE is_virtual_device(s) -> device_write(s) [] s.name = "stdout" -> "screen"
      [] s.name = "stderr" -> IF st.fs_active THEN "serial" ELSE "refused"
      [] OTHER -> FatSink(FALSE)
fputc(s) == CASE s.name = "stdout" -> "screen" [] s.name = "stderr" -> "serial" [] OTHER -> FatSink(TRUE)
fputs(s) ==
    CASE s.name = "stdout" -> "screen" [] s.name = "stderr" -> "serial" [] s.name = "stdin" -> "refused"
      [] OTHER -> FatSink(TRUE)
fseek(s) == FatSink(TRUE)
ftell(s) == IF s.name = "stdin" THEN "keyboard" ELSE FatSink(TRUE)
fgets(s) == IF s.name = "stdin" THEN "keyboard" ELSE FatSink(TRUE)
fprintf(s) ==
    CASE s.name = "stdout" -> "screen" [] s.name = "stderr" -> "serial"
      [] OTHER -> IF st.fs_active THEN fwrite(s) ELSE "refused"
ungetc(s) == IF s.name = "stdin" THEN "keyboard" ELSE IF st.fs_active THEN fputc(s) ELSE "refused"

Sink(op, s) ==
    CASE op = "fread" -> fread(s) [] op = "fwrite" -> fwrite(s) [] op = "fputc" -> fputc(s)
      [] op = "fputs" -> fputs(s) [] op = "fseek" -> fseek(s) [] op = "ftell" -> ftell(s)
      [] op = "fgets" -> fgets(s) [] op = "fprintf" -> fprintf(s) [] op = "ungetc" -> ungetc(s)

Ops == {"fread", "fwrite", "fputc", "fputs", "fseek", "ftell", "fgets", "fprintf", "ungetc"}
Reading == {"fread", "fgets", "ftell", "ungetc"}

\* Programs read from stdin and write to stdout and stderr, and give devices only to the
\* functions that ask is_virtual_device; anything else hands the FAT library a number
\* that is no handle.
Proper(op, s) ==
    /\ is_virtual_device(s) => op \in {"fread", "fwrite"}
    /\ s.name = "stdin" => op \in Reading
    /\ s.name \in {"stdout", "stderr"} => op \notin Reading /\ op /= "fseek"

-----------------------------------------------------------------------------
InitVfs ==
    /\ \E m \in Machines :
          st = [devs |-> [i \in DOMAIN m |-> m[i] @@ [fs |-> "?"]], primary |-> -1,
                sel |-> [t \in {"AHCI", "IDE"} |-> 0], attached |-> FALSE, fs_active |-> FALSE]
    /\ handles = Closed /\ open_files = <<>>
    /\ cwd = [names |-> <<>>, empty |-> FALSE, freed |-> FALSE]
    /\ stale = FALSE

NextVfs ==
    \/ Boot \/ SetPrimary \/ chdir \/ fclose \/ fs_shutdown
    \/ \E n \in Names : fopen(n)
SpecVfs == InitVfs /\ [][NextVfs]_vfsVars
-----------------------------------------------------------------------------
Belongs(op, s) ==
    CASE s.name = "stdin" -> "keyboard" [] s.name = "stdout" -> "screen" [] s.name = "stderr" -> "serial"
      [] is_virtual_device(s) -> IF op = "fread" THEN decode_device(s.name).read ELSE decode_device(s.name).write
      [] OTHER -> "FAT"

=============================================================================
