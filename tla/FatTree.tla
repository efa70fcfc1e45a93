------------------------------- MODULE FatTree -------------------------------
(***************************************************************************)
(* The directory tree of a FAT volume and the pool of file handles         *)
(* (fat_filelib.c): how paths are followed, and files and directories       *)
(* made, opened, listed and renamed.  A directory is its cluster; what     *)
(* files hold is in FatFiles, how entries are stored in FatDir.            *)
(***************************************************************************)
EXTENDS Naturals, Sequences, FiniteSets, FiniteSetsExt

CONSTANTS Names, Clusters, MAX_OPEN_FILES,
          MaxDepth,   \* bound on the length of a path
          MAX         \* names a list of files or directories has room for

VARIABLES fat16,
          dirs,    \* cluster of a directory -> name -> entry
          used,    \* clusters that are not free
          handles, \* the path of every handle that is not free
          made,    \* auxiliary: path -> "file" or "dir"
          waste,   \* auxiliary: clusters that error paths lost
          hung     \* rename never returns
treeVars == <<fat16, dirs, used, handles, made, waste, hung>>

Paths == UNION {[1 .. n -> Names] : n \in 1 .. MaxDepth}
Parent(path) == SubSeq(path, 1, Len(path) - 1)
Name(path) == path[Len(path)]
Without(f, x) == [y \in DOMAIN f \ {x} |-> f[y]]
With(f, x, v) == [y \in DOMAIN f \cup {x} |-> IF y = x THEN v ELSE f[y]]

\* On FAT16 the root directory has no cluster: its number is 0.
fatfs_get_root_cluster == IF fat16 THEN 0 ELSE 2
INVALID == 99999
fatfs_get_file_entry(c, n) == c \in DOMAIN dirs /\ n \in DOMAIN dirs[c]

\* The cluster of the directory at the end of the path, or INVALID.
RECURSIVE Descend(_, _)
Descend(c, path) ==
    IF path = <<>> THEN c
    ELSE IF fatfs_get_file_entry(c, Head(path)) /\ dirs[c][Head(path)].dir
    THEN Descend(dirs[c][Head(path)].cluster, Tail(path))
    ELSE INVALID
_open_directory(path) == Descend(fatfs_get_root_cluster, path)
fl_opendir(path) == _open_directory(path)
fl_is_dir(path) == fl_opendir(path) /= INVALID

_allocate_file == Cardinality(handles) < MAX_OPEN_FILES
_check_file_open(path) == path \in handles

\* _open_file succeeds: the handle is new, and its path leads to a file.
CanOpen(path) ==
    \E p \in {_open_directory(Parent(path))} :
        /\ _allocate_file /\ ~_check_file_open(path)
        /\ p /= INVALID /\ fatfs_get_file_entry(p, Name(path)) /\ ~dirs[p][Name(path)].dir

Free == Clusters \ used
\* The directory is made in a cluster of its own before its name is entered.
CanCreate(path) ==
    \E p \in {_open_directory(Parent(path))} :
        /\ _allocate_file /\ ~_check_file_open(path)
        /\ p /= INVALID /\ ~fatfs_get_file_entry(p, Name(path)) /\ Free /= {}

\* "." and ".." are entered as directories without a cluster.
Dots == [n \in {".", ".."} |-> [dir |-> TRUE, cluster |-> 0]]
fatfs_add_special_entries(c, parent) == c >= 2 /\ parent >= 2

Enter(path, c, kind) ==
    \E p \in {_open_directory(Parent(path))} :
        /\ dirs' = [x \in DOMAIN dirs \cup (IF kind = "dir" THEN {c} ELSE {}) |->
                      IF x = p THEN With(dirs[p], Name(path), [dir |-> kind = "dir", cluster |-> c])
                      ELSE IF x = c THEN Dots ELSE dirs[x]]
        /\ made' = With(made, path, kind)
        /\ used' = used \cup {c}

\* Mutant: the cluster is not given back when the name cannot be entered.
CreateDirKeepsCluster(path, written, returned, room) ==
    /\ CanCreate(path)
    /\ IF ~written \/ ~room
       THEN /\ used' = used \cup {Min(Free)}
            /\ waste' = IF written THEN waste ELSE waste \cup {Min(Free)}
            /\ UNCHANGED <<dirs, made>>
       ELSE IF fatfs_add_special_entries(Min(Free), _open_directory(Parent(path))) /\ returned
       THEN Enter(path, Min(Free), "dir") /\ UNCHANGED waste
       ELSE UNCHANGED <<dirs, made, used, waste>>
    /\ UNCHANGED <<fat16, handles, hung>>

\* When the new cluster cannot be cleared (written is FALSE) it is not given back.
\* fatfs_add_special_entries ends without a return: its result is whatever
\* the register holds (returned).  The entry may find no room.
_create_directory(path, written, returned, room) ==
    /\ CanCreate(path)
    /\ IF ~written
       THEN used' = used \cup {Min(Free)} /\ waste' = waste \cup {Min(Free)}
            /\ UNCHANGED <<dirs, made>>
       ELSE IF fatfs_add_special_entries(Min(Free), _open_directory(Parent(path))) /\ returned /\ room
       THEN Enter(path, Min(Free), "dir") /\ UNCHANGED waste
       ELSE UNCHANGED <<dirs, made, used, waste>>
    /\ UNCHANGED <<fat16, handles, hung>>

_create_file(path) ==
    /\ CanCreate(path)
    /\ Enter(path, Min(Free), "file")
    /\ handles' = handles \cup {path}

\* "r" opens, "w" makes the file or opens the one there is.
fl_fopen(path, mode) ==
    /\ \/ CanOpen(path) /\ handles' = handles \cup {path} /\ UNCHANGED <<dirs, used, made>>
       \/ mode = "w" /\ _create_file(path)
    /\ UNCHANGED <<fat16, waste, hung>>

fl_fclose(path) ==
    /\ handles' = handles \ {path}
    /\ UNCHANGED <<fat16, dirs, used, made, waste, hung>>

fl_remove(path) ==
    /\ CanOpen(path)
    /\ \E p \in {_open_directory(Parent(path))} :
          /\ used' = used \ {dirs[p][Name(path)].cluster}
          /\ dirs' = [dirs EXCEPT ![p] = Without(@, Name(path))]
    /\ made' = Without(made, path)
    /\ UNCHANGED <<fat16, handles, waste, hung>>

\* is_file returns before it closes the file: the handle stays open.
is_file(path) ==
    /\ CanOpen(path)
    /\ handles' = handles \cup {path}
    /\ UNCHANGED <<fat16, dirs, used, made, waste, hung>>

\* Both files are opened; then the copying goes on for ever, because the end of the old one is reported
\* as another number than EOF.  If the new one cannot be opened nothing changes.
rename(old, new) ==
    /\ CanOpen(old) /\ old /= new
    /\ Cardinality(handles) + 1 < MAX_OPEN_FILES
    /\ \/ CanOpen(new) /\ UNCHANGED <<dirs, used, made>>
       \/ CanCreate(new) /\ Enter(new, Min(Free), "file")
    /\ handles' = handles \cup {old, new}
    /\ hung' = TRUE
    /\ UNCHANGED <<fat16, waste>>

\* What the three listings find in a directory: the names of a kind, "." and ".." too.
\* fl_listdirectory keeps the first MAX of a kind, fl_count_files counts them all.
Listed(path, kind) == {n \in DOMAIN dirs[fl_opendir(path)] : dirs[fl_opendir(path)][n].dir <=> kind = "dir"}
fl_count_files(path, kind) == IF fl_is_dir(path) THEN Cardinality(Listed(path, kind)) ELSE 0
fl_listdirectory(path, kind) ==
    IF fl_count_files(path, kind) > MAX THEN MAX ELSE fl_count_files(path, kind)
fl_populate_file_list(path) == IF fl_is_dir(path) THEN Listed(path, "file") ELSE {}

InitTree ==
    /\ fat16 \in BOOLEAN
    /\ dirs = [c \in {fatfs_get_root_cluster} |-> <<>>]
    /\ used = {2} /\ handles = {} /\ made = <<>> /\ hung = FALSE
    /\ waste = {}

NextTree ==
    /\ ~hung
    /\ \/ \E path \in Paths :
             \/ \E w, r, room \in BOOLEAN : _create_directory(path, w, r, room)
             \/ \E m \in {"r", "w"} : fl_fopen(path, m)
             \/ is_file(path) \/ fl_remove(path)
             \/ \E new \in Paths : rename(path, new)
       \/ \E path \in handles : fl_fclose(path)
SpecTree == InitTree /\ [][NextTree]_treeVars
-----------------------------------------------------------------------------
\* The children of a directory by the paths that were made.
Made(path, kind) == {p \in DOMAIN made : Parent(p) = path /\ made[p] = kind}

\* Every path leads to what was made under it and to nothing else; the listings agree with one
\* another and with that; no two names share a cluster; and but for the clusters a failed
\* creation of a directory lost, the clusters in use are those of the tree: an operation
\* that fails half way leaves tree and clusters as they were.
FatTreeIsSound ==
    /\ \A path \in Paths :
          /\ fl_is_dir(path) <=> path \in DOMAIN made /\ made[path] = "dir"
          /\ CanOpen(path) => path \in DOMAIN made /\ made[path] = "file"
    /\ \A path \in {<<>>} \cup {p \in DOMAIN made : made[p] = "dir"} :
          /\ fl_populate_file_list(path) = {Name(p) : p \in Made(path, "file")}
          /\ fl_count_files(path, "dir") = Cardinality(Made(path, "dir")) + (IF path = <<>> THEN 0 ELSE 2)
          /\ fl_listdirectory(path, "file") = Min({MAX, Cardinality(Made(path, "file"))})
    /\ LET kids == {<<c, n>> \in (DOMAIN dirs) \X Names : n \in DOMAIN dirs[c]}
       IN  /\ Cardinality({dirs[k[1]][k[2]].cluster : k \in kids}) = Cardinality(kids)
           /\ used = {2} \cup waste \cup {dirs[k[1]][k[2]].cluster : k \in kids}
=============================================================================
