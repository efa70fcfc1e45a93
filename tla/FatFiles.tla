------------------------------ MODULE FatFiles ------------------------------
(***************************************************************************)
(* Files on a FAT volume: cluster chains and their allocation (fat_table.c,*)
(* fat_write.c) and the open, read, write, seek, flush, close and remove   *)
(* operations with their one-sector buffers (fat_filelib.c).  The table is *)
(* what module FatTable keeps behind its buffers, a directory what module  *)
(* FatDir keeps in its entries: a map from names to start and length.      *)
(***************************************************************************)
EXTENDS Integers, Sequences, FiniteSets, FiniteSetsExt, Functions

CONSTANTS SECTOR,               \* bytes in a sector
          sectors_per_cluster,
          Clusters,             \* the numbers of the clusters of the data area
          MAX_OPEN_FILES,
          Names,
          \* Bounds, for each name:
          Modes,                \* the modes fl_fopen is called with
          Lengths, Marks,       \* the bytes fl_fread and fl_fwrite are given
          MaxLength,
          SeekDirty             \* do callers seek with unwritten data buffered?

VARIABLES fat, data, dir,
          open,     \* the open file handles
          want,     \* auxiliary: the bytes each file should hold
          lost,     \* auxiliary: files a failed write or a seek took data from
          right     \* auxiliary: did the last read return the bytes it should?
fileVars == <<fat, data, dir, open, want, lost, right>>

LAST == -1           \* FAT32_LAST_CLUSTER
NONE == -1           \* 0xFFFFFFFF, as a sector or an index
Root == Min(Clusters)
Lesser(a, b) == IF a < b THEN a ELSE b
Repeat(x, n) == [i \in 1 .. n |-> x]
Blank == Repeat(0, SECTOR)

\* The link of a cluster; '..' is labelled with cluster 0.
NextCluster(t, c) == IF c = LAST THEN LAST ELSE t[IF c = 0 THEN Root ELSE c]

fatfs_find_blank_cluster(t) ==
    LET blank == {c \in DOMAIN t : t[c] = 0} IN IF blank = {} THEN 0 ELSE Min(blank)


\* Appends n clusters to the chain that ends at start; those it found before it
\* failed stay there.
RECURSIVE fatfs_add_free_space(_, _, _)
fatfs_add_free_space(t, start, n) ==
    LET new == fatfs_find_blank_cluster(t)
        more == fatfs_add_free_space([t EXCEPT ![start] = new, ![new] = LAST], new, n - 1)
    IN  IF n = 0 THEN [fat |-> t, first |-> start, ok |-> TRUE]
        ELSE IF new = 0 THEN [fat |-> t, first |-> 0, ok |-> FALSE]
        ELSE [more EXCEPT !.first = new]

\* For a new file of one cluster, as both callers ask for.
fatfs_allocate_free_space(t) ==
    LET new == fatfs_find_blank_cluster(t)
    IN  IF new = 0 THEN [fat |-> t, start |-> 0]
        ELSE [fat |-> [t EXCEPT ![new] = LAST], start |-> new]

RECURSIVE fatfs_free_cluster_chain(_, _)
fatfs_free_cluster_chain(t, c) ==
    IF c \in {LAST, 0} THEN t ELSE fatfs_free_cluster_chain([t EXCEPT ![c] = 0], NextCluster(t, c))

\* The chain after n more links, and the cluster before it.
RECURSIVE Follow(_, _, _)
Follow(t, c, n) ==
    IF n = 0 \/ c[2] = LAST THEN c ELSE Follow(t, <<c[2], NextCluster(t, c[2])>>, n - 1)

\* The walk to cluster idx of a file, from the last cluster looked up if it can.
Lookup(t, f, idx) ==
    IF idx = f.idx THEN <<LAST, f.cluster>>
    ELSE IF idx > 0 /\ idx = f.idx + 1 THEN Follow(t, <<LAST, f.cluster>>, 1)
    ELSE Follow(t, <<LAST, f.start>>, idx)

\* The operators below work on s = [fat, data, f]; n sectors were transferred.
Transferable(offset, count) == Lesser(count, sectors_per_cluster - (offset % sectors_per_cluster))

_read_sectors(s, offset, count) ==
    LET idx == offset \div sectors_per_cluster
        at == offset % sectors_per_cluster
        n == Transferable(offset, count)
        c == Lookup(s.fat, s.f, idx)[2]
    IN  IF c = LAST THEN [s |-> s, n |-> 0, buf |-> <<>>]
        ELSE [s |-> [s EXCEPT !.f.idx = idx, !.f.cluster = c], n |-> n,
              buf |-> SubSeq(s.data[c], at + 1, at + n)]

\* The cluster to write to: c is the one found, behind the last of the chain.
ClusterFor(t, c, count) ==
    IF c[2] /= LAST THEN [fat |-> t, first |-> c[2], ok |-> TRUE]
    ELSE fatfs_add_free_space(t, c[1], (count + sectors_per_cluster - 1) \div sectors_per_cluster)
PutSectors(s, a, offset, bufs) ==
    LET at == offset % sectors_per_cluster
        n == Transferable(offset, Len(bufs))
    IN  IF ~a.ok THEN [s |-> [s EXCEPT !.fat = a.fat], n |-> 0]
        ELSE [s |-> [s EXCEPT !.fat = a.fat, !.f.cluster = a.first,
                              !.f.idx = offset \div sectors_per_cluster,
                              !.data[a.first] = [k \in DOMAIN @ |->
                                  IF k \in at + 1 .. at + n THEN bufs[k - at] ELSE @[k]]],
              n |-> n]
_write_sectors(s, offset, bufs) ==
    PutSectors(s, ClusterFor(s.fat, Lookup(s.fat, s.f, offset \div sectors_per_cluster), Len(bufs)),
               offset, bufs)

\* The buffer is dropped by the callers, written or not; lost remembers that.
Flushed(w) ==
    IF w.n = 0 THEN [w.s EXCEPT !.f.lost = TRUE] ELSE [w.s EXCEPT !.f.dirty = FALSE]
fl_fflush(s) == IF s.f.dirty THEN Flushed(_write_sectors(s, s.f.address, <<s.f.buf>>)) ELSE s

\* The buffer with the sector in it: r is what could be read of it.
Loaded(r, sector) ==
    [r.s EXCEPT !.f.address = sector, !.f.dirty = FALSE, !.f.buf = IF r.n = 0 THEN Blank ELSE r.buf[1]]
Load(s, sector) == IF s.f.address = sector THEN s ELSE Loaded(_read_sectors(fl_fflush(s), sector, 1), sector)

\* Whole sectors go to the media directly, a part of one through the buffer.  A
\* caller is told that all bytes were written.
RECURSIVE WriteFrom(_, _), Direct(_, _)
Direct(w, bytes) ==
    IF w.n = 0 THEN [w.s EXCEPT !.f.lost = TRUE]
    ELSE WriteFrom([w.s EXCEPT !.f.bytenum = @ + w.n * SECTOR],
                   SubSeq(bytes, w.n * SECTOR + 1, Len(bytes)))
WriteFrom(s, bytes) ==
    LET sector == s.f.bytenum \div SECTOR
        offset == s.f.bytenum % SECTOR
        whole == Len(bytes) \div SECTOR
        n == Lesser(SECTOR - offset, Len(bytes))
    IN  IF bytes = <<>> THEN s
        ELSE IF offset = 0 /\ whole > 0
        THEN Direct(_write_sectors(
                        IF s.f.address = NONE THEN s
                        ELSE [fl_fflush(s) EXCEPT !.f.address = NONE, !.f.dirty = FALSE], sector,
                        [k \in 1 .. whole |-> SubSeq(bytes, (k - 1) * SECTOR + 1, k * SECTOR)]),
                    bytes)
        ELSE WriteFrom([Load(s, sector) EXCEPT
                            !.f.buf = [k \in 1 .. SECTOR |->
                                IF k \in offset + 1 .. offset + n THEN bytes[k - offset] ELSE @[k]],
                            !.f.dirty = TRUE, !.f.bytenum = @ + n],
                       SubSeq(bytes, n + 1, Len(bytes)))

Grown(f) == [f EXCEPT !.filelength = IF f.bytenum > @ THEN f.bytenum ELSE @, !.changed = TRUE]
fl_fwrite(s, bytes) ==
    LET start == IF "APPEND" \in s.f.flags THEN [s EXCEPT !.f.bytenum = s.f.filelength] ELSE s
    IN  [WriteFrom(start, bytes) EXCEPT !.f = Grown(@)]

RECURSIVE ReadFrom(_, _, _), ReadDirect(_, _, _), ReadBuffered(_, _, _)
ReadDirect(r, count, got) ==
    LET Flat[k \in 0 .. r.n] == IF k = 0 THEN <<>> ELSE Flat[k - 1] \o r.buf[k]
    IN  IF r.n = 0 THEN [s |-> r.s, got |-> got]
        ELSE ReadFrom([r.s EXCEPT !.f.bytenum = @ + r.n * SECTOR], count - r.n * SECTOR, got \o Flat[r.n])
ReadBuffered(s, count, got) ==
    LET offset == s.f.bytenum % SECTOR
        n == Lesser(SECTOR - offset, count)
    IN  ReadFrom([s EXCEPT !.f.bytenum = @ + n], count - n,
                 got \o SubSeq(s.f.buf, offset + 1, offset + n))
ReadFrom(s, count, got) ==
    LET sector == s.f.bytenum \div SECTOR
        Filled(r) == IF r.n = 0 THEN [s |-> r.s, got |-> got]
                     ELSE ReadBuffered(Loaded(r, sector), count, got)
    IN  IF count = 0 THEN [s |-> s, got |-> got]
        ELSE IF s.f.bytenum % SECTOR = 0 /\ count >= SECTOR
        THEN ReadDirect(_read_sectors(s, sector, count \div SECTOR), count, got)
        ELSE IF s.f.address = sector THEN ReadBuffered(s, count, got)
        ELSE Filled(_read_sectors(fl_fflush(s), sector, 1))

fl_fread(s, count) ==
    IF s.f.bytenum >= s.f.filelength THEN [s |-> s, got |-> <<>>]
    ELSE ReadFrom(s, Lesser(count, s.f.filelength - s.f.bytenum), <<>>)

fl_ftell(f) == f.bytenum
fl_feof(f) == fl_ftell(f) = f.filelength

\* A line of at most n - 1 bytes, byte by byte; a byte that cannot be read is taken
\* for a 0.
NEWLINE == 1
RECURSIVE fl_fgets(_, _, _), Got(_, _, _)
Got(r, n, line) == fl_fgets(r.s, n, Append(line, IF r.got = <<>> THEN 0 ELSE r.got[1]))
fl_fgets(s, n, line) ==
    IF Len(line) >= n - 1 \/ (line /= <<>> /\ line[Len(line)] = NEWLINE) \/ s.f.bytenum >= s.f.filelength
    THEN [s |-> s, got |-> line]
    ELSE Got(fl_fread(s, 1), n, line)

Position(f, offset, origin) ==
    CASE origin = "SET" -> Lesser(offset, f.filelength)
      [] origin = "CUR" -> IF offset >= 0 THEN Lesser(f.bytenum + offset, f.filelength)
                           ELSE IF -offset > f.bytenum THEN 0 ELSE f.bytenum + offset
      [] origin = "END" -> f.filelength

fl_fseek(f, offset, origin) ==
    [f EXCEPT !.bytenum = Position(f, offset, origin), !.address = NONE, !.dirty = FALSE]

\* The flags of a mode: '+' after "a" is taken for '+' after "w".
Flags(mode) ==
    CASE mode = "r"  -> {"READ"}
      [] mode = "w"  -> {"WRITE", "ERASE", "CREATE"}
      [] mode = "a"  -> {"WRITE", "APPEND", "CREATE"}
      [] mode = "r+" -> {"READ", "WRITE"}
      [] mode = "w+" -> {"WRITE", "ERASE", "CREATE", "READ"}
      [] mode = "a+" -> {"WRITE", "APPEND", "CREATE", "READ", "ERASE"}
-----------------------------------------------------------------------------
Fresh(n, e, flags) ==
    [name |-> n, start |-> e.start, filelength |-> e.size, bytenum |-> 0, address |-> NONE,
     dirty |-> FALSE, changed |-> FALSE, buf |-> Blank, idx |-> NONE, cluster |-> NONE,
     flags |-> flags, lost |-> FALSE]
None == [start |-> 0, size |-> 0]
Exists(n) == dir[n] /= None
State(f) == [fat |-> fat, data |-> data, f |-> f]

InitFiles ==
    /\ fat = [c \in Clusters |-> IF c = Root THEN LAST ELSE 0]
    /\ data = [c \in Clusters |-> Repeat(Blank, sectors_per_cluster)]
    /\ dir = [n \in Names |-> None]
    /\ open = {}
    /\ want = [n \in Names |-> <<>>]
    /\ lost = {}
    /\ right = TRUE

_allocate_file == Cardinality(open) < MAX_OPEN_FILES
_check_file_open(n) == \E f \in open : f.name = n

_open_file(n, flags) ==
    /\ Exists(n)
    /\ open' = open \cup {Fresh(n, dir[n], flags)}
    /\ UNCHANGED <<fat, dir, want, lost>>

\* The entry may not fit into the directory (room is FALSE): then the cluster is freed.
_create_file(n, flags, room) ==
    \E a \in {fatfs_allocate_free_space(fat)} :
        /\ ~Exists(n) /\ a.start /= 0
        /\ IF room
           THEN LET e == [start |-> a.start, size |-> 0]
                IN  /\ fat' = a.fat
                    /\ dir' = [dir EXCEPT ![n] = e]
                    /\ open' = open \cup {Fresh(n, e, flags)}
                    /\ want' = [want EXCEPT ![n] = <<>>]
                    /\ lost' = lost \ {n}
           ELSE /\ fat' = fatfs_free_cluster_chain(a.fat, a.start)
                /\ UNCHANGED <<dir, open, want, lost>>

\* An existing file is opened as it is, its content kept, in every mode.
fl_fopen(n, mode) ==
    /\ _allocate_file /\ ~_check_file_open(n)
    /\ \/ _open_file(n, Flags(mode))
       \/ "CREATE" \in Flags(mode) /\ \E room \in BOOLEAN : _create_file(n, Flags(mode), room)
    /\ right' = TRUE
    /\ UNCHANGED data

\* A handle after an operation on it.
Becomes(f, s) ==
    /\ fat' = s.fat /\ data' = s.data
    /\ open' = (open \ {f}) \cup {s.f}
    /\ lost' = IF s.f.lost THEN lost \cup {f.name} ELSE lost

Overwritten(old, at, bytes) ==
    [k \in 1 .. (IF at + Len(bytes) > Len(old) THEN at + Len(bytes) ELSE Len(old)) |->
        IF k \in at + 1 .. at + Len(bytes) THEN bytes[k - at] ELSE old[k]]

Fwrite(f, bytes) ==
    LET at == IF "APPEND" \in f.flags THEN f.filelength ELSE f.bytenum
    IN  /\ "WRITE" \in f.flags /\ at + Len(bytes) <= MaxLength[f.name]
        /\ \E s \in {fl_fwrite(State(f), bytes)} : Becomes(f, s)
        /\ want' = [want EXCEPT ![f.name] = IF f.name \in lost THEN @ ELSE Overwritten(@, at, bytes)]
        /\ right' = TRUE
        /\ UNCHANGED dir

Fread(f, count) ==
    /\ "READ" \in f.flags
    /\ \E r \in {fl_fread(State(f), count)} :
          /\ Becomes(f, r.s)
          /\ right' = (f.name \in lost' \/ r.got = SubSeq(want[f.name], f.bytenum + 1,
                                                      Lesser(f.bytenum + count, Len(want[f.name]))))
    /\ UNCHANGED <<dir, want>>

Line(bytes, n) ==
    LET ends == {k \in DOMAIN bytes : k = n - 1 \/ bytes[k] = NEWLINE}
    IN  SubSeq(bytes, 1, Min(ends \cup {Len(bytes)}))
Fgets(f, n) ==
    /\ "READ" \in f.flags
    /\ \E r \in {fl_fgets(State(f), n, <<>>)} :
          /\ Becomes(f, r.s)
          /\ right' = (f.name \in lost' \/
                         /\ r.got = Line(SubSeq(want[f.name], f.bytenum + 1, Len(want[f.name])), n)
                         /\ fl_feof(r.s.f) <=> f.bytenum + Len(r.got) = Len(want[f.name]))
    /\ UNCHANGED <<dir, want>>

Fseek(f, offset, origin) ==
    /\ SeekDirty \/ ~f.dirty
    /\ \E g \in {fl_fseek(f, offset, origin)} :
          Becomes(f, State([g EXCEPT !.lost = @ \/ f.dirty]))
    /\ right' = TRUE
    /\ UNCHANGED <<dir, want>>

Fflush(f) ==
    /\ f.dirty
    /\ \E s \in {fl_fflush(State(f))} : Becomes(f, s)
    /\ right' = TRUE
    /\ UNCHANGED <<dir, want>>

Closes(f, changed) ==
    \E s \in {fl_fflush(State(f))} :
        /\ fat' = s.fat /\ data' = s.data
        /\ open' = open \ {f}
        /\ lost' = IF s.f.lost THEN lost \cup {f.name} ELSE lost
        /\ dir' = IF changed THEN [dir EXCEPT ![f.name].size = f.filelength] ELSE dir
        /\ right' = TRUE
        /\ UNCHANGED want

\* Mutant: the directory is told the new length only if the buffer is dirty.
CloseForgetsLength(f) == Closes(f, f.changed /\ f.dirty)

fl_fclose(f) == Closes(f, f.changed)

\* What a free cluster holds is nobody's: it is not kept.
fl_remove(n) ==
    /\ _allocate_file /\ ~_check_file_open(n) /\ Exists(n)
    /\ fat' = fatfs_free_cluster_chain(fat, dir[n].start)
    /\ data' = [c \in Clusters |-> IF fat'[c] = 0 THEN Repeat(Blank, sectors_per_cluster) ELSE data[c]]
    /\ dir' = [dir EXCEPT ![n] = None]
    /\ want' = [want EXCEPT ![n] = <<>>]
    /\ lost' = lost \ {n}
    /\ right' = TRUE
    /\ UNCHANGED open

NextFiles ==
    \/ \E n \in Names : fl_remove(n) \/ \E m \in Modes[n] : fl_fopen(n, m)
    \/ \E f \in open :
          \/ \E l \in Lengths[f.name] : Fread(f, l) \/ \E m \in Marks[f.name] : Fwrite(f, Repeat(m, l))
          \/ \E p \in 0 .. MaxLength[f.name] : Fseek(f, p, "SET")
          \/ \E p \in {-1, 1} : Fseek(f, p, "CUR")
          \/ Fgets(f, 3) \/ Fseek(f, 0, "END") \/ Fflush(f) \/ fl_fclose(f)

SpecFiles == InitFiles /\ [][NextFiles]_fileVars
-----------------------------------------------------------------------------
RECURSIVE Chain(_)
Chain(c) == IF c \in {LAST, 0} THEN <<>> ELSE <<c>> \o Chain(fat[c])
ChainOf(n) == Chain(dir[n].start)

\* What a file that nobody has open holds on the media.
RECURSIVE Bytes(_)
Bytes(chain) ==
    IF chain = <<>> THEN <<>>
    ELSE LET F[k \in 0 .. sectors_per_cluster] ==
                 IF k = 0 THEN <<>> ELSE F[k - 1] \o data[Head(chain)][k]
         IN  F[sectors_per_cluster] \o Bytes(Tail(chain))

\* A closed file holds the bytes that were written to it, and a read of an open one
\* returns them, whether they went through its buffer or around it and wherever its
\* chain runs, unless the volume was full or a seek dropped unwritten data.
FatFilesKeepBytes ==
    /\ right
    /\ \A n \in Names :
          Exists(n) /\ ~_check_file_open(n) /\ n \notin lost =>
              /\ dir[n].size = Len(want[n])
              /\ SubSeq(Bytes(ChainOf(n)), 1, dir[n].size) = want[n]

\* Every cluster is free or in the chain of exactly one file (or the root directory),
\* also after an extension that failed half way: none is shared and none leaks.
ClustersHaveOneOwner ==
    /\ \A n, m \in Names : n /= m => Range(ChainOf(n)) \cap Range(ChainOf(m)) = {}
    /\ {c \in Clusters : fat[c] /= 0} = {Root} \cup UNION {Range(ChainOf(n)) : n \in Names}
=============================================================================
