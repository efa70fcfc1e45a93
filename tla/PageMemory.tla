------------------------------ MODULE PageMemory ------------------------------
(***************************************************************************)
(* Physical pages and page tables (pmm.c, vmm.c): the stack of free pages,  *)
(* which grows by the pages that are freed, the tables that map() allocates *)
(* on the way, and the cloning and destruction of page directories.  Page   *)
(* and address arithmetic is in pages; a directory and a table have N       *)
(* entries, and the layout of layout.h is scaled to N directory entries.    *)
(* An entry is 0 or 1 + the page it names; flags are left out.  A memory     *)
(* access through a page that is not mapped halts the kernel.               *)
(***************************************************************************)
EXTENDS Integers, Sequences, FiniteSets, SequencesExt, FiniteSetsExt

CONSTANTS N,          \* entries of a table: 1024
          Pages,      \* physical pages
          KernelEnd,  \* page at which the kernel image ends
          Maps,       \* the boot loader's memory maps: sequences of [base, len] of usable RAM
          PAGE,       \* PAGE_SIZE where pmm_alloc_pages takes it for a page count
          Ranges,     \* ranges <<first, last + 1>> asked of allocate_range
          Sizes,      \* sizes asked of find_free_range and sys_allocate_virtual_memory
          MaxDirs,    \* bound on the directories
          MaxCalls    \* bound on the calls after boot

\* layout.h, by directory entry.
KERNEL_TABLES == N - 1
KERNEL_DIR == N - 2           \* its last slot; PMM_STACK_END lies just below
STACK_DIR == N - 3            \* its last slot is PMM_STACK_START
MOUNT_TABS == {N - 5, N - 4}
KERNEL_SPACE == N - 6
USER_TABLES == N - 7
USER_DIR == N - 8             \* its last slot
PMM_STACK_START == STACK_DIR * N + N - 1
MOUNT_DIR == {STACK_DIR * N + N - 3, STACK_DIR * N + N - 2}

VARIABLES pm,      \* mem, stack, pages, location, active, kdir, halted, mmap, heap: see init_pmm_page
          dirs,    \* the directories made by clone_directory
          lapses,  \* auxiliary: what went before that loses pages or hands them out twice
          ram,     \* auxiliary: the pages the boot loader reported
          calls    \* auxiliary: the calls after boot
pageVars == <<pm, dirs, lapses, ram, calls>>

Empty == [i \in 0 .. N - 1 |-> 0]
Frame(e) == e - 1
Entry(p) == p + 1

\* Popping an empty stack only logs a message and reads below the stack.
pmm_alloc_page(s) ==
    IF ~s.active THEN [s |-> [s EXCEPT !.location = @ + 1], p |-> s.location]
    ELSE IF s.stack = <<>> THEN [s |-> [s EXCEPT !.halted = TRUE], p |-> 0]
    ELSE [s |-> [s EXCEPT !.stack = Front(@)], p |-> Last(s.stack)]

DirEntry(va) == va \div N
Slot(va) == va % N
TableOf(s, d) == Frame(s.mem[s.kdir][d])

\* map's second part, once the table exists.
SetPage(s, va, p) == [s EXCEPT !.mem[TableOf(s, DirEntry(va))][Slot(va)] = Entry(p)]

WithTable(a, d) ==
    IF a.s.halted THEN a.s
    ELSE [a.s EXCEPT !.mem[a.s.kdir][d] = Entry(a.p), !.mem[a.p] = Empty]

map(s, va, p) ==
    IF s.halted THEN s
    ELSE IF s.mem[s.kdir][DirEntry(va)] /= 0 THEN SetPage(s, va, p)
    ELSE LET s1 == WithTable(pmm_alloc_page(s), DirEntry(va))
         IN  IF s1.halted THEN s1 ELSE SetPage(s1, va, p)

unmap(s, va) == [s EXCEPT !.mem[TableOf(s, DirEntry(va))][Slot(va)] = 0]

get_mapping(s, va) ==
    IF s.mem[s.kdir][DirEntry(va)] = 0 THEN 0 ELSE s.mem[TableOf(s, DirEntry(va))][Slot(va)]

\* Mutant: every page is pushed, also one that init_vmm made a table.
FreeAnyPage(s, p) ==
    IF s.halted THEN s
    ELSE IF s.pages * N <= Len(s.stack)
    THEN [map(s, PMM_STACK_START + s.pages, p) EXCEPT !.pages = @ + 1]
    ELSE [s EXCEPT !.stack = Append(@, p)]

\* The page itself extends the stack when the stack is full.
pmm_free_page(s, p) ==
    IF s.halted \/ p < s.location THEN s
    ELSE IF s.pages * N <= Len(s.stack)
    THEN [map(s, PMM_STACK_START + s.pages, p) EXCEPT !.pages = @ + 1]
    ELSE [s EXCEPT !.stack = Append(@, p)]

-----------------------------------------------------------------------------
\* Boot.

init_pmm_page ==
    [mem |-> [p \in 0 .. Pages - 1 |-> Empty], stack |-> <<>>, pages |-> 0,
     location |-> KernelEnd + 1, active |-> FALSE, kdir |-> 0, halted |-> FALSE,
     mmap |-> <<>>, heap |-> FALSE]

\* A table page for directory entry d, before paging is on.
NewTable(s, d) == WithTable(pmm_alloc_page(s), d)

init_vmm(s0) ==
    LET a == pmm_alloc_page(s0)
        s1 == NewTable([a.s EXCEPT !.kdir = a.p], 0)
        s2 == [s1 EXCEPT !.mem[TableOf(s1, 0)] = [i \in 0 .. N - 1 |-> Entry(i)]]
        s3 == NewTable(s2, KERNEL_DIR)
        s4 == [s3 EXCEPT !.mem[TableOf(s3, KERNEL_DIR)][N - 1] = Entry(s3.kdir),
                         !.mem[s3.kdir][KERNEL_TABLES] = Entry(s3.kdir)]
        s5 == FoldLeft(NewTable, s4, SetToSortSeq(KERNEL_SPACE .. Min(MOUNT_TABS) - 1, <))
    IN  [NewTable(s5, STACK_DIR) EXCEPT !.active = TRUE]

\* One entry of the boot loader's map: its pages are freed.
pmm_collect_pages(s) ==
    LET r == Head(s.mmap)
    IN  [FoldLeft(pmm_free_page, s, [k \in 1 .. r.len |-> r.base + k - 1]) EXCEPT !.mmap = Tail(@)]

-----------------------------------------------------------------------------
\* Ranges.

AllocateOne(s, va) ==
    IF s.halted THEN s
    ELSE LET old == get_mapping(s, va)
             a == pmm_alloc_page(s)
         IN  IF old /= 0 THEN map(s, va, Frame(old)) ELSE map(a.s, va, a.p)

allocate_range(s, from, to) ==
    FoldLeft(AllocateOne, s, [k \in 1 .. to - from |-> from + k - 1])

\* n - PAGE is unsigned: a smaller n takes every page there is.
pmm_alloc_pages(s, n) ==
    LET a == pmm_alloc_page(s)
        more(t, k) == LET b == pmm_alloc_page(t) IN map(b.s, a.p + k, b.p)
    IN  IF n < PAGE THEN [s EXCEPT !.halted = TRUE]
        ELSE FoldLeft(more, map(a.s, a.p, a.p), [k \in 1 .. n - PAGE |-> k])

\* One page is allocated however large size is; pages behind it are mapped as well.
sys_allocate_virtual_memory(s, va, size) ==
    LET a == pmm_alloc_page(s)
    IN  IF a.p = 0 THEN a.s
        ELSE FoldLeft(LAMBDA t, k : map(t, va + k - 1, a.p + k - 1), a.s, [k \in 1 .. size |-> k])

\* The first page of the range that is mapped, or its end.
FirstMapped(s, va, size) ==
    Min({va + size} \cup {v \in va .. va + size - 1 : get_mapping(s, v) /= 0})

\* Mutant: the search resumes at the page that was mapped.
RECURSIVE FindFreeResumes(_, _, _, _, _)
FindFreeResumes(s, from, to, size, step) ==
    IF from >= to THEN to
    ELSE LET va == FirstMapped(s, from, size)
         IN  IF va = from + size THEN from
             ELSE FindFreeResumes(s, from + step * ((va - from) \div step + 2), to, size, step)

RECURSIVE find_free_range(_, _, _, _, _)
find_free_range(s, from, to, size, step) ==
    IF from >= to THEN to
    ELSE LET va == FirstMapped(s, from, size)
         IN  IF va = from + size THEN from
             ELSE find_free_range(s, from + step * ((va - from) \div step + 1), to, size, step)

-----------------------------------------------------------------------------
\* Directories.

\* The first free mount point of each kind; 0 stands for NULL.
find_mount_point(s) ==
    LET free == {va \in MOUNT_DIR : get_mapping(s, va) = 0}
        tabs == {d \in MOUNT_TABS : s.mem[s.kdir][d] = 0}
    IN  [directory |-> IF free = {} THEN 0 ELSE Min(free), pages |-> IF tabs = {} THEN 0 ELSE Min(tabs)]

mount_directory(s, mp, dir) ==
    [map(s, mp.directory, dir) EXCEPT !.mem[s.kdir][mp.pages] = Entry(dir)]

umount_directory(s, mp) == [unmap(s, mp.directory) EXCEPT !.mem[s.kdir][mp.pages] = 0]

\* A page of its own for slot j of table t, with what the page of entry e holds.
ClonePage(a, t, j, e) ==
    IF a.s.halted THEN a.s
    ELSE [a.s EXCEPT !.mem[t][j] = Entry(a.p), !.mem[a.p] = a.s.mem[Frame(e)]]

CloneTable(a, dest, i, from) ==
    LET s == [a.s EXCEPT !.mem[dest][i] = Entry(a.p), !.mem[a.p] = Empty]
        one(t, k) == LET e == t.mem[from][k - 1]
                     IN  IF t.halted \/ e = 0 THEN t ELSE ClonePage(pmm_alloc_page(t), a.p, k - 1, e)
    IN  IF a.s.halted THEN a.s ELSE FoldLeft(one, s, [k \in 1 .. N |-> k])

CloneEntry(s, src, dest, i) ==
    LET e == s.mem[src][i]
    IN  IF s.halted \/ e = 0 THEN s
        ELSE IF e = s.mem[s.kdir][i] THEN [s EXCEPT !.mem[dest][i] = e]
        ELSE CloneTable(pmm_alloc_page(s), dest, i, Frame(e))

\* The clone's view of itself; the new table is not cleared.
MapItself(a, dest) ==
    IF a.s.halted THEN a.s
    ELSE [a.s EXCEPT !.mem[dest][USER_DIR] = Entry(a.p), !.mem[a.p][N - 1] = Entry(dest),
                     !.mem[dest][USER_TABLES] = Entry(dest)]

CloneInto(s, src, dest, mp1) ==
    LET s1 == mount_directory(s, mp1, src)
        mp2 == find_mount_point(s1)
        s2 == [mount_directory(s1, mp2, dest) EXCEPT !.mem[dest] = Empty]
        s3 == FoldLeft(LAMBDA t, k : CloneEntry(t, src, dest, k - 1), s2, [k \in 1 .. N |-> k])
        s4 == MapItself(pmm_alloc_page(s3), dest)
    IN  IF s3.halted \/ s4.halted THEN [s EXCEPT !.halted = TRUE]
        ELSE umount_directory(umount_directory(s4, mp1), mp2)

clone_directory(a, src) ==
    IF a.s.halted THEN a.s ELSE CloneInto(a.s, src, a.p, find_mount_point(a.s))

DestroyEntry(s, dir, i) ==
    LET e == s.mem[dir][i]
        one(t, k) == LET q == t.mem[Frame(e)][k - 1]
                     IN  IF q = 0 \/ (i = USER_DIR /\ k = N) THEN t ELSE pmm_free_page(t, Frame(q))
    IN  IF e = 0 \/ e = s.mem[s.kdir][i] \/ i = USER_TABLES THEN s
        ELSE pmm_free_page(FoldLeft(one, s, [k \in 1 .. N |-> k]), Frame(e))

destroy_directory(s, dir) ==
    LET mp == find_mount_point(s)
        s1 == FoldLeft(LAMBDA t, k : DestroyEntry(t, dir, k - 1), mount_directory(s, mp, dir),
                       [k \in 1 .. KERNEL_SPACE |-> k])
    IN  umount_directory(pmm_free_page(s1, dir), mp)

-----------------------------------------------------------------------------
InitPages == pm = init_pmm_page /\ dirs = {} /\ lapses = {} /\ ram = {} /\ calls = 0

Up == pm.heap /\ ~pm.halted /\ "dirty table" \notin lapses
Becomes(s) == pm' = s
Call == Up /\ calls < MaxCalls /\ calls' = calls + 1

Boot ==
    /\ ~pm.active
    /\ \E mmap \in Maps :
          /\ \E s \in {init_vmm(pm)} : Becomes([s EXCEPT !.mmap = mmap])
          /\ ram' = UNION {r.base .. r.base + r.len - 1 : r \in ToSet(mmap)}
    /\ UNCHANGED <<dirs, lapses, calls>>

Collect ==
    /\ pm.mmap /= <<>>
    /\ \E s \in {pmm_collect_pages(pm)} : Becomes(s)
    /\ UNCHANGED <<dirs, lapses, ram, calls>>

\* init_kheap's run of pages, the one call of pmm_alloc_pages.
HeapPages ==
    /\ pm.active /\ pm.mmap = <<>> /\ ~pm.heap
    /\ \E n \in 1 .. PAGE + 2 : \E s \in {pmm_alloc_pages(pm, n)} : Becomes([s EXCEPT !.heap = TRUE])
    /\ UNCHANGED <<dirs, lapses, ram, calls>>

AllocateRange ==
    /\ Call
    /\ \E r \in Ranges : \E s \in {allocate_range(pm, r[1], r[2])} : Becomes(s)
    /\ UNCHANGED <<dirs, lapses, ram>>

Unmap ==
    /\ Call
    /\ \E r \in Ranges : /\ get_mapping(pm, r[1]) /= 0
                         /\ \E s \in {unmap(pm, r[1])} : Becomes(s)
    /\ lapses' = lapses \cup {"unmapped"}
    /\ UNCHANGED <<dirs, ram>>

\* Bound: one page; a larger size maps pages the caller was not given.
AllocVirtual ==
    /\ Call
    /\ \E r \in Ranges : /\ get_mapping(pm, r[1]) = 0
                         /\ \E s \in {sys_allocate_virtual_memory(pm, r[1], 1)} : Becomes(s)
    /\ UNCHANGED <<dirs, lapses, ram>>

\* The clone's view of itself shows more than itself: the table had a former life.
Dirty(mem, dir) == \E i \in 0 .. N - 2 : mem[Frame(mem[dir][USER_DIR])][i] /= 0

Clone ==
    /\ Call /\ Cardinality(dirs) < MaxDirs
    /\ \E src \in dirs \cup {pm.kdir} : \E a \in {pmm_alloc_page(pm)} :
          /\ \E s \in {clone_directory(a, src)} : Becomes(s)
          /\ dirs' = dirs \cup {a.p}
          /\ lapses' = lapses \cup (IF src \in dirs THEN {"clone of a clone"} ELSE {})
                        \cup (IF pm'.halted \/ Dirty(pm'.mem, a.p) THEN {"dirty table"} ELSE {})
    /\ UNCHANGED ram

Destroy ==
    /\ Call
    /\ \E dir \in dirs : /\ \E s \in {destroy_directory(pm, dir)} : Becomes(s)
                         /\ dirs' = dirs \ {dir}
    /\ UNCHANGED <<lapses, ram>>

NextPages ==
    Boot \/ Collect \/ HeapPages \/ AllocateRange \/ Unmap \/ AllocVirtual \/ Clone \/ Destroy
SpecPages == InitPages /\ [][NextPages]_pageVars
-----------------------------------------------------------------------------
Named(t) == {Frame(e) : e \in {pm.mem[t][i] : i \in 0 .. N - 1} \ {0}}

\* The pages a directory refers to, the identity mapping of low memory apart.
Reach(dir) ==
    LET ds == {i \in 1 .. N - 1 : pm.mem[dir][i] /= 0}
    IN  {dir, Frame(pm.mem[dir][0])} \cup UNION {{Frame(pm.mem[dir][i])} \cup Named(Frame(pm.mem[dir][i])) : i \in ds \ MOUNT_TABS}

InUse == UNION {Reach(dir) : dir \in dirs \cup {pm.kdir}}

\* No page is handed out while it is in use: a page on the free stack is there once,
\* is no part of the stack, and no directory, table or mapping refers to it, however
\* tables are allocated inside map, directories cloned and destroyed, and the stack
\* extended by the pages that are freed.  It ends when clone_directory makes a table of
\* a page that is not zero, since it does not clear it.  Until a page is unmapped (unmap
\* frees nothing) or a clone is cloned (its own tables are copied and lost), every page of
\* RAM is also either free or in use.  find_free_range finds the first free range on its
\* grid.
PagesAreAccounted ==
    Up =>
    /\ IsInjective(pm.stack)
    /\ ToSet(pm.stack) \cap InUse = {}
    /\ pm.pages <= N
    /\ lapses /= {} \/ {p \in ram : p >= pm.location} \subseteq ToSet(pm.stack) \cup InUse
    /\ \A r \in Ranges, size \in Sizes : \A step \in {1, size} :
          LET starts == {r[1] + k * step : k \in 0 .. (r[2] - r[1]) }
              ok == {v \in starts : v < r[2] /\ \A u \in v .. v + size - 1 : get_mapping(pm, u) = 0}
          IN  find_free_range(pm, r[1], r[2], size, step) = IF ok = {} THEN r[2] ELSE Min(ok)
=============================================================================
