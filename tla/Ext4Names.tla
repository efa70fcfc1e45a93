------------------------------ MODULE Ext4Names ------------------------------
(***************************************************************************)
(* The names of an ext4 file system (src/drivers/fs/ext/ext4.c): create,   *)
(* link, rename, remove a file, make a directory and remove a directory    *)
(* with everything below it.  One call at a time holds the mount point's   *)
(* lock; a call runs as one or several journal transactions, and a crash   *)
(* can come between two of them.  Paths are sequences of names; the order  *)
(* of names is the order in which a directory is listed.                   *)
(***************************************************************************)
EXTENDS Integers, Sequences, FiniteSets

CONSTANTS Inodes,      \* inode numbers; 2 is the root
          Names,       \* 1 .. n
          Paths,       \* paths that callers pass
          Journal,     \* a failed call is rolled back
          RmShared,    \* callers remove directories with files that have other names
          MoveBelow,   \* callers move a directory below itself
          MaxCrash

Root == 2
NoKids == [n \in Names |-> 0]
Free == [type |-> "free", links |-> 0, kids |-> NoKids, up |-> 0]

VARIABLES fs,        \* the inodes
          op,        \* the call in progress that takes several transactions
          wanted,    \* what that call should leave behind, from its specification
          crashes
nameVars == <<fs, op, wanted, crashes>>

Idle == [call |-> "none", at |-> 0, up |-> 0, depth |-> 0, pos |-> 0, top |-> 0, name |-> 0]
IsDir(s, i) == s[i].type = "dir"
has_children(s, i) == IsDir(s, i) /\ \E n \in Names : s[i].kids[n] /= 0
Used(s) == {i \in Inodes : s[i].type /= "free"}
Error(r, s) == [r |-> r, s |-> s, inode |-> 0, parent |-> 0]

links_count_inc(s, i) == [s EXCEPT ![i].links = @ + 1]
links_count_dec(s, i) ==
    IF s[i].links > (IF IsDir(s, i) THEN 2 ELSE 0) THEN [s EXCEPT ![i].links = @ - 1] ELSE s

\* A new directory gets "." and ".."; a renamed one a new "..".
ext4_link(s, parent, ch, n, rename) ==
    LET named == [s EXCEPT ![parent].kids[n] = ch]
    IN  IF IsDir(s, ch)
        THEN links_count_inc([named EXCEPT ![ch].up = parent,
                                           ![ch].links = IF rename THEN @ ELSE 2], parent)
        ELSE IF rename THEN named ELSE links_count_inc(named, ch)

ext4_unlink(s, parent, ch, n) ==
    LET gone == [s EXCEPT ![parent].kids[n] = 0]
        told == IF IsDir(s, ch) THEN links_count_dec(gone, parent) ELSE gone
    IN  links_count_dec(told, ch)

\* Follows a path from a directory.  With O_CREAT every missing part is made, the
\* ones before the last as directories.  full: there is no block for the index of
\* a new directory; its name is then already in the parent.
RECURSIVE OpenFrom(_, _, _, _, _, _)
OpenFrom(s, dir, path, creat, ftype, full) ==
    LET n == Head(path)
        is_goal == Len(path) = 1
        ch == s[dir].kids[n]
        free == Inodes \ Used(s)
        new == CHOOSE i \in free : \A j \in free : i <= j
        type == IF is_goal THEN ftype ELSE "dir"
        made == [s EXCEPT ![new] = [Free EXCEPT !.type = type]]
    IN  IF ch = 0
        THEN IF ~creat THEN Error("ENOENT", s)
             ELSE IF free = {} THEN Error("ENOSPC", s)
             ELSE IF type = "dir" /\ full
             THEN Error("ENOSPC", [s EXCEPT ![dir].kids[n] = new])
             ELSE OpenFrom(ext4_link(made, dir, new, n, FALSE), dir, path, creat, ftype, full)
        ELSE IF ~is_goal
        THEN IF IsDir(s, ch) THEN OpenFrom(s, ch, Tail(path), creat, ftype, full) ELSE Error("ENOENT", s)
        ELSE IF ftype /= "any" /\ s[ch].type /= ftype THEN Error("ENOENT", s)
        ELSE [r |-> "EOK", s |-> s, inode |-> ch, parent |-> dir]

ext4_generic_open2(s, path, creat, ftype, full) ==
    LET o == OpenFrom(s, Root, path, creat, ftype, full)
    IN  IF o.r = "EOK" \/ ~Journal THEN o ELSE [o EXCEPT !.s = s]
Lookup(s, path) == ext4_generic_open2(s, path, FALSE, "any", FALSE)

RECURSIVE HardlinkFrom(_, _, _, _, _)
HardlinkFrom(s, dir, path, child, rename) ==
    LET n == Head(path)
        ch == s[dir].kids[n]
    IN  IF Len(path) = 1
        THEN IF ch /= 0 THEN Error("EEXIST", s)
             ELSE [Error("EOK", ext4_link(s, dir, child, n, rename)) EXCEPT !.parent = dir]
        ELSE IF ch = 0 \/ ~IsDir(s, ch) THEN Error("ENOENT", s)
        ELSE HardlinkFrom(s, ch, Tail(path), child, rename)
ext4_create_hardlink(s, path, child, rename) == HardlinkFrom(s, Root, path, child, rename)

remove_orig_reference(s, parent, n, child) ==
    LET gone == [s EXCEPT ![parent].kids[n] = 0]
    IN  IF IsDir(s, child) THEN links_count_dec(gone, parent) ELSE gone

---------------------------------------------------------------------------
(* What a call that removes should leave behind. *)

RECURSIVE Below(_, _)
Below(s, i) == {i} \cup (IF IsDir(s, i) THEN UNION {Below(s, s[i].kids[n]) : n \in {m \in Names : s[i].kids[m] /= 0}}
                         ELSE {})
WithoutName(s, parent, n) == [s EXCEPT ![parent].kids[n] = 0]
WithoutTree(s, parent, n, i) ==
    LET rest == [j \in Inodes |-> IF j \in Below(s, i) THEN Free ELSE s[j]]
    IN  [WithoutName(rest, parent, n) EXCEPT ![parent].links = @ - 1]

LastName(path) == path[Len(path)]

---------------------------------------------------------------------------
InitNames ==
    /\ fs = [i \in Inodes |-> IF i = Root THEN [type |-> "dir", links |-> 2, kids |-> NoKids, up |-> Root] ELSE Free]
    /\ op = Idle /\ wanted = fs /\ crashes = 0

Done(s) == fs' = s /\ wanted' = s /\ op' = Idle /\ UNCHANGED crashes

\* ext4_fopen for writing, ext4_fopen2, ext4_dir_mk, ext4_mknod, ext4_fsymlink.
Create(p) ==
    /\ op = Idle
    /\ \E ftype \in {"file", "dir"}, full \in BOOLEAN :
          Done(ext4_generic_open2(fs, p, TRUE, ftype, full).s)

ext4_flink(p, q) ==
    LET o == Lookup(fs, p)
    IN  /\ op = Idle
        /\ o.r = "EOK"
        /\ ~IsDir(fs, o.inode)
        /\ Done(ext4_create_hardlink(fs, q, o.inode, FALSE).s)

ext4_frename(p, q) ==
    LET o == Lookup(fs, p)
        linked == ext4_create_hardlink(fs, q, o.inode, TRUE)
    IN  /\ op = Idle
        /\ o.r = "EOK"
        /\ MoveBelow \/ linked.parent \notin Below(fs, o.inode)
        /\ Done(IF linked.r /= "EOK" THEN fs
                ELSE remove_orig_reference(linked.s, o.parent, LastName(p), o.inode))

\* ext4_fremove: the file's data go first, in transactions of their own; then its
\* name and, with the last one, the inode.
RemoveTruncates(p) ==
    LET o == Lookup(fs, p)
        last == fs[o.inode].links = 1
    IN  /\ op = Idle
        /\ o.r = "EOK"
        /\ ~IsDir(fs, o.inode)
        /\ op' = [Idle EXCEPT !.call = "remove", !.at = o.inode, !.up = o.parent, !.name = LastName(p)]
        /\ wanted' = IF last THEN [WithoutName(fs, o.parent, LastName(p)) EXCEPT ![o.inode] = Free]
                     ELSE [WithoutName(fs, o.parent, LastName(p)) EXCEPT ![o.inode].links = @ - 1]
        /\ UNCHANGED <<fs, crashes>>

RemoveUnlinks ==
    LET s == ext4_unlink(fs, op.up, op.at, op.name)
    IN  /\ op.call = "remove"
        /\ fs' = IF s[op.at].links = 0 THEN [s EXCEPT ![op.at] = Free] ELSE s
        /\ op' = Idle
        /\ UNCHANGED <<wanted, crashes>>

\* ext4_dir_rm.  It walks the tree without a stack: down into a directory that has
\* children, up through ".." at the end of one, and there from the start again.
DirRm(p) ==
    LET o == Lookup(fs, p)
    IN  /\ op = Idle
        /\ o.r = "EOK"
        /\ IsDir(fs, o.inode)
        /\ RmShared \/ \A i \in Below(fs, o.inode) : IsDir(fs, i) \/ fs[i].links = 1
        /\ op' = [call |-> "rm", at |-> o.inode, up |-> o.parent, depth |-> 1, pos |-> 1,
                  top |-> o.inode, name |-> LastName(p)]
        /\ wanted' = WithoutTree(fs, o.parent, LastName(p), o.inode)
        /\ UNCHANGED <<fs, crashes>>


\* One round of its loop, which is one transaction: the next entry, or the end of a
\* directory.  The link count of a file that goes is set to 0 and its inode freed.
DirRmEntry ==
    LET here == {n \in Names : n >= op.pos /\ fs[op.at].kids[n] /= 0}
        n == CHOOSE m \in here : \A k \in here : m <= k
        ch == fs[op.at].kids[n]
    IN  /\ op.call = "rm" /\ op.depth > 0
        /\ IF here = {}
           THEN /\ op' = [op EXCEPT !.depth = @ - 1, !.up = fs[op.at].up, !.pos = 1,
                                    !.at = IF op.depth > 1 THEN fs[op.at].up ELSE @]
                /\ UNCHANGED fs
           ELSE IF has_children(fs, ch)
           THEN /\ op' = [op EXCEPT !.up = op.at, !.at = ch, !.depth = @ + 1, !.pos = 1]
                /\ UNCHANGED fs
           ELSE /\ op' = [op EXCEPT !.pos = n + 1, !.up = fs[op.at].up]
                /\ fs' = [ext4_unlink(fs, op.at, ch, n) EXCEPT ![ch] = Free]
    /\ UNCHANGED <<wanted, crashes>>

\* The last unlink is committed before the directory's blocks and inode go.
DirRmUnlinksTop ==
    /\ op.call = "rm" /\ op.depth = 0
    /\ IF has_children(fs, op.at) THEN op' = Idle /\ UNCHANGED fs   \* ENOTEMPTY
       ELSE /\ fs' = ext4_unlink(fs, op.up, op.at, op.name)
            /\ op' = [op EXCEPT !.call = "rmFree"]
    /\ UNCHANGED <<wanted, crashes>>

DirRmFreesTop ==
    /\ op.call = "rmFree"
    /\ fs' = IF fs[op.at].links = 2 THEN [fs EXCEPT ![op.at] = Free] ELSE fs
    /\ op' = Idle
    /\ UNCHANGED <<wanted, crashes>>

\* Committed transactions survive, the call does not go on.
Crash ==
    /\ op /= Idle /\ crashes < MaxCrash
    /\ crashes' = crashes + 1
    /\ op' = Idle /\ wanted' = fs
    /\ UNCHANGED fs

Calls == RemoveUnlinks \/ DirRmEntry \/ DirRmUnlinksTop \/ DirRmFreesTop
NextNames == \/ \E p \in Paths : Create(p) \/ RemoveTruncates(p) \/ DirRm(p)
             \/ \E p, q \in Paths : ext4_flink(p, q) \/ ext4_frename(p, q)
             \/ Calls \/ Crash
SpecNames == InitNames /\ [][NextNames]_nameVars

---------------------------------------------------------------------------
NamesOf(i) == {x \in Used(fs) \X Names : fs[x[1]].kids[x[2]] = i}
Subdirs(i) == {n \in Names : fs[i].kids[n] /= 0 /\ IsDir(fs, fs[i].kids[n])}

(* Every name leads to an inode in use, at every transaction boundary: no call, no
   failed call and no crash leaves a name of an inode that was freed. *)
NamesAreLive == \A i \in Used(fs), n \in Names : fs[i].kids[n] /= 0 => fs[i].kids[n] \in Used(fs)

(* Link counts are true at every transaction boundary: a file's is the number of
   its names, a directory's is two more than that of its subdirectories; a directory
   has one name and its ".." leads to where that name is; every inode in use can
   be reached from the root.  Only a crash inside
   ext4_dir_rm leaves an inode without a name. *)
LinksAreTrue ==
    \A i \in Used(fs) \ {Root} :
        \/ /\ i \in Below(fs, Root)
           /\ IF IsDir(fs, i)
              THEN /\ fs[i].links = 2 + Cardinality(Subdirs(i))
                   /\ \E n \in Names : NamesOf(i) = {<<fs[i].up, n>>}
              ELSE fs[i].links = Cardinality(NamesOf(i)) /\ fs[i].links > 0
        \/ NamesOf(i) = {} /\ (crashes > 0 \/ op.call = "rmFree")

(* A call that removes a file or a tree and is not cut short by a crash removes
   exactly that: the walk without a stack visits all of the tree, leaves it where
   it began, and everything else is as it was. *)
RemovesExactly == op = Idle => fs = wanted
=============================================================================
