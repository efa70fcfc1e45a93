------------------------------ MODULE Ext4Calls ------------------------------
(***************************************************************************)
(* How the calls of ext4.c bracket their work: the mount point's lock, the  *)
(* write-back mode of the block cache and the journal transaction, on every *)
(* path through a call, the failing ones included.  A call is the set of    *)
(* its paths; a path is the sequence of the steps that matter here.         *)
(*   lock unlock    EXT4_MP_LOCK, EXT4_MP_UNLOCK                            *)
(*   wb+ wb-        ext4_block_cache_write_back(1), (0)                     *)
(*   start stop abort  the transaction                                      *)
(*   change         an inode or a block is made dirty                       *)
(*   !lock !wb      the path forgets a step of that kind (see blame)        *)
(***************************************************************************)
EXTENDS Naturals, Sequences

CONSTANT Threads

VARIABLES locks,       \* what ext4_mount_setup_locks installed
          lock,        \* [owner, depth]; owner 0: free
          write_back,  \* bdev->cache_write_back
          asked,       \* how often the clients themselves asked for write-back mode
          trans,       \* the thread that started fs.curr_trans, 0: none
          pc,          \* the paths each thread may still take
          blame        \* the kinds of steps that some path has forgotten
callVars == <<locks, lock, write_back, asked, trans, pc, blame>>

Then(A, B) == {a \o b : a \in A, b \in B}
Finish(ok, err) == Then(ok, {<<"stop">>}) \cup Then(err, {<<"abort">>})
Locked(P) == Then({<<"lock">>}, Then(P, {<<"unlock">>}))
Deferred(P) == Then({<<"wb+">>}, Then(P, {<<"wb-">>}))

\* ext4_trunc_inode, in a transaction: it ends the caller's and runs its own, one for every
\* CONFIG_MAX_TRUNCATE_SIZE bytes, and starts another for the caller.
Piece == {<<"start", "change", "stop">>}
NoPiece == {<<"start", "abort">>, <<"start", "change", "abort">>}
TruncOk == Then({<<"stop">>}, Then({<<>>} \cup Piece \cup Then(Piece, Piece), {<<"start">>}))
TruncErr == {<<>>} \cup Then({<<"stop">>}, Then(NoPiece \cup Then(Piece, NoPiece), {<<"start">>}))

ext4_generic_open(creat) ==
    IF creat THEN Then({<<"start">>}, Finish({<<>>, <<"change">>} \cup TruncOk, {<<>>, <<"change">>} \cup TruncErr))
             ELSE {<<>>}
ext4_fopen == Locked(Deferred(ext4_generic_open(TRUE) \cup ext4_generic_open(FALSE)))

\* The first path releases the lock of its caller, who will do so again.
NoLockErr == {<<"!lock", "unlock">>} \cup Then({<<"wb+">>}, Then(TruncErr, {<<"!wb">>}))
NoLockOk == {<<>>} \cup Deferred(TruncOk)
ext4_ftruncate == Locked(Then({<<"start">>}, Finish(NoLockOk, NoLockErr)))

ext4_fread == Locked({<<>>})

\* The unaligned head, the whole blocks in write-back mode, the tail.  A block that cannot be mapped ends
\* the call in write-back mode; one that cannot be allocated does too, and is no error.
FwriteErr == {<<>>, <<"change">>, <<"wb+", "!wb">>, <<"wb+", "change", "!wb">>} \cup Deferred({<<"change">>})
FwriteOk == {<<"wb+", "change", "!wb">>} \cup Then(Deferred({<<"change">>}), {<<>>, <<"change">>})
ext4_fwrite == Locked(Then({<<"start">>}, Finish(FwriteOk, FwriteErr)))

ext4_flink == Locked({<<>>} \cup Then({<<"start">>}, Finish({<<"change">>}, {<<>>, <<"change">>})))
ext4_frename == ext4_flink
FremoveOk == Then({<<>>} \cup Deferred(TruncOk), {<<"change">>})
FremoveErr == {<<>>} \cup Then({<<"wb+">>}, Then(TruncErr, {<<"!wb">>})) \cup FremoveOk
ext4_fremove == Locked({<<>>} \cup Then({<<"start">>}, Finish(FremoveOk, FremoveErr)))

\* One transaction for every entry below the directory, and one for the directory.
DirStep == Then({<<"start">>}, Finish({<<"change">>}, {<<>>, <<"change">>}))
ext4_dir_rm == Locked({<<>>} \cup Deferred({<<"abort">>} \cup DirStep \cup Then(DirStep, DirStep)))
ext4_dir_mk == Locked(ext4_generic_open(FALSE) \cup ext4_generic_open(TRUE))
ext4_dir_open == Locked(ext4_generic_open(FALSE))
ext4_dir_entry_next == Locked({<<>>})

\* ext4_trans_get_inode_ref and ext4_trans_put_inode_ref around the change of a field.
Setter == Locked({<<>>, <<"start", "abort">>} \cup Then({<<"start">>}, Finish({<<"change">>}, {<<"change">>})))
Getter == Locked({<<>>})
ext4_raw_inode_fill == Getter
ext4_inode_exist == Getter
ext4_mode_set == Setter
ext4_owner_set == Setter
ext4_mode_get == Getter
ext4_owner_get == Getter
ext4_atime_set == Setter
ext4_mtime_set == Setter
ext4_ctime_set == Setter
ext4_atime_get == Getter
ext4_mtime_get == Getter
ext4_ctime_get == Getter

\* Like ext4_fwrite, a symbolic link that gets no block leaves write-back mode on.
SymlinkErr == {<<>>} \cup NoLockErr \cup Then(NoLockOk, {<<"wb+", "!wb">>, <<"wb+", "change", "!wb">>})
SymlinkOk == {<<>>} \cup Then(NoLockOk, Deferred({<<"change">>}))
ext4_fsymlink == Locked(Deferred(Then({<<"start">>, <<"start", "change">>}, Finish(SymlinkOk, SymlinkErr))))
\* Calls ext4_fread, which locks, with the lock held.
ext4_readlink == Locked(Deferred({<<>>, <<"!lock", "lock", "unlock">>}))

\* Mutant: the transaction of a failed call is left open.
MknodLeavesOpen == Locked(Deferred(Then({<<"start">>}, {<<>>, <<"change", "stop">>})))

ext4_mknod == Locked(Deferred(Then({<<"start">>}, Finish({<<>>, <<"change">>}, {<<>>, <<"change">>}))))
ext4_setxattr == ext4_flink
ext4_getxattr == Getter
ext4_listxattr == Getter
\* When the path cannot be opened the lock is taken again, not released.
ext4_removexattr == ext4_flink \cup {<<"lock", "!lock", "lock">>}

ext4_recover == Getter
ext4_mount_point_stats == Getter
ext4_cache_write_back == Locked({<<"ask+", "wb+">>, <<"ask-", "wb-">>})
ext4_cache_flush == Getter

Calls == {ext4_fopen, ext4_ftruncate, ext4_fread, ext4_fwrite, ext4_flink, ext4_frename, ext4_fremove, ext4_dir_rm,
          ext4_dir_mk, ext4_dir_open, ext4_dir_entry_next, ext4_raw_inode_fill, ext4_inode_exist, ext4_mode_set,
          ext4_owner_set, ext4_mode_get, ext4_owner_get, ext4_atime_set, ext4_mtime_set, ext4_ctime_set,
          ext4_atime_get, ext4_mtime_get, ext4_ctime_get, ext4_fsymlink, ext4_readlink, ext4_mknod, ext4_setxattr,
          ext4_getxattr, ext4_listxattr, ext4_removexattr, ext4_recover, ext4_mount_point_stats,
          ext4_cache_write_back, ext4_cache_flush}
-----------------------------------------------------------------------------
Idle == {<<>>}
FreeLock == [owner |-> 0, depth |-> 0]

InitCalls ==
    /\ locks \in {"none", "plain", "recursive"}
    /\ lock = FreeLock /\ write_back = 0 /\ asked = 0 /\ trans = 0 /\ blame = {}
    /\ pc = [t \in Threads |-> Idle]

\* Without locks the clients of a mount point take turns.  After a path has forgotten a step no further call
\* is made.
Begin(t) ==
    /\ pc[t] = Idle /\ blame = {}
    /\ locks = "none" => \A u \in Threads : pc[u] = Idle
    /\ \E c \in Calls : pc' = [pc EXCEPT ![t] = c]
    /\ UNCHANGED <<locks, lock, write_back, asked, trans, blame>>

At(t, what) == \E p \in pc[t] : p /= <<>> /\ Head(p) = what
Step(t, what) ==
    /\ At(t, what)
    /\ pc' = [pc EXCEPT ![t] = {Tail(p) : p \in {q \in @ : q /= <<>> /\ Head(q) = what}}]

\* EXT4_MP_LOCK: a plain lock makes its own holder wait for ever.
Lock(t) ==
    /\ Step(t, "lock")
    /\ \/ locks = "none" /\ UNCHANGED lock
       \/ locks /= "none" /\ lock.owner = 0 /\ lock' = [owner |-> t, depth |-> 1]
       \/ locks = "recursive" /\ lock.owner = t /\ lock' = [lock EXCEPT !.depth = @ + 1]
    /\ UNCHANGED <<locks, write_back, asked, trans, blame>>

\* EXT4_MP_UNLOCK, whoever holds the lock.
Unlock(t) ==
    /\ Step(t, "unlock")
    /\ lock' = IF lock.depth <= 1 THEN FreeLock ELSE [lock EXCEPT !.depth = @ - 1]
    /\ UNCHANGED <<locks, write_back, asked, trans, blame>>

ext4_block_cache_write_back(t) ==
    /\ \/ Step(t, "wb+") /\ write_back' = write_back + 1
       \/ Step(t, "wb-") /\ write_back' = IF write_back > 0 THEN write_back - 1 ELSE 0
    /\ UNCHANGED <<locks, lock, asked, trans, blame>>

AskWriteBack(t) ==
    /\ \/ Step(t, "ask+") /\ asked = 0 /\ asked' = 1
       \/ Step(t, "ask-") /\ asked = 1 /\ asked' = 0
    /\ UNCHANGED <<locks, lock, write_back, trans, blame>>

__ext4_trans_start(t) ==
    /\ Step(t, "start")
    /\ trans' = IF trans = 0 THEN t ELSE trans
    /\ UNCHANGED <<locks, lock, write_back, asked, blame>>

\* __ext4_trans_stop, __ext4_trans_abort: whoever started it.
__ext4_trans_stop(t) ==
    /\ Step(t, "stop") \/ Step(t, "abort")
    /\ trans' = 0
    /\ UNCHANGED <<locks, lock, write_back, asked, blame>>

Change(t) == Step(t, "change") /\ UNCHANGED <<locks, lock, write_back, asked, trans, blame>>

Forget(t) ==
    /\ \/ Step(t, "!lock") /\ blame' = blame \cup {"lock"}
       \/ Step(t, "!wb") /\ blame' = blame \cup {"wb"}
    /\ UNCHANGED <<locks, lock, write_back, asked, trans>>

NextCalls ==
    \E t \in Threads :
       \/ Begin(t) \/ Lock(t) \/ Unlock(t) \/ ext4_block_cache_write_back(t) \/ AskWriteBack(t)
       \/ __ext4_trans_start(t) \/ __ext4_trans_stop(t) \/ Change(t) \/ Forget(t)

SpecCalls == InitCalls /\ [][NextCalls]_callVars
-----------------------------------------------------------------------------
=============================================================================
