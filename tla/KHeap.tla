------------------------------- MODULE KHeap -------------------------------
(***************************************************************************)
(* The kernel heap, kernel/kheap/kheap.c: blocks of BLOCK_SIZE bytes, each *)
(* described by a Node of a linked list, given out first fit.              *)
(*                                                                         *)
(* Node 0 is memory_region itself and is never given out.  The loop of     *)
(* init_memory_region stops at a node that it has already linked but not   *)
(* filled in: node LAST, all zero in fresh RAM, so its address is NULL.    *)
(*                                                                         *)
(* kmalloc runs with interrupts off and is one action.  kfree runs with    *)
(* interrupts on, so each of its stores is an action of its own.           *)
(***************************************************************************)
EXTENDS Integers, FiniteSets

CONSTANTS
    LAST,                 \* the node at which init_memory_region stopped
    BLOCK_SIZE,           \* bytes of a block
    total_region_size_g,  \* requests of this size and more are refused
    Sizes,                \* the sizes that are asked for
    Tasks                 \* the tasks that call kmalloc and kfree

ASSUME KHeapAssumption ==
    /\ LAST \in Nat \ {0}
    /\ BLOCK_SIZE \in Nat \ {0}
    /\ total_region_size_g \in Nat
    /\ Sizes \subseteq Nat

Node == 0 .. LAST
NULL == -1

\* The field addr of node i, blocks being numbered like their nodes.
addr(i) == IF i = LAST THEN NULL ELSE i

VARIABLES
    allocated, first_block, num_block_used, total_requested_memory, \* Node's fields
    mem_lock_free,   \* the flag kfree spins on
    pc,              \* where each task is in kfree
    live,            \* auxiliary: what kmalloc returned and was not passed to kfree
    hung             \* find_free_zone loops for ever, interrupts off

nodes == <<allocated, first_block, num_block_used, total_requested_memory>>
vars == <<nodes, mem_lock_free, pc, live, hung>>

\* A task in kfree: at which store, which node, how many nodes are left.
At(where, cur, left) == [at |-> where, cur |-> cur, left |-> left]
Goto(t, where, cur, left) == pc' = [pc EXCEPT ![t] = At(where, cur, left)]
Idle(t) == ~hung /\ pc[t].at = "idle"
Does(t, where) == ~hung /\ pc[t].at = where

init_memory_region ==
    /\ allocated = [i \in Node |-> FALSE]
    /\ first_block = [i \in Node |-> FALSE]
    /\ num_block_used = [i \in Node |-> IF i = 0 THEN LAST + 1 ELSE 0]
    /\ total_requested_memory = [i \in Node |-> 0]
    /\ mem_lock_free = 0
    /\ pc = [t \in Tasks |-> At("idle", 0, 0)]
    /\ live = {}
    /\ hung = FALSE

-----------------------------------------------------------------------------
(* kmalloc.                                                                *)

num_blocks_needed(size) == (size + (BLOCK_SIZE - 1)) \div BLOCK_SIZE

\* Mutant: the last block of the zone is not looked at.
FitsShort(s, n) ==
    /\ ~allocated[s] /\ s + n - 1 <= LAST
    /\ \A i \in s .. s + n - 2 : ~allocated[i]

\* n free nodes start at node s.
Fits(s, n) ==
    /\ ~allocated[s] /\ s + n - 1 <= LAST
    /\ \A i \in s .. s + n - 1 : ~allocated[i]

\* What find_free_zone finds, searching from the node after memory_region.
Zones(n) == {s \in 1 .. LAST : Fits(s, n)}
IsFirstZone(s, n) == s \in Zones(n) /\ \A u \in Zones(n) : s <= u

\* The search notes the size at the first node of every free run it looks at.
NoteSize(upTo, size) ==
    [i \in Node |-> IF i \in 1 .. upTo /\ ~allocated[i] /\ (i = 1 \/ allocated[i - 1])
                    THEN size ELSE total_requested_memory[i]]

Region(s, n, size) == [addr |-> s, blocks |-> n, size |-> size]

\* find_free_zone marks the first zone of n nodes and returns its address ...
TakeZone(n, size) ==
    /\ \E s \in 1 .. LAST :
       /\ IsFirstZone(s, n)
       /\ allocated' = [i \in Node |-> i \in s .. s + n - 1 \/ allocated[i]]
       /\ first_block' = [i \in Node |-> IF i \in s .. s + n - 1 THEN i = s ELSE first_block[i]]
       /\ num_block_used' = [i \in Node |-> IF i \in s .. s + n - 1 THEN n ELSE num_block_used[i]]
       /\ total_requested_memory' = NoteSize(s, size)
       /\ live' = IF addr(s) = NULL THEN live ELSE live \cup {Region(s, n, size)}
    /\ UNCHANGED hung

\* ... or runs off the end of the list and returns NULL ...
NoZone(n, size) ==
    /\ Zones(n) = {} /\ ~allocated[LAST]
    /\ total_requested_memory' = NoteSize(LAST, size)
    /\ UNCHANGED <<allocated, first_block, num_block_used, live, hung>>

\* ... or stays at the last node, which is allocated and has no next.
SearchNeverEnds(n) ==
    /\ Zones(n) = {} /\ allocated[LAST]
    /\ hung' = TRUE
    /\ UNCHANGED <<nodes, live>>

kmalloc(t, size) ==
    /\ Idle(t)
    /\ UNCHANGED <<mem_lock_free, pc>>
    /\ LET n == num_blocks_needed(size) IN
       \/ size >= total_region_size_g /\ UNCHANGED <<nodes, live, hung>>
       \/ size < total_region_size_g /\ TakeZone(n, size)
       \/ size < total_region_size_g /\ NoZone(n, size)
       \/ size < total_region_size_g /\ SearchNeverEnds(n)

-----------------------------------------------------------------------------
(* kfree.                                                                  *)

\* A call with the region r, up to the end of the spin on mem_lock_free.
kfree(t, r) ==
    /\ Idle(t) /\ r \in live
    /\ mem_lock_free = 0
    /\ live' = live \ {r}
    /\ Goto(t, "lock", r.addr, r.blocks)
    /\ UNCHANGED <<nodes, mem_lock_free, hung>>

KfreeLock(t) ==
    /\ Does(t, "lock")
    /\ mem_lock_free' = 1
    /\ Goto(t, "find", pc[t].cur, pc[t].left)
    /\ UNCHANGED <<nodes, live, hung>>

\* Mutant: nothing to free, and an early return past the unlock.
KfreeFindReturns(t) ==
    /\ Does(t, "find")
    /\ IF ~allocated[pc[t].cur] \/ num_block_used[pc[t].cur] = 0 THEN Goto(t, "idle", 0, 0)
       ELSE Goto(t, "allocated", pc[t].cur, num_block_used[pc[t].cur])
    /\ UNCHANGED <<nodes, mem_lock_free, live, hung>>

\* sys_free_memory finds the node and reads how many to free.
KfreeFind(t) ==
    /\ Does(t, "find")
    /\ IF ~allocated[pc[t].cur] \/ num_block_used[pc[t].cur] = 0 THEN Goto(t, "unlock", 0, 0)
       ELSE Goto(t, "allocated", pc[t].cur, num_block_used[pc[t].cur])
    /\ UNCHANGED <<nodes, mem_lock_free, live, hung>>

KfreeAllocated(t) ==
    /\ Does(t, "allocated")
    /\ allocated' = [allocated EXCEPT ![pc[t].cur] = FALSE]
    /\ Goto(t, "first_block", pc[t].cur, pc[t].left)
    /\ UNCHANGED <<first_block, num_block_used, total_requested_memory,
                   mem_lock_free, live, hung>>

KfreeFirstBlock(t) ==
    /\ Does(t, "first_block")
    /\ first_block' = [first_block EXCEPT ![pc[t].cur] = FALSE]
    /\ Goto(t, "num_block_used", pc[t].cur, pc[t].left)
    /\ UNCHANGED <<allocated, num_block_used, total_requested_memory,
                   mem_lock_free, live, hung>>

KfreeNumBlockUsed(t) ==
    /\ Does(t, "num_block_used")
    /\ num_block_used' = [num_block_used EXCEPT ![pc[t].cur] = 0]
    /\ Goto(t, "total_requested", pc[t].cur, pc[t].left)
    /\ UNCHANGED <<allocated, first_block, total_requested_memory,
                   mem_lock_free, live, hung>>

\* Mutant: the loop ends one node early.
KfreeNextNodeEarly(t) ==
    /\ Does(t, "total_requested")
    /\ total_requested_memory' = [total_requested_memory EXCEPT ![pc[t].cur] = 0]
    /\ IF pc[t].left <= 2 THEN Goto(t, "unlock", 0, 0)
       ELSE Goto(t, "allocated", pc[t].cur + 1, pc[t].left - 1)
    /\ UNCHANGED <<allocated, first_block, num_block_used, mem_lock_free, live, hung>>

\* Mutant: the loop ends one node late.
KfreeNextNodeLate(t) ==
    /\ Does(t, "total_requested")
    /\ total_requested_memory' = [total_requested_memory EXCEPT ![pc[t].cur] = 0]
    /\ IF pc[t].left <= 0 THEN Goto(t, "unlock", 0, 0)
       ELSE Goto(t, "allocated", pc[t].cur + 1, pc[t].left - 1)
    /\ UNCHANGED <<allocated, first_block, num_block_used, mem_lock_free, live, hung>>

\* The last store to the node, and on to the next one.
KfreeNextNode(t) ==
    /\ Does(t, "total_requested")
    /\ total_requested_memory' = [total_requested_memory EXCEPT ![pc[t].cur] = 0]
    /\ IF pc[t].left <= 1 THEN Goto(t, "unlock", 0, 0)
       ELSE Goto(t, "allocated", pc[t].cur + 1, pc[t].left - 1)
    /\ UNCHANGED <<allocated, first_block, num_block_used, mem_lock_free, live, hung>>

KfreeUnlock(t) ==
    /\ Does(t, "unlock")
    /\ mem_lock_free' = 0
    /\ Goto(t, "idle", 0, 0)
    /\ UNCHANGED <<nodes, live, hung>>

KfreeStep(t) ==
    \/ KfreeLock(t) \/ KfreeFind(t) \/ KfreeAllocated(t) \/ KfreeFirstBlock(t)
    \/ KfreeNumBlockUsed(t) \/ KfreeNextNode(t) \/ KfreeUnlock(t)

\* find_free_zone at its last node.
LoopForever == hung /\ UNCHANGED vars

Next ==
    \/ \E t \in Tasks : (\E size \in Sizes : kmalloc(t, size)) \/ KfreeStep(t)
    \/ \E t \in Tasks : \E r \in live : kfree(t, r)
    \/ LoopForever

Spec == init_memory_region /\ [][Next]_vars

(* The timer preempts tasks but none of them for ever. *)
FairSpec == Spec /\ \A t \in Tasks : WF_vars(KfreeStep(t))

\* get_memory_size looks at num_block_used nodes, as many as memory_region counts.
get_memory_size(p) ==
    LET found == {i \in 0 .. num_block_used[0] - 1 : i \in Node /\ addr(i) = p /\ allocated[i]}
    IN  IF found = {} THEN -1
        ELSE total_requested_memory[CHOOSE i \in found : \A j \in found : i <= j]

-----------------------------------------------------------------------------
(* Properties.                                                             *)

Where == {"idle", "lock", "find", "allocated", "first_block", "num_block_used",
          "total_requested", "unlock"}
Position == [at : Where, cur : Node, left : Nat]

(* The types of the fields of Node, of kfree's positions and of the regions that
   are given out. *)
TypeOK ==
    /\ allocated \in [Node -> BOOLEAN]
    /\ first_block \in [Node -> BOOLEAN]
    /\ num_block_used \in [Node -> Nat]
    /\ total_requested_memory \in [Node -> Nat]
    /\ mem_lock_free \in {0, 1}
    /\ pc \in [Tasks -> Position]
    /\ live \subseteq [addr : 1 .. LAST - 1, blocks : Nat, size : Nat]
    /\ hung \in BOOLEAN

Blocks(r) == r.addr .. r.addr + r.blocks - 1

\* The nodes that task t, inside kfree, has yet to mark free.
ToFree(t) ==
    IF pc[t].at \in {"idle", "unlock"} THEN {}
    ELSE IF pc[t].at \in {"lock", "find", "allocated"}
    THEN pc[t].cur .. pc[t].cur + pc[t].left - 1
    ELSE pc[t].cur + 1 .. pc[t].cur + pc[t].left - 1

(* No block has two owners: the regions kmalloc has given out are disjoint, and
   none of their blocks is marked free by a kfree of another region, however the
   stores of kfree interleave with kmalloc and with other kfrees. *)
BlocksNotShared ==
    /\ \A r \in live : \A i \in Blocks(r) : i \in Node /\ allocated[i]
    /\ \A r, q \in live : r /= q => Blocks(r) \cap Blocks(q) = {}
    /\ \A r \in live, t \in Tasks : Blocks(r) \cap ToFree(t) = {}

\* The nodes from s on look like n nodes that kmalloc has marked; a kfree that
\* it overtook may have cleared the count.
Marked(s, n) ==
    /\ n > 0 /\ num_block_used[s] \in {0, n}
    /\ \A i \in s .. s + n - 1 : i \in Node /\ allocated[i]

(* The inductive strengthening of BlocksNotShared, for requests of at least one
   byte: a region given out, and one about to be freed, is marked as kmalloc left
   it but for its count, and what two kfrees have yet to mark free is disjoint. *)
HeapInv ==
    /\ TypeOK /\ BlocksNotShared
    /\ \A r \in live : Marked(r.addr, r.blocks)
    /\ \A t \in Tasks :
          /\ pc[t].at \in {"lock", "find"} => Marked(pc[t].cur, pc[t].left)
          /\ pc[t].at \notin {"idle", "unlock"} => pc[t].left > 0
          /\ \A i \in ToFree(t) : i \in Node /\ allocated[i]
    /\ \A t, u \in Tasks : t /= u => ToFree(t) \cap ToFree(u) = {}

(* sys_free_memory "marks the memory blocks as free": while no kfree is under way,
   the allocated blocks are those of the regions given out (and, perhaps, the
   block of node LAST, whose address is NULL). *)
AllAccounted ==
    (\A t \in Tasks : pc[t].at = "idle") =>
        {i \in Node : allocated[i]} \ {LAST} = (UNION {Blocks(r) : r \in live}) \ {LAST}

(* get_memory_size returns, for every region given out, the size that was asked
   for, also after searches that have passed over the region and after its
   neighbours were freed. *)
SizeIsRemembered == \A r \in live : get_memory_size(r.addr) = r.size

(* With one task both hold: what is not in a region is free, and each region's
   size is known. *)
HeapAccounts == AllAccounted /\ SizeIsRemembered

(* kfree always gives mem_lock_free back, so that nobody spins on it for ever,
   unless the whole machine hangs in find_free_zone. *)
FreeLockReleased == (mem_lock_free = 1) ~> (mem_lock_free = 0 \/ hung)

(* sys_allocate_memory returns "the starting address of the allocated memory, or
   NULL if the allocation fails": the search always returns. *)
SearchReturns == ~hung
=============================================================================
