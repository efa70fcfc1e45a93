---------------------------- MODULE KHeapProofs ----------------------------
(***************************************************************************)
(* No block of the kernel heap has two owners, for every heap, every set   *)
(* of tasks and every interleaving of the stores of kfree, as long as      *)
(* every request is for at least one byte.                                 *)
(***************************************************************************)
EXTENDS KHeap, TLAPS

(* A request of at least one byte takes at least one block. *)
LEMMA BlocksNeeded ==
    ASSUME NEW size \in Nat, size /= 0
    PROVE  num_blocks_needed(size) \in Nat /\ num_blocks_needed(size) > 0
  BY KHeapAssumption, SMT DEF num_blocks_needed

(* The heap that init_memory_region sets up satisfies the invariant. *)
LEMMA InitHeapInv == init_memory_region => HeapInv
  <1> SUFFICES ASSUME init_memory_region PROVE HeapInv
    OBVIOUS
  <1>1. 0 \in Node /\ At("idle", 0, 0).cur \in Node
    BY KHeapAssumption DEF Node, At
  <1>a. num_block_used \in [Node -> Nat] /\ total_requested_memory \in [Node -> Nat]
    BY KHeapAssumption DEF init_memory_region
  <1>b. pc \in [Tasks -> Position]
    BY <1>1 DEF init_memory_region, At, Position, Where
  <1>c. TypeOK
    BY <1>a, <1>b, Zenon DEF init_memory_region, TypeOK
  <1>2. \A t \in Tasks : pc[t].at = "idle" /\ ToFree(t) = {}
    BY DEF init_memory_region, At, ToFree
  <1> QED
    BY <1>c, <1>2 DEF init_memory_region, HeapInv, BlocksNotShared

(* A region that is given out starts at a node. *)
LEMMA LiveTypes ==
    ASSUME TypeOK, NEW r \in live
    PROVE  r.addr \in Node /\ r.blocks \in Nat
  <1>1. r \in [addr : 1 .. LAST - 1, blocks : Nat, size : Nat]
    BY DEF TypeOK
  <1>2. r.addr \in 1 .. LAST - 1 /\ r.blocks \in Nat
    BY <1>1
  <1>3. 1 .. LAST - 1 \subseteq Node
    BY KHeapAssumption DEF Node
  <1> QED
    BY <1>2, <1>3

(* Where a task is in kfree. *)
LEMMA PositionFacts ==
    ASSUME HeapInv, NEW t \in Tasks
    PROVE  /\ TypeOK /\ pc[t].cur \in Node /\ pc[t].cur \in Int /\ pc[t].left \in Nat
           /\ pc[t].at \notin {"idle", "unlock"} => pc[t].left > 0
           /\ pc[t].at \in {"lock", "find"} => Marked(pc[t].cur, pc[t].left)
           /\ \A i \in ToFree(t) : i \in Node /\ allocated[i]
           /\ 0 \in Node
  <1>1. TypeOK
    BY DEF HeapInv
  <1>2. pc[t] \in Position
    BY <1>1 DEF TypeOK
  <1>3. pc[t].cur \in Node /\ pc[t].left \in Nat
    BY <1>2 DEF Position
  <1>4. pc[t].cur \in Int /\ 0 \in Node
    BY <1>3, KHeapAssumption DEF Node
  <1> QED
    BY <1>1, <1>3, <1>4, Zenon DEF HeapInv

(* kmalloc marks a zone that no region and no kfree under way has a block of. *)
LEMMA TakeZoneInv ==
    ASSUME HeapInv, NEW size \in Nat, NEW n \in Nat, n > 0,
           TakeZone(n, size), UNCHANGED <<mem_lock_free, pc>>
    PROVE  HeapInv'
  <1>1. PICK s \in 1 .. LAST :
          /\ IsFirstZone(s, n)
          /\ allocated' = [i \in Node |-> i \in s .. s + n - 1 \/ allocated[i]]
          /\ first_block' = [i \in Node |-> IF i \in s .. s + n - 1 THEN i = s ELSE first_block[i]]
          /\ num_block_used' = [i \in Node |-> IF i \in s .. s + n - 1 THEN n ELSE num_block_used[i]]
          /\ total_requested_memory' = NoteSize(s, size)
          /\ live' = IF addr(s) = NULL THEN live ELSE live \cup {Region(s, n, size)}
    BY Zenon DEF TakeZone
  <1>2. /\ s + n - 1 <= LAST
        /\ \A i \in s .. s + n - 1 : i \in Node /\ ~allocated[i]
    BY <1>1, KHeapAssumption DEF IsFirstZone, Zones, Fits, Node
  <1> DEFINE new == Region(s, n, size)
  <1>3. /\ new.addr = s /\ new.blocks = n
        /\ Blocks(new) = s .. s + n - 1
        /\ s /= LAST => new \in [addr : 1 .. LAST - 1, blocks : Nat, size : Nat]
    BY KHeapAssumption DEF Region, Blocks
  <1>4. \A r \in live' : r \in live \/ (r = new /\ s /= LAST)
    BY <1>1 DEF addr
  <1>5. TypeOK'
    <2>1. allocated' \in [Node -> BOOLEAN] /\ first_block' \in [Node -> BOOLEAN]
      BY <1>1, Zenon DEF HeapInv, TypeOK
    <2>2. num_block_used' \in [Node -> Nat] /\ total_requested_memory' \in [Node -> Nat]
      BY <1>1 DEF HeapInv, TypeOK, NoteSize
    <2>3. live' \subseteq [addr : 1 .. LAST - 1, blocks : Nat, size : Nat]
      BY <1>3, <1>4 DEF HeapInv, TypeOK
    <2> QED
      BY <2>1, <2>2, <2>3 DEF HeapInv, TypeOK, TakeZone
  <1> HIDE DEF new
  <1>6. \A t \in Tasks : ToFree(t)' = ToFree(t)
    BY DEF ToFree
  <1>7. \A i \in Node : allocated[i] => allocated'[i] /\ num_block_used'[i] = num_block_used[i]
    BY <1>1, <1>2, Zenon
  <1>8. \A u \in Node, m \in Nat : Marked(u, m) => Marked(u, m)'
    <2> SUFFICES ASSUME NEW u \in Node, NEW m \in Nat, Marked(u, m) PROVE Marked(u, m)'
      OBVIOUS
    <2>1. u \in u .. u + m - 1 /\ allocated[u]
      BY KHeapAssumption DEF Marked, Node
    <2> QED
      BY <2>1, <1>7 DEF Marked
  <1>9. Marked(s, n)'
    <2>1. s \in s .. s + n - 1
      BY KHeapAssumption
    <2>2. num_block_used'[s] = n /\ \A i \in s .. s + n - 1 : allocated'[i]
      BY <2>1, <1>1, <1>2, Zenon
    <2> QED
      BY <2>2, <1>2 DEF Marked
  <1>10. \A r \in live' : Marked(r.addr, r.blocks)'
    <2> TAKE r \in live'
    <2>1. CASE r \in live
      BY <2>1, <1>8, LiveTypes DEF HeapInv
    <2>2. CASE r = new
      BY <2>2, <1>3, <1>9
    <2> QED
      BY <2>1, <2>2, <1>4
  <1>11. \A r \in live : \A i \in Blocks(r) : i \in Node /\ allocated[i]
    BY DEF HeapInv, BlocksNotShared
  <1>12. \A t \in Tasks : \A i \in ToFree(t) : i \in Node /\ allocated[i]
    BY DEF HeapInv
  <1>13. BlocksNotShared'
    <2>1. (\A r \in live : \A i \in Blocks(r) : i \in Node /\ allocated[i])'
      BY <1>10, <1>3, <1>4, <1>2, <1>1, <1>11, <1>7, Zenon
    <2>2. (\A r, q \in live : r /= q => Blocks(r) \cap Blocks(q) = {})'
      BY <1>2, <1>3, <1>4, <1>11 DEF HeapInv, BlocksNotShared
    <2>3. (\A r \in live, t \in Tasks : Blocks(r) \cap ToFree(t) = {})'
      BY <1>2, <1>3, <1>4, <1>6, <1>12 DEF HeapInv, BlocksNotShared
    <2> QED
      BY <2>1, <2>2, <2>3 DEF BlocksNotShared
  <1>14. (\A t \in Tasks :
          /\ pc[t].at \in {"lock", "find"} => Marked(pc[t].cur, pc[t].left)
          /\ pc[t].at \notin {"idle", "unlock"} => pc[t].left > 0
          /\ \A i \in ToFree(t) : i \in Node /\ allocated[i])'
    <2>1. ASSUME NEW t \in Tasks
          PROVE  /\ pc[t].at \in {"lock", "find"} => Marked(pc[t].cur, pc[t].left)'
                 /\ pc[t].at \notin {"idle", "unlock"} => pc[t].left > 0
      BY <1>8, PositionFacts
    <2> QED
      BY <2>1, <1>6, <1>7, <1>12
  <1> QED
    BY <1>5, <1>13, <1>10, <1>14, <1>6 DEF HeapInv

(* A step that changes no node's allocated flag, takes at most counts to 0, and
   leaves each task at most the nodes it had to free, keeps the invariant. *)
LEMMA QuietStepInv ==
    ASSUME HeapInv, TypeOK', allocated' = allocated, live' = live,
           \A i \in Node : num_block_used'[i] \in {0, num_block_used[i]},
           \A t \in Tasks : ToFree(t)' \subseteq ToFree(t),
           \A t \in Tasks : pc'[t].at \notin {"idle", "unlock"} => pc'[t].left > 0,
           \A t \in Tasks : pc'[t].at \in {"lock", "find"} =>
               /\ pc[t].at \in {"lock", "find"}
               /\ pc'[t].cur = pc[t].cur /\ pc'[t].left = pc[t].left
    PROVE  HeapInv'
  <1>1. \A u \in Node, m \in Nat : Marked(u, m) => Marked(u, m)'
    <2> SUFFICES ASSUME NEW u \in Node, NEW m \in Nat, Marked(u, m) PROVE Marked(u, m)'
      OBVIOUS
    <2>1. num_block_used'[u] \in {0, m}
      BY DEF Marked
    <2> QED
      BY <2>1 DEF Marked
  <1>2. \A r \in live : r.addr \in Node /\ r.blocks \in Nat /\ Blocks(r)' = Blocks(r)
    BY LiveTypes DEF HeapInv, Blocks
  <1>3. (\A r \in live : Marked(r.addr, r.blocks))'
    BY <1>1, <1>2 DEF HeapInv
  <1>4. BlocksNotShared'
    BY <1>2 DEF HeapInv, BlocksNotShared
  <1>5. ASSUME NEW t \in Tasks, pc'[t].at \in {"lock", "find"}
        PROVE  Marked(pc[t].cur, pc[t].left)'
    BY <1>5, <1>1, PositionFacts
  <1>6. (\A t \in Tasks : \A i \in ToFree(t) : i \in Node /\ allocated[i])'
    BY DEF HeapInv
  <1>7. (\A t, u \in Tasks : t /= u => ToFree(t) \cap ToFree(u) = {})'
    BY DEF HeapInv
  <1> QED
    BY <1>3, <1>4, <1>5, <1>6, <1>7 DEF HeapInv

(* A search that finds no zone changes neither a flag nor a region. *)
LEMMA NoZoneInv ==
    ASSUME HeapInv, NEW size \in Nat, UNCHANGED <<mem_lock_free, pc>>,
           UNCHANGED <<allocated, first_block, num_block_used, live>>, hung' \in BOOLEAN,
           \/ total_requested_memory' = NoteSize(LAST, size)
           \/ UNCHANGED total_requested_memory
    PROVE  HeapInv'
  <1>1. total_requested_memory' \in [Node -> Nat]
    BY DEF HeapInv, TypeOK, NoteSize
  <1>2. TypeOK'
    BY <1>1 DEF HeapInv, TypeOK
  <1>3. \A t \in Tasks : ToFree(t)' = ToFree(t)
    BY DEF ToFree
  <1> QED
    BY <1>2, <1>3, QuietStepInv DEF HeapInv

(* kmalloc keeps the invariant. *)
LEMMA KmallocInv ==
    ASSUME HeapInv, 0 \notin Sizes, NEW t \in Tasks, NEW size \in Sizes, kmalloc(t, size)
    PROVE  HeapInv'
  <1> DEFINE n == num_blocks_needed(size)
  <1>1. size \in Nat /\ n \in Nat /\ n > 0
    BY KHeapAssumption, BlocksNeeded
  <1> HIDE DEF n
  <1>2. UNCHANGED <<mem_lock_free, pc>> /\ hung \in BOOLEAN
    BY DEF kmalloc, HeapInv, TypeOK
  <1>3. CASE TakeZone(n, size)
    BY <1>1, <1>2, <1>3, TakeZoneInv
  <1>4. CASE NoZone(n, size)
    BY <1>1, <1>2, <1>4, NoZoneInv DEF NoZone
  <1>5. CASE SearchNeverEnds(n)
    BY <1>1, <1>2, <1>5, NoZoneInv DEF SearchNeverEnds, nodes
  <1>6. CASE UNCHANGED <<nodes, live, hung>>
    BY <1>1, <1>2, <1>6, NoZoneInv DEF nodes
  <1> QED
    BY <1>3, <1>4, <1>5, <1>6 DEF kmalloc, n

(* What a task that moves on inside kfree does to its place, to the type of pc and to
   the nodes that others have yet to free. *)
LEMMA GotoPlace ==
    ASSUME TypeOK, NEW t \in Tasks, NEW where, NEW cur, NEW left, Goto(t, where, cur, left)
    PROVE  /\ pc'[t].at = where /\ pc'[t].cur = cur /\ pc'[t].left = left
           /\ \A u \in Tasks : u /= t => pc'[u] = pc[u]
  <1> DEFINE here == At(where, cur, left)
  <1>1. here.at = where /\ here.cur = cur /\ here.left = left
    BY DEF At
  <1>2. pc' = [pc EXCEPT ![t] = here]
    BY DEF Goto
  <1> HIDE DEF here
  <1>3. pc'[t] = here /\ \A u \in Tasks : u /= t => pc'[u] = pc[u]
    BY <1>2 DEF TypeOK
  <1> QED
    BY <1>1, <1>3

LEMMA GotoFacts ==
    ASSUME TypeOK, NEW t \in Tasks, NEW cur \in Node, NEW left \in Nat,
           NEW where \in Where, Goto(t, where, cur, left)
    PROVE  /\ pc' \in [Tasks -> Position]
           /\ pc'[t].at = where /\ pc'[t].cur = cur /\ pc'[t].left = left
           /\ \A u \in Tasks : u /= t => pc'[u] = pc[u] /\ ToFree(u)' = ToFree(u)
  <1>1. At(where, cur, left) \in Position
    BY DEF At, Position
  <1>2. pc' \in [Tasks -> Position]
    BY <1>1 DEF Goto, TypeOK
  <1>3. \A u \in Tasks : u /= t => pc'[u] = pc[u]
    BY GotoPlace
  <1>4. \A u \in Tasks : u /= t => ToFree(u)' = ToFree(u)
    BY <1>3 DEF ToFree
  <1>5. pc'[t].at = where /\ pc'[t].cur = cur /\ pc'[t].left = left
    BY GotoPlace
  <1> QED
    BY <1>2, <1>3, <1>4, <1>5

(* A call of kfree turns a region given out into nodes to be freed. *)
LEMMA KfreeCallInv ==
    ASSUME HeapInv, NEW t \in Tasks, NEW r \in live, kfree(t, r)
    PROVE  HeapInv'
  <1>1. r.addr \in Node /\ r.blocks \in Nat /\ Marked(r.addr, r.blocks)
    BY LiveTypes DEF HeapInv
  <1>2. /\ UNCHANGED <<nodes, mem_lock_free, hung>> /\ live' = live \ {r}
        /\ Goto(t, "lock", r.addr, r.blocks)
    BY DEF kfree
  <1>3. /\ pc' \in [Tasks -> Position]
        /\ pc'[t].at = "lock" /\ pc'[t].cur = r.addr /\ pc'[t].left = r.blocks
        /\ \A u \in Tasks : u /= t => pc'[u] = pc[u] /\ ToFree(u)' = ToFree(u)
    <2>1. TypeOK /\ "lock" \in Where
      BY DEF HeapInv, Where
    <2> QED
      BY <2>1, <1>1, <1>2, GotoFacts
  <1>4. ToFree(t)' = Blocks(r) /\ \A q : Blocks(q)' = Blocks(q)
    BY <1>3 DEF ToFree, Blocks
  <1>5. TypeOK'
    BY <1>2, <1>3 DEF HeapInv, TypeOK, nodes
  <1>6. \A u \in Node, m \in Nat : Marked(u, m)' = Marked(u, m)
    BY <1>2 DEF Marked, nodes
  <1>7. BlocksNotShared'
    BY <1>2, <1>3, <1>4 DEF HeapInv, BlocksNotShared, nodes
  <1>8. (\A q \in live : Marked(q.addr, q.blocks))'
    BY <1>2 DEF HeapInv, Marked, nodes
  <1>9. ASSUME NEW u \in Tasks
        PROVE  /\ pc'[u].at \in {"lock", "find"} => Marked(pc[u].cur, pc[u].left)'
               /\ pc'[u].at \notin {"idle", "unlock"} => pc'[u].left > 0
               /\ \A i \in ToFree(u)' : i \in Node /\ allocated'[i]
    <2>1. CASE u = t
      BY <2>1, <1>1, <1>2, <1>3, <1>4 DEF HeapInv, BlocksNotShared, Marked, nodes
    <2>2. CASE u /= t
      BY <2>2, <1>2, <1>3 DEF HeapInv, Marked, nodes
    <2> QED
      BY <2>1, <2>2
  <1>10. (\A u, v \in Tasks : u /= v => ToFree(u) \cap ToFree(v) = {})'
    BY <1>3, <1>4 DEF HeapInv, BlocksNotShared
  <1> QED
    BY <1>5, <1>7, <1>8, <1>9, <1>10 DEF HeapInv

(* kfree marks a node free that is in no region and that no other kfree has yet
   to free. *)
LEMMA KfreeAllocatedInv ==
    ASSUME HeapInv, NEW t \in Tasks, KfreeAllocated(t)
    PROVE  HeapInv'
  <1> DEFINE c == pc[t].cur
             left == pc[t].left
  <1>1. /\ pc[t].at = "allocated" /\ allocated' = [allocated EXCEPT ![c] = FALSE]
        /\ Goto(t, "first_block", c, left)
        /\ UNCHANGED <<first_block, num_block_used, total_requested_memory,
                       mem_lock_free, live, hung>>
    BY DEF KfreeAllocated, Does
  <1>2. c \in Node /\ c \in Int /\ left \in Nat /\ left > 0
    BY <1>1, PositionFacts
  <1>3. ToFree(t) = c .. c + left - 1
    BY <1>1 DEF ToFree
  <1> HIDE DEF c, left
  <1>4. c \in ToFree(t)
    BY <1>2, <1>3
  <1>5. /\ pc' \in [Tasks -> Position]
        /\ pc'[t].at = "first_block" /\ pc'[t].cur = c /\ pc'[t].left = left
        /\ \A u \in Tasks : u /= t => pc'[u] = pc[u] /\ ToFree(u)' = ToFree(u)
    <2>1. TypeOK /\ "first_block" \in Where
      BY DEF HeapInv, Where
    <2> QED
      BY <2>1, <1>1, <1>2, GotoFacts
  <1>6. ToFree(t)' = c + 1 .. c + left - 1
    BY <1>5 DEF ToFree
  <1>7. ToFree(t)' \subseteq ToFree(t) /\ c \notin ToFree(t)'
    BY <1>2, <1>3, <1>6
  <1>8. allocated \in [Node -> BOOLEAN] /\ allocated' \in [Node -> BOOLEAN]
    BY <1>1, Zenon DEF HeapInv, TypeOK
  <1>9. TypeOK'
    BY <1>1, <1>5, <1>8 DEF HeapInv, TypeOK
  <1>10. \A i \in Node : i /= c => allocated'[i] = allocated[i]
    BY <1>1, <1>8
  <1>11. ASSUME NEW u \in Node, NEW m \in Nat, Marked(u, m), c \notin u .. u + m - 1
         PROVE  Marked(u, m)'
    BY <1>1, <1>10, <1>11 DEF Marked
  <1>12. \A r \in live : c \notin Blocks(r) /\ r.addr \in Node /\ r.blocks \in Nat
    BY <1>4, LiveTypes DEF HeapInv, BlocksNotShared
  <1>13. \A u \in Tasks : u /= t => c \notin ToFree(u)
    BY <1>4 DEF HeapInv
  <1>14. (\A r \in live : Marked(r.addr, r.blocks))'
    BY <1>1, <1>11, <1>12 DEF HeapInv, Blocks
  <1>15. \A r \in live : Blocks(r)' = Blocks(r)
    BY DEF Blocks
  <1>16. BlocksNotShared'
    BY <1>1, <1>5, <1>7, <1>10, <1>12, <1>15 DEF HeapInv, BlocksNotShared
  <1>17. ASSUME NEW u \in Tasks
         PROVE  /\ pc'[u].at \in {"lock", "find"} => Marked(pc[u].cur, pc[u].left)'
                /\ pc'[u].at \notin {"idle", "unlock"} => pc'[u].left > 0
                /\ \A i \in ToFree(u)' : i \in Node /\ allocated'[i]
    <2>1. CASE u = t
      BY <2>1, <1>2, <1>5, <1>7, <1>10, Zenon DEF HeapInv
    <2>2. CASE u /= t
      <3>1. pc'[u] = pc[u] /\ ToFree(u)' = ToFree(u) /\ c \notin ToFree(u)
        BY <2>2, <1>5, <1>13
      <3>2. pc[u].cur \in Node /\ pc[u].left \in Nat
        BY PositionFacts
      <3>3. pc[u].at \in {"lock", "find"} => Marked(pc[u].cur, pc[u].left)'
        BY <3>1, <3>2, <1>11 DEF HeapInv, ToFree
      <3> QED
        BY <3>1, <3>3, <1>10 DEF HeapInv
    <2> QED
      BY <2>1, <2>2
  <1>18. (\A u, v \in Tasks : u /= v => ToFree(u) \cap ToFree(v) = {})'
    BY <1>5, <1>7 DEF HeapInv
  <1> QED
    BY <1>9, <1>14, <1>16, <1>17, <1>18 DEF HeapInv

(* What a step that leaves the allocated flags alone does to the nodes ... *)
FlagsKept ==
    /\ allocated' = allocated /\ live' = live /\ hung' = hung /\ mem_lock_free' \in {0, 1}
    /\ first_block' \in [Node -> BOOLEAN] /\ num_block_used' \in [Node -> Nat]
    /\ total_requested_memory' \in [Node -> Nat]
    /\ \A i \in Node : num_block_used'[i] \in {0, num_block_used[i]}

(* ... and where it may take a task: out of kfree, on with the same node, or to the next. *)
GoesOn(t, where, cur, n) ==
    \/ where \in {"idle", "unlock"}
    \/ /\ n > 0 /\ cur = pc[t].cur /\ n = pc[t].left
       /\ \/ /\ where \in {"num_block_used", "total_requested"}
             /\ pc[t].at \in {"first_block", "num_block_used"}
          \/ where \in {"find", "allocated"} /\ pc[t].at \in {"lock", "find"}
    \/ /\ n > 0 /\ cur = pc[t].cur + 1 /\ n = pc[t].left - 1
       /\ where = "allocated" /\ pc[t].at = "total_requested"

(* Such a step keeps the invariant. *)
LEMMA MoveInv ==
    ASSUME HeapInv, NEW t \in Tasks, NEW where \in Where, NEW cur \in Node, NEW n \in Nat,
           Goto(t, where, cur, n), FlagsKept, GoesOn(t, where, cur, n)
    PROVE  HeapInv'
  <1> DEFINE c == pc[t].cur
             left == pc[t].left
  <1>1. TypeOK /\ c \in Int /\ left \in Nat
    BY PositionFacts
  <1>2. /\ pc' \in [Tasks -> Position]
        /\ pc'[t].at = where /\ pc'[t].cur = cur /\ pc'[t].left = n
        /\ \A u \in Tasks : u /= t => pc'[u] = pc[u] /\ ToFree(u)' = ToFree(u)
    BY <1>1, GotoFacts
  <1>3. TypeOK'
    BY <1>1, <1>2 DEF FlagsKept, TypeOK
  <1>4. ToFree(t)' \subseteq ToFree(t)
    <2>1. CASE where \in {"idle", "unlock"}
      BY <2>1, <1>2 DEF ToFree
    <2>2. CASE /\ where = "allocated" /\ pc[t].at = "total_requested"
               /\ cur = c + 1 /\ n = left - 1
      <3>1. ToFree(t)' = cur .. cur + n - 1 /\ ToFree(t) = c + 1 .. c + left - 1
        BY <2>2, <1>2 DEF ToFree
      <3>2. cur + n - 1 = c + left - 1
        BY <2>2, <1>1
      <3> QED
        BY <2>2, <3>1, <3>2
    <2>3. CASE /\ where \in {"num_block_used", "total_requested"}
               /\ pc[t].at \in {"first_block", "num_block_used"} /\ cur = c /\ n = left
      BY <2>3, <1>2 DEF ToFree
    <2>4. CASE /\ where \in {"find", "allocated"} /\ pc[t].at \in {"lock", "find"}
               /\ cur = c /\ n = left
      BY <2>4, <1>2 DEF ToFree
    <2> QED
      BY <2>1, <2>2, <2>3, <2>4, Zenon DEF GoesOn
  <1>5. where \notin {"idle", "unlock"} => n > 0
    BY DEF GoesOn
  <1>6. where \in {"lock", "find"} => pc[t].at \in {"lock", "find"} /\ cur = c /\ n = left
    BY DEF GoesOn
  <1>7. \A u \in Tasks : ToFree(u)' \subseteq ToFree(u)
    BY <1>2, <1>4
  <1>8. \A u \in Tasks : pc'[u].at \notin {"idle", "unlock"} => pc'[u].left > 0
    <2> TAKE u \in Tasks
    <2>1. pc[u].at \notin {"idle", "unlock"} => pc[u].left > 0
      BY PositionFacts
    <2> QED
      BY <2>1, <1>2, <1>5
  <1>9. \A u \in Tasks : pc'[u].at \in {"lock", "find"} =>
               /\ pc[u].at \in {"lock", "find"}
               /\ pc'[u].cur = pc[u].cur /\ pc'[u].left = pc[u].left
    BY <1>2, <1>6
  <1>10. /\ allocated' = allocated /\ live' = live
         /\ \A i \in Node : num_block_used'[i] \in {0, num_block_used[i]}
    BY DEF FlagsKept
  <1> QED
    BY <1>3, <1>7, <1>8, <1>9, <1>10, QuietStepInv

(* The stores of kfree that leave the allocated flags alone are such steps. *)
LEMMA UnchangedFlags ==
    ASSUME TypeOK, UNCHANGED <<nodes, live, hung>>, mem_lock_free' \in {0, 1}
    PROVE  FlagsKept
  BY DEF TypeOK, nodes, FlagsKept

LEMMA KfreeLockInv ==
    ASSUME HeapInv, NEW t \in Tasks, KfreeLock(t)
    PROVE  HeapInv'
  <1>1. /\ pc[t].at = "lock" /\ UNCHANGED <<nodes, live, hung>> /\ mem_lock_free' \in {0, 1}
        /\ Goto(t, "find", pc[t].cur, pc[t].left)
    BY DEF KfreeLock, Does
  <1>2. TypeOK /\ pc[t].cur \in Node /\ pc[t].left \in Nat /\ pc[t].left > 0
    BY <1>1, PositionFacts
  <1>3. "find" \in Where /\ GoesOn(t, "find", pc[t].cur, pc[t].left)
    BY <1>1, <1>2 DEF GoesOn, Where
  <1> QED
    BY <1>1, <1>2, <1>3, MoveInv, UnchangedFlags

LEMMA KfreeFindInv ==
    ASSUME HeapInv, NEW t \in Tasks, KfreeFind(t)
    PROVE  HeapInv'
  <1>1. pc[t].at = "find" /\ UNCHANGED <<nodes, live, hung>> /\ mem_lock_free' = mem_lock_free
    BY DEF KfreeFind, Does
  <1>2. /\ TypeOK /\ pc[t].cur \in Node /\ pc[t].left \in Nat /\ pc[t].left > 0 /\ 0 \in Node
        /\ Marked(pc[t].cur, pc[t].left)
    BY <1>1, PositionFacts
  <1>3. FlagsKept
    BY <1>1, <1>2, UnchangedFlags DEF TypeOK
  <1>4. CASE Goto(t, "unlock", 0, 0)
    <2>1. "unlock" \in Where /\ 0 \in Nat /\ GoesOn(t, "unlock", 0, 0)
      BY DEF GoesOn, Where
    <2> QED
      BY <2>1, <1>2, <1>3, <1>4, MoveInv
  <1>5. CASE num_block_used[pc[t].cur] /= 0 /\ Goto(t, "allocated", pc[t].cur, num_block_used[pc[t].cur])
    <2>1. num_block_used[pc[t].cur] = pc[t].left
      BY <1>2, <1>5 DEF Marked
    <2>2. "allocated" \in Where /\ GoesOn(t, "allocated", pc[t].cur, pc[t].left)
      BY <1>1, <1>2 DEF GoesOn, Where
    <2> QED
      BY <2>1, <2>2, <1>2, <1>3, <1>5, MoveInv
  <1> QED
    BY <1>4, <1>5 DEF KfreeFind

LEMMA KfreeFirstBlockInv ==
    ASSUME HeapInv, NEW t \in Tasks, KfreeFirstBlock(t)
    PROVE  HeapInv'
  <1>1. /\ pc[t].at = "first_block" /\ Goto(t, "num_block_used", pc[t].cur, pc[t].left)
        /\ first_block' = [first_block EXCEPT ![pc[t].cur] = FALSE]
        /\ UNCHANGED <<allocated, num_block_used, total_requested_memory, mem_lock_free, live, hung>>
    BY DEF KfreeFirstBlock, Does
  <1>2. TypeOK /\ pc[t].cur \in Node /\ pc[t].left \in Nat /\ pc[t].left > 0
    BY <1>1, PositionFacts
  <1>3. FlagsKept
    BY <1>1, <1>2 DEF TypeOK, FlagsKept
  <1>4. "num_block_used" \in Where /\ GoesOn(t, "num_block_used", pc[t].cur, pc[t].left)
    BY <1>1, <1>2 DEF GoesOn, Where
  <1> QED
    BY <1>1, <1>2, <1>3, <1>4, MoveInv

LEMMA KfreeNumBlockUsedInv ==
    ASSUME HeapInv, NEW t \in Tasks, KfreeNumBlockUsed(t)
    PROVE  HeapInv'
  <1>1. /\ pc[t].at = "num_block_used" /\ Goto(t, "total_requested", pc[t].cur, pc[t].left)
        /\ num_block_used' = [num_block_used EXCEPT ![pc[t].cur] = 0]
        /\ UNCHANGED <<allocated, first_block, total_requested_memory, mem_lock_free, live, hung>>
    BY DEF KfreeNumBlockUsed, Does
  <1>2. TypeOK /\ pc[t].cur \in Node /\ pc[t].left \in Nat /\ pc[t].left > 0
    BY <1>1, PositionFacts
  <1>3. FlagsKept
    BY <1>1, <1>2 DEF TypeOK, FlagsKept
  <1>4. "total_requested" \in Where /\ GoesOn(t, "total_requested", pc[t].cur, pc[t].left)
    BY <1>1, <1>2 DEF GoesOn, Where
  <1> QED
    BY <1>1, <1>2, <1>3, <1>4, MoveInv

LEMMA KfreeNextNodeInv ==
    ASSUME HeapInv, NEW t \in Tasks, KfreeNextNode(t)
    PROVE  HeapInv'
  <1> DEFINE c == pc[t].cur
             left == pc[t].left
  <1>1. /\ pc[t].at = "total_requested"
        /\ total_requested_memory' = [total_requested_memory EXCEPT ![c] = 0]
        /\ UNCHANGED <<allocated, first_block, num_block_used, mem_lock_free, live, hung>>
    BY DEF KfreeNextNode, Does
  <1>2. /\ TypeOK /\ c \in Int /\ left \in Nat /\ 0 \in Node
        /\ \A i \in ToFree(t) : i \in Node
    BY PositionFacts
  <1>3. FlagsKept
    BY <1>1, <1>2, Zenon DEF TypeOK, FlagsKept
  <1>4. CASE Goto(t, "unlock", 0, 0)
    <2>1. "unlock" \in Where /\ 0 \in Nat /\ GoesOn(t, "unlock", 0, 0)
      BY DEF GoesOn, Where
    <2> QED
      BY <2>1, <1>2, <1>3, <1>4, MoveInv
  <1>5. CASE ~(left <= 1) /\ Goto(t, "allocated", c + 1, left - 1)
    <2>1. c + 1 \in ToFree(t) /\ left - 1 \in Nat /\ left - 1 > 0
      BY <1>1, <1>2, <1>5 DEF ToFree
    <2>2. "allocated" \in Where /\ GoesOn(t, "allocated", c + 1, left - 1)
      BY <1>1, <2>1 DEF GoesOn, Where
    <2>3. c + 1 \in Node
      BY <2>1, <1>2
    <2> QED
      BY <2>1, <2>2, <2>3, <1>3, <1>5, MoveInv
  <1> QED
    BY <1>4, <1>5 DEF KfreeNextNode

LEMMA KfreeUnlockInv ==
    ASSUME HeapInv, NEW t \in Tasks, KfreeUnlock(t)
    PROVE  HeapInv'
  <1>1. UNCHANGED <<nodes, live, hung>> /\ mem_lock_free' \in {0, 1} /\ Goto(t, "idle", 0, 0)
    BY DEF KfreeUnlock
  <1>2. TypeOK /\ 0 \in Node
    BY PositionFacts
  <1>3. "idle" \in Where /\ 0 \in Nat /\ GoesOn(t, "idle", 0, 0)
    BY DEF GoesOn, Where
  <1> QED
    BY <1>1, <1>2, <1>3, MoveInv, UnchangedFlags

(* Every step of kfree keeps the invariant. *)
LEMMA KfreeStepInv ==
    ASSUME HeapInv, NEW t \in Tasks, KfreeStep(t)
    PROVE  HeapInv'
  BY KfreeLockInv, KfreeFindInv, KfreeAllocatedInv, KfreeFirstBlockInv, KfreeNumBlockUsedInv,
     KfreeNextNodeInv, KfreeUnlockInv DEF KfreeStep

(* Every step keeps the invariant. *)
LEMMA NextHeapInv ==
    ASSUME 0 \notin Sizes, HeapInv, [Next]_vars
    PROVE  HeapInv'
  <1>1. CASE \E t \in Tasks, size \in Sizes : kmalloc(t, size)
    BY <1>1, KmallocInv
  <1>2. CASE \E t \in Tasks : \E r \in live : kfree(t, r)
    BY <1>2, KfreeCallInv
  <1>3. CASE \E t \in Tasks : KfreeStep(t)
    BY <1>3, KfreeStepInv
  <1>4. CASE UNCHANGED vars
    <2>1. UNCHANGED <<allocated, first_block, num_block_used, total_requested_memory,
                      mem_lock_free, pc, live, hung>>
      BY <1>4 DEF vars, nodes
    <2> QED
      BY <2>1, NoZoneInv DEF HeapInv, TypeOK
  <1> QED
    BY <1>1, <1>2, <1>3, <1>4 DEF Next, LoopForever

-----------------------------------------------------------------------------
(* HeapInv is an invariant of the heap: kmalloc's zones are free, and every kfree
   clears only nodes of the region it was called with. *)
THEOREM HeapInvariant ==
    ASSUME 0 \notin Sizes
    PROVE  Spec => []HeapInv
  <1>1. init_memory_region => HeapInv
    BY InitHeapInv
  <1>2. HeapInv /\ [Next]_vars => HeapInv'
    BY NextHeapInv
  <1> QED
    BY <1>1, <1>2, PTL DEF Spec

(* No block of the heap has two owners, whatever tasks call kmalloc and kfree and
   however kfree is preempted, although kfree's lock does not exclude kmalloc and
   does not even exclude another kfree. *)
THEOREM NoBlockIsShared ==
    ASSUME 0 \notin Sizes
    PROVE  Spec => []BlocksNotShared
  <1>1. HeapInv => BlocksNotShared
    BY DEF HeapInv
  <1> QED
    BY <1>1, HeapInvariant, PTL

(* The nodes' fields, kfree's positions and the regions keep their types. *)
THEOREM HeapTypeCorrect ==
    ASSUME 0 \notin Sizes
    PROVE  Spec => []TypeOK
  <1>1. HeapInv => TypeOK
    BY DEF HeapInv
  <1> QED
    BY <1>1, HeapInvariant, PTL

-----------------------------------------------------------------------------
(* One task: kfree runs from its call to its end before kmalloc runs again. *)

(* The inductive strengthening of HeapAccounts: the first node of a region holds
   its count and its size; a node that is allocated is in a region or about to be
   freed; node 0 is as init_memory_region left it; the node that kfree is working
   on is no longer allocated. *)
OneTaskInv ==
    /\ HeapInv
    /\ ~allocated[0] /\ num_block_used[0] = LAST + 1
    /\ \A r \in live : /\ num_block_used[r.addr] = r.blocks
                       /\ total_requested_memory[r.addr] = r.size
    /\ \A t \in Tasks :
          /\ pc[t].at \notin {"idle", "unlock"} => pc[t].cur > 0
          /\ pc[t].at \in {"lock", "find"} => num_block_used[pc[t].cur] = pc[t].left
          /\ pc[t].at \in {"first_block", "num_block_used", "total_requested"} =>
                ~allocated[pc[t].cur]
    /\ \A i \in Node : i /= LAST /\ allocated[i] =>
          \/ \E r \in live : i \in Blocks(r)
          \/ \E t \in Tasks : i \in ToFree(t)

\* After init_memory_region nothing is allocated.
LEMMA InitOneTask == init_memory_region => OneTaskInv
  <1> SUFFICES ASSUME init_memory_region PROVE OneTaskInv
    OBVIOUS
  <1>1. HeapInv /\ 0 \in Node
    BY InitHeapInv, KHeapAssumption DEF Node
  <1>2. \A t \in Tasks : pc[t].at = "idle"
    BY DEF init_memory_region, At
  <1> QED
    BY <1>1, <1>2 DEF OneTaskInv, init_memory_region

(* A zone that is the first long enough is the head of a run of free nodes, so the
   search has noted the size there. *)
LEMMA ZoneIsNoted ==
    ASSUME TypeOK, NEW n \in Nat, n > 0, NEW s \in 1 .. LAST, IsFirstZone(s, n), NEW size
    PROVE  NoteSize(s, size)[s] = size
  <1>1. /\ s \in Node /\ s \in 1 .. s /\ ~allocated[s] /\ s + n - 1 <= LAST
        /\ \A i \in s .. s + n - 1 : ~allocated[i]
    BY KHeapAssumption DEF IsFirstZone, Zones, Fits, Node
  <1>2. ASSUME s /= 1, ~allocated[s - 1]
        PROVE  FALSE
    <2>1. s - 1 \in 1 .. LAST /\ s - 1 + n - 1 <= LAST
      BY <1>1, <1>2, KHeapAssumption
    <2>2. \A i \in s - 1 .. s - 1 + n - 1 : ~allocated[i]
      BY <1>1, <1>2, KHeapAssumption
    <2>3. s - 1 \in Zones(n)
      BY <1>2, <2>1, <2>2 DEF Zones, Fits
    <2>4. s <= s - 1
      BY <2>3 DEF IsFirstZone
    <2> QED
      BY <2>4, KHeapAssumption
  <1> QED
    BY <1>1, <1>2 DEF NoteSize

(* The regions given out keep their entries when a search notes a size: it writes
   to free nodes only. *)
LEMMA NoteSpares ==
    ASSUME HeapInv, NEW r \in live, NEW upTo, NEW size
    PROVE  /\ r.addr \in Node /\ allocated[r.addr] /\ r.addr /= 0 /\ r.addr < LAST
           /\ NoteSize(upTo, size)[r.addr] = total_requested_memory[r.addr]
  <1>1. r.addr \in Node /\ r.addr /= 0 /\ r.addr < LAST /\ r.blocks \in Nat /\ r.addr \in Int
    BY LiveTypes, KHeapAssumption DEF HeapInv, TypeOK
  <1>2. r.addr \in r.addr .. r.addr + r.blocks - 1
    BY <1>1 DEF HeapInv, Marked
  <1>3. allocated[r.addr]
    BY <1>2 DEF HeapInv, Marked
  <1> QED
    BY <1>1, <1>3 DEF NoteSize

\* find_free_zone marks the blocks of the region it returns, and notes their number at
\* the first.
LEMMA OneTaskTakeZone ==
    ASSUME OneTaskInv, NEW size \in Nat, NEW n \in Nat, n > 0, TakeZone(n, size),
           UNCHANGED <<mem_lock_free, pc>>,
           \A t \in Tasks : pc[t].at = "idle"
    PROVE  OneTaskInv'
  <1>0. HeapInv' /\ HeapInv
    BY TakeZoneInv, SMTT(30) DEF OneTaskInv
  <1>1. PICK s \in 1 .. LAST :
          /\ IsFirstZone(s, n)
          /\ allocated' = [i \in Node |-> i \in s .. s + n - 1 \/ allocated[i]]
          /\ num_block_used' = [i \in Node |-> IF i \in s .. s + n - 1 THEN n ELSE num_block_used[i]]
          /\ total_requested_memory' = NoteSize(s, size)
          /\ live' = IF addr(s) = NULL THEN live ELSE live \cup {Region(s, n, size)}
    BY Zenon DEF TakeZone
  <1>2. /\ s \in Node /\ s \in s .. s + n - 1 /\ s + n - 1 <= LAST
        /\ \A i \in s .. s + n - 1 : i \in Node /\ ~allocated[i]
    <2>1. IsFirstZone(s, n)
      BY <1>1, Zenon
    <2> QED
      BY <2>1, KHeapAssumption DEF IsFirstZone, Zones, Fits, Node
  <1> DEFINE new == Region(s, n, size)
  <1>3. new.addr = s /\ new.blocks = n /\ new.size = size /\ Blocks(new) = s .. s + n - 1
    BY DEF Region, Blocks
  <1>4. /\ \A r \in live' : r \in live \/ r = new
        /\ live \subseteq live' /\ (s /= LAST => new \in live')
    BY <1>1, KHeapAssumption DEF addr, NULL
  <1> HIDE DEF new
  <1>5. ~allocated'[0] /\ num_block_used'[0] = LAST + 1
    <2>1. 0 \in Node /\ 0 \notin s .. s + n - 1
      BY KHeapAssumption DEF Node
    <2> QED
      BY <1>1, <2>1, Zenon DEF OneTaskInv
  <1>6. ASSUME NEW r \in live'
        PROVE  num_block_used'[r.addr] = r.blocks /\ total_requested_memory'[r.addr] = r.size
    <2>1. CASE r \in live
      <3>1. r.addr \in Node /\ allocated[r.addr]
        BY <2>1, <1>0, NoteSpares
      <3>2. total_requested_memory'[r.addr] = total_requested_memory[r.addr]
        BY <2>1, <1>0, <1>1, NoteSpares
      <3>3. num_block_used'[r.addr] = num_block_used[r.addr]
        BY <3>1, <1>1, <1>2, Zenon
      <3> QED
        BY <2>1, <3>2, <3>3 DEF OneTaskInv
    <2>2. CASE r = new
      <3>1. total_requested_memory'[s] = size
        BY <1>0, <1>1, ZoneIsNoted DEF HeapInv
      <3>2. num_block_used'[s] = n
        BY <1>1, <1>2
      <3> QED
        BY <2>2, <3>1, <3>2, <1>3
    <2> QED
      BY <2>1, <2>2, <1>4
  <1>7. \A t \in Tasks : pc'[t].at = "idle" /\ ToFree(t) = {}
    BY DEF ToFree
  <1>8. ASSUME NEW i \in Node, i /= LAST, allocated'[i]
        PROVE  \E r \in live' : i \in Blocks(r)
    <2>1. CASE i \in s .. s + n - 1
      <3>1. s /= LAST
        BY <2>1, <1>2, <1>8, KHeapAssumption DEF Node
      <3> QED
        BY <2>1, <3>1, <1>3, <1>4
    <2>2. CASE i \notin s .. s + n - 1
      BY <2>2, <1>1, <1>4, <1>7, <1>8, Zenon DEF OneTaskInv
    <2> QED
      BY <2>1, <2>2
  <1>9. \A r : Blocks(r)' = Blocks(r)
    BY DEF Blocks
  <1> QED
    BY <1>0, <1>5, <1>6, <1>7, <1>8, <1>9 DEF OneTaskInv

(* A search that finds nothing, and a step that does nothing. *)
LEMMA OneTaskNoZone ==
    ASSUME OneTaskInv, NEW size \in Nat, UNCHANGED <<mem_lock_free, pc>>,
           UNCHANGED <<allocated, first_block, num_block_used, live>>, hung' \in BOOLEAN,
           \/ total_requested_memory' = NoteSize(LAST, size)
           \/ UNCHANGED total_requested_memory
    PROVE  OneTaskInv'
  <1>1. HeapInv' /\ HeapInv
    BY NoZoneInv, Zenon DEF OneTaskInv
  <1>2. \A r \in live : total_requested_memory'[r.addr] = total_requested_memory[r.addr]
    BY <1>1, NoteSpares
  <1>3. (\A t \in Tasks : ToFree(t)' = ToFree(t)) /\ (\A r : Blocks(r)' = Blocks(r))
    BY DEF ToFree, Blocks
  <1> QED
    BY <1>1, <1>2, <1>3 DEF OneTaskInv

\* kmalloc keeps the account, whether it finds a zone, finds none or is refused.
LEMMA OneTaskKmalloc ==
    ASSUME OneTaskInv, 0 \notin Sizes, NEW t \in Tasks, Tasks = {t},
           NEW size \in Sizes, kmalloc(t, size)
    PROVE  OneTaskInv'
  <1> DEFINE n == num_blocks_needed(size)
  <1>1. size \in Nat /\ n \in Nat /\ n > 0
    BY KHeapAssumption, BlocksNeeded
  <1> HIDE DEF n
  <1>2. UNCHANGED <<mem_lock_free, pc>> /\ hung \in BOOLEAN /\ \A u \in Tasks : pc[u].at = "idle"
    BY DEF kmalloc, Idle, OneTaskInv, HeapInv, TypeOK
  <1>3. CASE TakeZone(n, size)
    BY <1>1, <1>2, <1>3, OneTaskTakeZone
  <1>4. CASE NoZone(n, size)
    BY <1>1, <1>2, <1>4, OneTaskNoZone DEF NoZone
  <1>5. CASE SearchNeverEnds(n)
    BY <1>1, <1>2, <1>5, OneTaskNoZone DEF SearchNeverEnds, nodes
  <1>6. CASE UNCHANGED <<nodes, live, hung>>
    BY <1>1, <1>2, <1>6, OneTaskNoZone DEF nodes
  <1> QED
    BY <1>3, <1>4, <1>5, <1>6 DEF kmalloc, n

\* The call of kfree keeps the account: its region is now that of a kfree under way.
LEMMA OneTaskCall ==
    ASSUME OneTaskInv, NEW t \in Tasks, Tasks = {t}, NEW r \in live, kfree(t, r)
    PROVE  OneTaskInv'
  <1>0. HeapInv' /\ HeapInv
    BY KfreeCallInv DEF OneTaskInv
  <1>1. r.addr \in Node /\ r.blocks \in Nat /\ r.addr \in Int /\ r.addr > 0
    <2>1. TypeOK
      BY <1>0, Zenon DEF HeapInv
    <2>2. r.addr \in Node /\ r.addr /= 0
      BY <1>0, NoteSpares, Zenon
    <2>3. r.blocks \in Nat
      BY <2>1, LiveTypes, Zenon
    <2> QED BY <2>2, <2>3, KHeapAssumption DEF Node
  <1>2. /\ UNCHANGED <<nodes, mem_lock_free, hung>> /\ live' = live \ {r}
        /\ Goto(t, "lock", r.addr, r.blocks) /\ pc[t].at = "idle"
    BY SMTT(30) DEF kfree, Idle
  <1>3. pc'[t].at = "lock" /\ pc'[t].cur = r.addr /\ pc'[t].left = r.blocks
    <2>1. TypeOK
      BY <1>0, Zenon DEF HeapInv
    <2> QED BY <1>2, <2>1, GotoPlace, Zenon
  <1>4. /\ ToFree(t)' = Blocks(r) /\ ToFree(t) = {}
        /\ \A q : Blocks(q)' = Blocks(q)
    BY <1>2, <1>3 DEF ToFree, Blocks
  <1>5. \A i \in Node : i /= LAST /\ allocated'[i] =>
          (\E q \in live' : i \in Blocks(q)) \/ i \in ToFree(t)'
    BY <1>2, <1>4 DEF OneTaskInv, nodes
  <1>6. ~allocated'[0] /\ num_block_used'[0] = LAST + 1
    BY <1>2 DEF OneTaskInv, nodes
  <1>7. \A q \in live' : num_block_used'[q.addr] = q.blocks /\ total_requested_memory'[q.addr] = q.size
    BY <1>2, Zenon DEF OneTaskInv, nodes
  <1>8. num_block_used'[pc'[t].cur] = pc'[t].left
    BY <1>2, <1>3, Zenon DEF OneTaskInv, nodes
  <1> QED
    BY <1>0, <1>1, <1>3, <1>4, <1>5, <1>6, <1>7, <1>8, Zenon DEF OneTaskInv

(* What a step of kfree may do to the fields that the account is about: the regions
   given out keep theirs, and a node that stays allocated stays one to be freed. *)
Keeps(t) ==
    /\ ~allocated'[0] /\ num_block_used'[0] = LAST + 1
    /\ \A r \in live : /\ num_block_used'[r.addr] = num_block_used[r.addr]
                       /\ total_requested_memory'[r.addr] = total_requested_memory[r.addr]
    /\ pc'[t].at \notin {"idle", "unlock"} => pc'[t].cur > 0
    /\ pc'[t].at \in {"lock", "find"} => num_block_used'[pc'[t].cur] = pc'[t].left
    /\ pc'[t].at \in {"first_block", "num_block_used", "total_requested"} =>
          ~allocated'[pc'[t].cur]
    /\ \A i \in Node : allocated'[i] => allocated[i] /\ (i \in ToFree(t) => i \in ToFree(t)')

LEMMA KeepsAccount ==
    ASSUME OneTaskInv, NEW t \in Tasks, Tasks = {t}, HeapInv', live' = live, Keeps(t)
    PROVE  OneTaskInv'
  <1>1. \A r : Blocks(r)' = Blocks(r)
    BY DEF Blocks
  <1>2. \A r \in live' : num_block_used'[r.addr] = r.blocks /\ total_requested_memory'[r.addr] = r.size
    BY Zenon DEF OneTaskInv, Keeps
  <1>3. ASSUME NEW i \in Node, i /= LAST, allocated'[i]
        PROVE  (\E r \in live' : i \in Blocks(r)) \/ i \in ToFree(t)'
    <2>1. allocated[i] /\ (i \in ToFree(t) => i \in ToFree(t)')
      BY <1>3, Zenon DEF Keeps
    <2> QED
      BY <2>1, <1>3, Zenon DEF OneTaskInv
  <1> QED
    BY <1>1, <1>2, <1>3, Zenon DEF OneTaskInv, Keeps

(* Where the one task is, and the nodes of the regions it does not free. *)
LEMMA OneTaskFacts ==
    ASSUME OneTaskInv, NEW t \in Tasks
    PROVE  /\ TypeOK /\ HeapInv
           /\ pc[t].cur \in Node /\ pc[t].cur \in Int /\ pc[t].left \in Nat /\ 0 \in Node
           /\ pc[t].at \notin {"idle", "unlock"} => pc[t].left > 0 /\ pc[t].cur > 0
           /\ pc[t].at \in {"lock", "find"} => num_block_used[pc[t].cur] = pc[t].left
           /\ pc[t].at \in {"first_block", "num_block_used", "total_requested"} =>
                 ~allocated[pc[t].cur]
           /\ ~allocated[0] /\ num_block_used[0] = LAST + 1
           /\ \A r \in live : r.addr \in Node /\ allocated[r.addr]
           /\ \A i \in ToFree(t) : i \in Node /\ allocated[i]
  <1>1. HeapInv
    BY DEF OneTaskInv
  <1>2. \A r \in live : r.addr \in Node /\ allocated[r.addr]
    BY <1>1, NoteSpares
  <1>3. /\ pc[t].at \notin {"idle", "unlock"} => pc[t].cur > 0
        /\ pc[t].at \in {"lock", "find"} => num_block_used[pc[t].cur] = pc[t].left
        /\ pc[t].at \in {"first_block", "num_block_used", "total_requested"} =>
              ~allocated[pc[t].cur]
        /\ ~allocated[0] /\ num_block_used[0] = LAST + 1
    BY DEF OneTaskInv
  <1> QED
    BY <1>1, <1>2, <1>3, PositionFacts, Zenon

LEMMA OneTaskGoto ==
    ASSUME OneTaskInv, NEW t \in Tasks, NEW where, NEW cur, NEW left, Goto(t, where, cur, left)
    PROVE  pc'[t].at = where /\ pc'[t].cur = cur /\ pc'[t].left = left
  <1>1. TypeOK
    BY Zenon DEF OneTaskInv, HeapInv
  <1> QED
    BY <1>1, GotoPlace

\* Taking the lock, and finding the node.
LEMMA OneTaskLock ==
    ASSUME OneTaskInv, NEW t \in Tasks, KfreeLock(t)
    PROVE  live' = live /\ Keeps(t)
  <1>1. /\ UNCHANGED <<allocated, num_block_used, total_requested_memory, live>>
        /\ Goto(t, "find", pc[t].cur, pc[t].left) /\ pc[t].at = "lock"
    BY DEF KfreeLock, Does, nodes
  <1>2. pc'[t].at = "find" /\ pc'[t].cur = pc[t].cur /\ pc'[t].left = pc[t].left
    BY <1>1, OneTaskGoto, Zenon
  <1>3. ToFree(t)' = ToFree(t)
    BY <1>1, <1>2 DEF ToFree
  <1> QED
    BY <1>1, <1>2, <1>3, OneTaskFacts, Zenon DEF Keeps

LEMMA OneTaskFind ==
    ASSUME OneTaskInv, NEW t \in Tasks, KfreeFind(t)
    PROVE  live' = live /\ Keeps(t)
  <1>1. UNCHANGED <<allocated, num_block_used, total_requested_memory, live>> /\ pc[t].at = "find"
    BY DEF KfreeFind, Does, nodes
  <1>2. /\ TypeOK /\ pc[t].cur \in Int /\ pc[t].left \in Nat /\ pc[t].left > 0 /\ pc[t].cur > 0
        /\ num_block_used[pc[t].cur] = pc[t].left /\ \A i \in ToFree(t) : allocated[i]
    BY <1>1, OneTaskFacts, Zenon
  <1>3. pc[t].cur \in ToFree(t)
    BY <1>1, <1>2 DEF ToFree
  <1>4. allocated[pc[t].cur] /\ num_block_used[pc[t].cur] /= 0
    BY <1>2, <1>3
  <1>5. Goto(t, "allocated", pc[t].cur, pc[t].left)
    BY <1>2, <1>4 DEF KfreeFind
  <1>6. pc'[t].at = "allocated" /\ pc'[t].cur = pc[t].cur /\ pc'[t].left = pc[t].left
    BY <1>2, <1>5, GotoPlace
  <1>7. ToFree(t)' = ToFree(t)
    BY <1>1, <1>6 DEF ToFree
  <1> QED
    BY <1>1, <1>2, <1>6, <1>7, OneTaskFacts, Zenon DEF Keeps

\* The four stores to a node.
LEMMA OneTaskAllocated ==
    ASSUME OneTaskInv, NEW t \in Tasks, KfreeAllocated(t)
    PROVE  live' = live /\ Keeps(t)
  <1> DEFINE c == pc[t].cur
             left == pc[t].left
  <1>1. /\ allocated' = [allocated EXCEPT ![c] = FALSE] /\ pc[t].at = "allocated"
        /\ UNCHANGED <<num_block_used, total_requested_memory, live>>
        /\ Goto(t, "first_block", c, left)
    BY DEF KfreeAllocated, Does
  <1>2. TypeOK /\ c \in Node /\ c \in Int /\ left \in Nat /\ c > 0 /\ 0 \in Node /\ ~allocated[0]
    BY <1>1, OneTaskFacts
  <1>3. pc'[t].at = "first_block" /\ pc'[t].cur = c /\ pc'[t].left = left
    BY <1>1, <1>2, GotoPlace
  <1>4. ToFree(t) = c .. c + left - 1 /\ ToFree(t)' = c + 1 .. c + left - 1
    BY <1>1, <1>3 DEF ToFree
  <1>5. allocated \in [Node -> BOOLEAN]
    BY <1>2 DEF TypeOK
  <1>6. ~allocated'[c] /\ \A i \in Node : allocated'[i] => allocated[i] /\ i /= c
    BY <1>1, <1>2, <1>5
  <1> HIDE DEF c, left
  <1>7. \A i \in Node : i \in ToFree(t) /\ i /= c => i \in ToFree(t)'
    BY <1>2, <1>4 DEF Node
  <1>8. ~allocated'[0]
    BY <1>2, <1>6
  <1> QED
    BY <1>1, <1>2, <1>3, <1>6, <1>7, <1>8, OneTaskFacts DEF Keeps

LEMMA OneTaskFirstBlock ==
    ASSUME OneTaskInv, NEW t \in Tasks, KfreeFirstBlock(t)
    PROVE  live' = live /\ Keeps(t)
  <1>1. /\ UNCHANGED <<allocated, num_block_used, total_requested_memory, live>>
        /\ pc[t].at = "first_block" /\ Goto(t, "num_block_used", pc[t].cur, pc[t].left)
    BY DEF KfreeFirstBlock, Does
  <1>2. pc'[t].at = "num_block_used" /\ pc'[t].cur = pc[t].cur /\ pc'[t].left = pc[t].left
    BY <1>1, OneTaskGoto, Zenon
  <1>3. ToFree(t)' = ToFree(t)
    BY <1>1, <1>2 DEF ToFree
  <1> QED
    BY <1>1, <1>2, <1>3, OneTaskFacts, Zenon DEF Keeps

LEMMA OneTaskNumBlockUsed ==
    ASSUME OneTaskInv, NEW t \in Tasks, KfreeNumBlockUsed(t)
    PROVE  live' = live /\ Keeps(t)
  <1> DEFINE c == pc[t].cur
  <1>1. /\ UNCHANGED <<allocated, total_requested_memory, live>>
        /\ num_block_used' = [num_block_used EXCEPT ![c] = 0]
        /\ pc[t].at = "num_block_used" /\ Goto(t, "total_requested", c, pc[t].left)
    BY DEF KfreeNumBlockUsed, Does
  <1>2. /\ TypeOK /\ c > 0 /\ ~allocated[c] /\ 0 \in Node /\ ~allocated[0] /\ num_block_used[0] = LAST + 1
        /\ \A r \in live : r.addr \in Node /\ allocated[r.addr]
    BY <1>1, OneTaskFacts
  <1>g. TypeOK /\ Goto(t, "total_requested", c, pc[t].left)
    BY <1>1, <1>2, Zenon
  <1>3. pc'[t].at = "total_requested" /\ pc'[t].cur = c /\ pc'[t].left = pc[t].left
    BY <1>g, GotoPlace
  <1>4. ToFree(t)' = ToFree(t)
    BY <1>1, <1>3, Zenon DEF ToFree
  <1>5. num_block_used \in [Node -> Nat]
    BY <1>2 DEF TypeOK
  <1>6. \A i \in Node : i /= c => num_block_used'[i] = num_block_used[i]
    BY <1>1, <1>5, Zenon
  <1> HIDE DEF c
  <1>7. num_block_used'[0] = LAST + 1 /\ \A r \in live : num_block_used'[r.addr] = num_block_used[r.addr]
    BY <1>2, <1>6
  <1> QED
    BY <1>1, <1>2, <1>3, <1>4, <1>7, Zenon DEF Keeps

LEMMA OneTaskNextNode ==
    ASSUME OneTaskInv, NEW t \in Tasks, KfreeNextNode(t)
    PROVE  live' = live /\ Keeps(t)
  <1> DEFINE c == pc[t].cur
             left == pc[t].left
  <1>1. /\ UNCHANGED <<allocated, num_block_used, live>>
        /\ total_requested_memory' = [total_requested_memory EXCEPT ![c] = 0]
        /\ pc[t].at = "total_requested"
        /\ \/ Goto(t, "unlock", 0, 0) /\ left <= 1
           \/ Goto(t, "allocated", c + 1, left - 1) /\ ~(left <= 1)
    BY DEF KfreeNextNode, Does
  <1>2. /\ TypeOK /\ c \in Int /\ left \in Nat /\ c > 0 /\ ~allocated[c] /\ ~allocated[0]
        /\ num_block_used[0] = LAST + 1 /\ \A r \in live : r.addr \in Node /\ allocated[r.addr]
    BY <1>1, OneTaskFacts
  <1>3. ToFree(t) = c + 1 .. c + left - 1
    BY <1>1 DEF ToFree
  <1>4. total_requested_memory \in [Node -> Nat]
    BY <1>2 DEF TypeOK
  <1>5. \A r \in live : total_requested_memory'[r.addr] = total_requested_memory[r.addr]
    BY <1>1, <1>2, <1>4, Zenon
  <1>6. CASE Goto(t, "unlock", 0, 0) /\ left <= 1
    <2>1. pc'[t].at = "unlock"
      BY <1>2, <1>6, GotoPlace
    <2>2. ToFree(t) = {}
      <3>1. c \in Int /\ left \in Int
        BY <1>2 DEF Node
      <3>2. c + left - 1 < c + 1
        BY <1>6, <3>1
      <3> QED BY <1>3, <3>1, <3>2
    <2> QED
      BY <1>1, <1>2, <1>5, <2>1, <2>2, Zenon DEF Keeps
  <1>7. CASE Goto(t, "allocated", c + 1, left - 1) /\ ~(left <= 1)
    <2>g. TypeOK /\ Goto(t, "allocated", c + 1, left - 1)
      BY <1>2, <1>7, Zenon
    <2>1. pc'[t].at = "allocated" /\ pc'[t].cur = c + 1 /\ pc'[t].left = left - 1
      BY <2>g, GotoPlace
    <2>2. ToFree(t)' = c + 1 .. c + 1 + (left - 1) - 1
      BY <2>1 DEF ToFree
    <2> HIDE DEF c, left
    <2>3. ToFree(t)' = ToFree(t) /\ c + 1 > 0
      BY <2>2, <1>2, <1>3
    <2> QED
      BY <1>1, <1>2, <1>5, <2>1, <2>3, Zenon DEF Keeps
  <1> QED
    BY <1>1, <1>6, <1>7

\* Giving the lock back.
LEMMA OneTaskUnlock ==
    ASSUME OneTaskInv, NEW t \in Tasks, KfreeUnlock(t)
    PROVE  live' = live /\ Keeps(t)
  <1>1. /\ UNCHANGED <<allocated, num_block_used, total_requested_memory, live>>
        /\ Goto(t, "idle", 0, 0) /\ pc[t].at = "unlock"
    BY DEF KfreeUnlock, Does, nodes
  <1>2. pc'[t].at = "idle"
    BY <1>1, OneTaskGoto, Zenon
  <1>3. ToFree(t) = {}
    BY <1>1 DEF ToFree
  <1> QED
    BY <1>1, <1>2, <1>3, OneTaskFacts, Zenon DEF Keeps

(* The stores of kfree touch the node it is at, which is in no region given out. *)
LEMMA OneTaskStep ==
    ASSUME OneTaskInv, NEW t \in Tasks, Tasks = {t}, KfreeStep(t)
    PROVE  OneTaskInv'
  <1>1. HeapInv'
    BY KfreeStepInv DEF OneTaskInv
  <1>2. live' = live /\ Keeps(t)
    BY OneTaskLock, OneTaskFind, OneTaskAllocated, OneTaskFirstBlock, OneTaskNumBlockUsed,
       OneTaskNextNode, OneTaskUnlock DEF KfreeStep
  <1> QED
    BY <1>1, <1>2, KeepsAccount

\* The invariant gives the account of the heap.
LEMMA OneTaskAccounts ==
    ASSUME OneTaskInv
    PROVE  HeapAccounts
  <1>1. HeapInv
    BY Zenon DEF OneTaskInv
  <1>2. AllAccounted
    <2>1. ASSUME \A t \in Tasks : pc[t].at = "idle"
          PROVE  \A t \in Tasks : ToFree(t) = {}
      BY <2>1 DEF ToFree
    <2>2. \A r \in live : \A i \in Blocks(r) : i \in Node /\ allocated[i]
      BY <1>1 DEF HeapInv, BlocksNotShared
    <2> QED
      BY <2>1, <2>2 DEF OneTaskInv, AllAccounted
  <1>3. ASSUME NEW r \in live
        PROVE  get_memory_size(r.addr) = r.size
    <2>1. r.addr \in Node /\ allocated[r.addr] /\ r.addr /= 0 /\ r.addr < LAST
      BY <1>1, NoteSpares, Zenon
    <2> DEFINE found == {i \in 0 .. num_block_used[0] - 1 :
                            i \in Node /\ addr(i) = r.addr /\ allocated[i]}
    <2>2. num_block_used[0] - 1 = LAST /\ r.addr \in Int /\ r.addr /= NULL
      BY <2>1, KHeapAssumption DEF OneTaskInv, Node, NULL
    <2>3. found = {r.addr}
      BY <2>1, <2>2, KHeapAssumption DEF addr, Node
    <2>4. (CHOOSE i \in found : \A j \in found : i <= j) = r.addr
      BY <2>2, <2>3
    <2>5. get_memory_size(r.addr) = total_requested_memory[r.addr]
      BY <2>3, <2>4 DEF get_memory_size
    <2>6. total_requested_memory[r.addr] = r.size
      BY Zenon DEF OneTaskInv
    <2> QED
      BY <2>5, <2>6, Zenon
  <1> QED
    BY <1>2, <1>3, SMTT(30) DEF HeapAccounts, SizeIsRemembered

(* With one task that calls kmalloc and kfree, nothing of the heap is ever lost:
   a block that is marked allocated belongs to a region its owner still has, or
   to a kfree under way, and get_memory_size, which realloc trusts, knows every
   region's size.  (With two tasks neither holds: see the run heap_leak.) *)
THEOREM HeapIsAccounted ==
    ASSUME 0 \notin Sizes, NEW self, Tasks = {self}
    PROVE  Spec => []HeapAccounts
  <1>1. init_memory_region => OneTaskInv
    BY InitOneTask
  <1>2. OneTaskInv /\ [Next]_vars => OneTaskInv'
    <2> SUFFICES ASSUME OneTaskInv, [Next]_vars PROVE OneTaskInv'
      OBVIOUS
    <2>1. CASE \E size \in Sizes : kmalloc(self, size)
      BY <2>1, OneTaskKmalloc
    <2>2. CASE \E r \in live : kfree(self, r)
      BY <2>2, OneTaskCall
    <2>3. CASE KfreeStep(self)
      BY <2>3, OneTaskStep
    <2>4. CASE UNCHANGED vars
      <3>1. UNCHANGED <<allocated, first_block, num_block_used, total_requested_memory,
                        mem_lock_free, pc, live, hung>>
        BY <2>4 DEF vars, nodes
      <3>2. hung' \in BOOLEAN /\ 0 \in Nat
        BY <3>1 DEF OneTaskInv, HeapInv, TypeOK
      <3> QED
        BY <3>1, <3>2, OneTaskNoZone
    <2> QED
      BY <2>1, <2>2, <2>3, <2>4 DEF Next, LoopForever
  <1>3. OneTaskInv => HeapAccounts
    BY OneTaskAccounts
  <1> QED
    BY <1>1, <1>2, <1>3, PTL DEF Spec
=============================================================================
