---------------------------- MODULE FindFreeZone ----------------------------
(***************************************************************************)
(* The search loop of find_free_zone, one step per turn of a loop, over    *)
(* every pattern of allocated nodes.  Module KHeap states the outcome of   *)
(* the search in one step, and the properties here compare the two.        *)
(***************************************************************************)
EXTENDS Integers, TLAPS

CONSTANTS LAST, MAX_BLOCKS

END == LAST + 1    \* NULL, the next of the last node

VARIABLES
    allocated,     \* the nodes' flags; the search does not change them
    num_blocks_needed,
    noted,         \* auxiliary: the nodes that got total_requested_memory
    current_node, start_node, consecutive_free_blocks,
    at             \* "outer" loop, "inner" loop, "found" or "null"

vars == <<allocated, num_blocks_needed, noted, current_node, start_node,
          consecutive_free_blocks, at>>

next(i) == i + 1

InitSearch ==
    /\ allocated \in [0 .. LAST -> BOOLEAN] /\ ~allocated[0]
    /\ num_blocks_needed \in 0 .. MAX_BLOCKS
    /\ noted = {}
    /\ current_node = 1 /\ start_node = 0 /\ consecutive_free_blocks = 0
    /\ at = "outer"

\* Mutant: one node too many is passed over.
AdvanceTwice(i) == IF i /= END /\ next(i) /= END THEN next(next(i)) ELSE i

\* Mutant: the last node is never looked at.
AdvanceShort(i) == IF i /= END /\ next(i) < LAST THEN next(i) ELSE i

\* The end of an outer turn: on to the next node, if there is one.
Advance(i) == IF i /= END /\ next(i) /= END THEN next(i) ELSE i

OuterTurn ==
    /\ at = "outer" /\ current_node /= END
    /\ UNCHANGED <<allocated, num_blocks_needed>>
    /\ IF allocated[current_node]
       THEN /\ current_node' = Advance(current_node)
            /\ UNCHANGED <<noted, start_node, consecutive_free_blocks, at>>
       ELSE /\ consecutive_free_blocks' = 0
            /\ start_node' = current_node
            /\ noted' = noted \cup {current_node}
            /\ at' = "inner"
            /\ UNCHANGED current_node

Counting ==
    /\ current_node /= END
    /\ ~allocated[current_node]
    /\ consecutive_free_blocks < num_blocks_needed

InnerTurn ==
    /\ at = "inner" /\ Counting
    /\ consecutive_free_blocks' = consecutive_free_blocks + 1
    /\ current_node' = next(current_node)
    /\ UNCHANGED <<allocated, num_blocks_needed, noted, start_node, at>>

InnerEnd ==
    /\ at = "inner" /\ ~Counting
    /\ IF consecutive_free_blocks >= num_blocks_needed
       THEN at' = "found" /\ UNCHANGED current_node
       ELSE at' = "outer" /\ current_node' = Advance(current_node)
    /\ UNCHANGED <<allocated, num_blocks_needed, noted, start_node, consecutive_free_blocks>>

OffTheEnd ==
    /\ at = "outer" /\ current_node = END
    /\ at' = "null"
    /\ UNCHANGED <<allocated, num_blocks_needed, noted, current_node, start_node,
                   consecutive_free_blocks>>

Next == OuterTurn \/ InnerTurn \/ InnerEnd \/ OffTheEnd

Spec == InitSearch /\ [][Next]_vars /\ WF_vars(Next)

-----------------------------------------------------------------------------
H == INSTANCE KHeap WITH
       BLOCK_SIZE <- 1, total_region_size_g <- 0, Sizes <- {}, Tasks <- {},
       first_block <- allocated, num_block_used <- [i \in 0 .. LAST |-> 0],
       total_requested_memory <- [i \in 0 .. LAST |-> 0],
       mem_lock_free <- 0, pc <- <<>>, live <- {}, hung <- FALSE

(* What the search returns is the first zone of enough free nodes that module
   KHeap chooses, and it is NULL only if there is none and the last node is free; the
   nodes it wrote the size to on its way are the ones NoteSize names. *)
FindsFirstZone ==
    LET zones == H!Zones(num_blocks_needed)
        seen(upTo) == {i \in 0 .. LAST : H!NoteSize(upTo, 1)[i] = 1}
    IN  /\ at = "found" => /\ H!IsFirstZone(start_node, num_blocks_needed)
                           /\ noted = seen(start_node)
        /\ at = "null" => zones = {} /\ ~allocated[LAST] /\ noted = seen(LAST)

CanReturn == H!Zones(num_blocks_needed) /= {} \/ ~allocated[LAST]
Returned == at \in {"found", "null"}

(* The search returns, unless there is no zone and the last node is allocated:
   then it stays at that node for ever. *)
ReturnsOrHangs == (CanReturn ~> Returned) /\ [](~CanReturn => ~Returned)

-----------------------------------------------------------------------------
(* Proofs: the search finds the first zone of free nodes, for every length  *)
(* of the list, every pattern of allocated nodes and every request.         *)

\* Node i is the first of a run of free nodes.
HeadOfRun(i) == i \in 1 .. LAST /\ ~allocated[i] /\ (i = 1 \/ allocated[i - 1])

\* No zone starts in front of node i.
NoZoneBefore(i) == \A u \in 1 .. LAST : u < i => ~H!Fits(u, num_blocks_needed)

\* The outer loop is at a node that can only be free if it is the first of its run.
OuterInv ==
    /\ NoZoneBefore(current_node)
    /\ noted = {i \in 1 .. LAST : i < current_node /\ HeadOfRun(i)}
    /\ current_node <= LAST =>
         current_node = 1 \/ allocated[current_node - 1] \/ allocated[current_node]
    /\ current_node = END => ~allocated[LAST]

\* The inner loop has counted the free nodes from start_node to current_node.
InnerInv ==
    /\ HeadOfRun(start_node)
    /\ NoZoneBefore(start_node)
    /\ current_node = start_node + consecutive_free_blocks
    /\ consecutive_free_blocks <= num_blocks_needed
    /\ \A i \in start_node .. current_node - 1 : ~allocated[i]
    /\ noted = {i \in 1 .. LAST : i <= start_node /\ HeadOfRun(i)}

SearchTypes ==
    /\ allocated \in [0 .. LAST -> BOOLEAN]
    /\ num_blocks_needed \in Nat
    /\ current_node \in 1 .. END
    /\ start_node \in 0 .. LAST
    /\ consecutive_free_blocks \in Nat
    /\ at \in {"outer", "inner", "found", "null"}

(* The inductive invariant of the two loops. *)
SearchInv ==
    /\ SearchTypes
    /\ at = "outer" => OuterInv
    /\ at = "inner" => InnerInv
    /\ at = "found" => InnerInv /\ consecutive_free_blocks = num_blocks_needed
    /\ at = "null" => OuterInv /\ current_node = END

-----------------------------------------------------------------------------

\* The search starts at the first node with nothing counted.
LEMMA SearchStarts ==
  ASSUME LAST \in Nat \ {0}, MAX_BLOCKS \in Nat
  PROVE  InitSearch => SearchInv
BY DEF InitSearch, SearchInv, SearchTypes, OuterInv, NoZoneBefore, END

\* A turn of the outer loop keeps the invariant: it begins to count at a free node or
\* passes an allocated one.
LEMMA OuterTurnInv ==
  ASSUME LAST \in Nat \ {0}, SearchInv, OuterTurn
  PROVE  SearchInv'
<1> USE DEF SearchInv, SearchTypes, END
<1>1. /\ at = "outer" /\ OuterInv /\ current_node \in 1 .. LAST
      /\ allocated' = allocated /\ num_blocks_needed' = num_blocks_needed
  BY DEF OuterTurn
<1>2. CASE allocated[current_node]
  <2>1. /\ current_node' = Advance(current_node)
        /\ at' = "outer" /\ start_node' = start_node /\ noted' = noted
        /\ consecutive_free_blocks' = consecutive_free_blocks
    BY <1>1, <1>2 DEF OuterTurn
  <2>2. current_node' = (IF current_node = LAST THEN LAST ELSE current_node + 1)
    BY <1>1, <2>1 DEF Advance, next
  <2>3. ~H!Fits(current_node, num_blocks_needed)
    BY <1>2 DEF H!Fits
  <2>4. NoZoneBefore(current_node)'
    BY <1>1, <2>2, <2>3 DEF OuterInv, NoZoneBefore, H!Fits
  <2>5. noted' = {i \in 1 .. LAST : i < current_node /\ HeadOfRun(i)}'
    BY <1>1, <1>2, <2>1, <2>2 DEF OuterInv, HeadOfRun
  <2>6. OuterInv'
    BY <1>1, <1>2, <2>1, <2>2, <2>4, <2>5 DEF OuterInv
  <2> QED BY <1>1, <2>1, <2>2, <2>6
<1>3. CASE ~allocated[current_node]
  <2>1. /\ current_node' = current_node /\ start_node' = current_node
        /\ at' = "inner" /\ noted' = noted \cup {current_node}
        /\ consecutive_free_blocks' = 0
    BY <1>1, <1>3 DEF OuterTurn
  <2>2. HeadOfRun(current_node)
    BY <1>1, <1>3 DEF OuterInv, HeadOfRun
  <2>3. noted' = {i \in 1 .. LAST : i <= start_node /\ HeadOfRun(i)}'
    BY <1>1, <2>1, <2>2 DEF OuterInv, HeadOfRun
  <2>4. NoZoneBefore(start_node)'
    BY <1>1, <2>1 DEF OuterInv, NoZoneBefore, H!Fits
  <2>5. InnerInv'
    BY <1>1, <2>1, <2>2, <2>3, <2>4 DEF InnerInv, HeadOfRun
  <2> QED BY <1>1, <2>1, <2>5
<1> QED BY <1>2, <1>3

\* A turn of the inner loop counts one more free node.
LEMMA InnerTurnInv ==
  ASSUME LAST \in Nat \ {0}, SearchInv, InnerTurn
  PROVE  SearchInv'
<1> USE DEF SearchInv, SearchTypes, END
<1>1. /\ at = "inner" /\ InnerInv /\ current_node \in 1 .. LAST
      /\ ~allocated[current_node] /\ consecutive_free_blocks < num_blocks_needed
      /\ current_node' = current_node + 1
      /\ consecutive_free_blocks' = consecutive_free_blocks + 1
      /\ UNCHANGED <<allocated, num_blocks_needed, noted, start_node, at>>
  BY DEF InnerTurn, Counting, next
<1>2. NoZoneBefore(start_node)'
  BY <1>1 DEF InnerInv, NoZoneBefore, H!Fits
<1>3. noted' = {i \in 1 .. LAST : i <= start_node /\ HeadOfRun(i)}' /\ HeadOfRun(start_node)'
  BY <1>1 DEF InnerInv, HeadOfRun
<1>4. \A i \in start_node' .. current_node' - 1 : ~allocated'[i]
  BY <1>1 DEF InnerInv, HeadOfRun
<1>5. InnerInv'
  BY <1>1, <1>2, <1>3, <1>4 DEF InnerInv
<1> QED BY <1>1, <1>5

(* A run that ended before it was long enough has no zone in it: one that started
   at any of its nodes would reach as far as the end of the run. *)
LEMMA NoZoneInShortRun ==
  ASSUME LAST \in Nat \ {0}, SearchTypes, InnerInv,
         consecutive_free_blocks < num_blocks_needed,
         current_node = END \/ allocated[current_node]
  PROVE  NoZoneBefore(current_node) /\ (current_node <= LAST => ~H!Fits(current_node, num_blocks_needed))
<1> USE DEF SearchTypes, END
<1>1. ASSUME NEW u \in 1 .. LAST, start_node <= u, u < current_node
      PROVE  ~H!Fits(u, num_blocks_needed)
  <2>1. current_node \in u .. u + num_blocks_needed - 1
    BY <1>1 DEF InnerInv
  <2> QED BY <2>1 DEF H!Fits
<1>2. NoZoneBefore(current_node)
  BY <1>1 DEF NoZoneBefore, InnerInv
<1>3. current_node <= LAST => ~H!Fits(current_node, num_blocks_needed)
  BY DEF H!Fits
<1> QED BY <1>2, <1>3

\* Behind the inner loop the zone is long enough and is the answer, or the node that
\* ended it is passed over.
LEMMA InnerEndInv ==
  ASSUME LAST \in Nat \ {0}, SearchInv, InnerEnd
  PROVE  SearchInv'
<1> USE DEF SearchInv, SearchTypes, END
<1>1. /\ at = "inner" /\ InnerInv /\ ~Counting
      /\ UNCHANGED <<allocated, num_blocks_needed, noted, start_node, consecutive_free_blocks>>
  BY DEF InnerEnd
<1>2. CASE consecutive_free_blocks >= num_blocks_needed
  <2>1. at' = "found" /\ current_node' = current_node
    BY <1>2 DEF InnerEnd
  <2>2. InnerInv'
    BY <1>1, <2>1 DEF InnerInv, NoZoneBefore, HeadOfRun, H!Fits
  <2> QED BY <1>1, <1>2, <2>1, <2>2 DEF InnerInv
<1>3. CASE consecutive_free_blocks < num_blocks_needed
  <2>1. at' = "outer" /\ current_node' = Advance(current_node)
    BY <1>3 DEF InnerEnd
  <2>2. current_node = END \/ allocated[current_node]
    BY <1>1, <1>3 DEF Counting
  <2>3. current_node' = (IF current_node >= LAST THEN current_node ELSE current_node + 1)
    BY <2>1 DEF Advance, next
  <2>4. NoZoneBefore(current_node)'
    BY <1>1, <1>3, <2>2, <2>3, NoZoneInShortRun DEF NoZoneBefore, H!Fits
  <2>5. \A i \in start_node + 1 .. current_node : ~HeadOfRun(i)
    BY <1>1, <2>2 DEF InnerInv, HeadOfRun
  <2>6. start_node \in 1 .. LAST /\ start_node < current_node
    BY <1>1, <2>2 DEF InnerInv, HeadOfRun
  <2>7. {i \in 1 .. LAST : i <= start_node /\ HeadOfRun(i)}
          = {i \in 1 .. LAST : i < current_node' /\ HeadOfRun(i)}
    BY <2>3, <2>5, <2>6
  <2>8. noted' = {i \in 1 .. LAST : i < current_node /\ HeadOfRun(i)}'
    BY <1>1, <2>7 DEF InnerInv, HeadOfRun
  <2>9. current_node = END => ~allocated[LAST]
    BY <1>1, <2>6 DEF InnerInv
  <2>10. OuterInv'
    BY <1>1, <2>2, <2>3, <2>4, <2>8, <2>9 DEF OuterInv
  <2> QED BY <1>1, <2>1, <2>3, <2>10
<1> QED BY <1>2, <1>3

\* The end of the list without a zone is the answer NULL.
LEMMA OffTheEndInv ==
  ASSUME LAST \in Nat \ {0}, SearchInv, OffTheEnd
  PROVE  SearchInv'
BY DEF SearchInv, SearchTypes, OffTheEnd, OuterInv, NoZoneBefore, HeadOfRun, H!Fits

\* A step that changes nothing, as those of a search that loops for ever.
LEMMA IdleSearchInv ==
  ASSUME SearchInv, UNCHANGED vars
  PROVE  SearchInv'
BY DEF SearchInv, SearchTypes, OuterInv, InnerInv, NoZoneBefore, HeadOfRun, H!Fits, vars

(* The loops of find_free_zone keep their invariant: no zone starts in front of
   where the search stands, and what was noted is the heads of the runs passed. *)
THEOREM SearchInvariant ==
  ASSUME LAST \in Nat \ {0}, MAX_BLOCKS \in Nat
  PROVE  Spec => []SearchInv
<1>1. InitSearch => SearchInv
  BY SearchStarts
<1>2. SearchInv /\ [Next]_vars => SearchInv'
  BY OuterTurnInv, InnerTurnInv, InnerEndInv, OffTheEndInv, IdleSearchInv DEF Next
<1> QED BY <1>1, <1>2, PTL DEF Spec

(* What KHeap's NoteSize names is the heads of the runs. *)
LEMMA NotedHeads ==
  ASSUME LAST \in Nat \ {0}, NEW upTo \in 0 .. LAST
  PROVE  {i \in 0 .. LAST : H!NoteSize(upTo, 1)[i] = 1}
           = {i \in 1 .. LAST : i <= upTo /\ HeadOfRun(i)}
<1>1. \A i \in 0 .. LAST :
        H!NoteSize(upTo, 1)[i]
          = IF i \in 1 .. upTo /\ ~allocated[i] /\ (i = 1 \/ allocated[i - 1]) THEN 1 ELSE 0
  BY DEF H!NoteSize, H!Node
<1>2. \A i \in 0 .. LAST :
        H!NoteSize(upTo, 1)[i] = 1 <=> i \in 1 .. LAST /\ i <= upTo /\ HeadOfRun(i)
  BY <1>1 DEF HeadOfRun
<1> QED BY <1>2

\* The loop invariant gives the result: the first zone, or NULL when there is none.
LEMMA SearchInvImplies ==
  ASSUME LAST \in Nat \ {0}, SearchInv
  PROVE  FindsFirstZone
<1> USE DEF SearchInv, SearchTypes, END
<1>1. ASSUME at = "found"
      PROVE  H!IsFirstZone(start_node, num_blocks_needed)
  <2>1. /\ InnerInv /\ consecutive_free_blocks = num_blocks_needed
        /\ current_node = start_node + num_blocks_needed
        /\ start_node \in 1 .. LAST /\ ~allocated[start_node]
    BY <1>1 DEF InnerInv, HeadOfRun
  <2>2. H!Fits(start_node, num_blocks_needed)
    BY <2>1 DEF InnerInv, H!Fits
  <2>3. \A u \in 1 .. LAST : H!Fits(u, num_blocks_needed) => start_node <= u
    BY <2>1 DEF InnerInv, NoZoneBefore
  <2> QED BY <2>1, <2>2, <2>3 DEF H!IsFirstZone, H!Zones
<1>2. ASSUME at = "found"
      PROVE  noted = {i \in 0 .. LAST : H!NoteSize(start_node, 1)[i] = 1}
  BY <1>2, NotedHeads DEF InnerInv
<1>3. ASSUME at = "null"
      PROVE  /\ H!Zones(num_blocks_needed) = {} /\ ~allocated[LAST]
             /\ noted = {i \in 0 .. LAST : H!NoteSize(LAST, 1)[i] = 1}
  <2>1. OuterInv /\ current_node = LAST + 1
    BY <1>3
  <2>2. H!Zones(num_blocks_needed) = {}
    BY <2>1 DEF OuterInv, NoZoneBefore, H!Zones
  <2>3. noted = {i \in 1 .. LAST : i <= LAST /\ HeadOfRun(i)}
    BY <2>1 DEF OuterInv
  <2> QED BY <2>1, <2>2, <2>3, NotedHeads DEF OuterInv
<1> QED BY <1>1, <1>2, <1>3 DEF FindsFirstZone

(* Whatever find_free_zone returns is the zone module KHeap says it takes: the
   first one that is long enough; it gives up only when there is none and the
   last node is free; and on its way it wrote the size to the heads of the free
   runs and to no other node. *)
THEOREM SearchFindsFirstZone ==
  ASSUME LAST \in Nat \ {0}, MAX_BLOCKS \in Nat
  PROVE  Spec => []FindsFirstZone
<1>1. SearchInv => FindsFirstZone
  BY SearchInvImplies
<1> QED BY <1>1, SearchInvariant, PTL
=============================================================================
