---------------------------- MODULE MallocTable ----------------------------
(***************************************************************************)
(* malloc, calloc, realloc, free and kheap_shutdown of kernel/kheap/       *)
(* stdlib.c, called by one task: the table allocation_ptrs of what malloc  *)
(* has handed out, kept beside the kernel heap.                            *)
(*                                                                         *)
(* Of kmalloc and kfree only what module KHeap shows is used: kmalloc      *)
(* returns a block that nobody has, or NoBlock.  Nothing calls             *)
(* init_allocation_system, so the table has no capacity to run out of.     *)
(***************************************************************************)
EXTENDS Integers, FiniteSets, SetInduction

CONSTANTS
    Addr,         \* the addresses kmalloc can return
    Sizes,        \* the sizes, in bytes, that are asked for
    SIZEOF_PTR,   \* sizeof(ptr)
    NoBlock

VARIABLES
    allocation_ptrs, allocation_ptrs_count,
    size,        \* auxiliary: the size of what is at each address, 0 if it is free
    data,        \* auxiliary: how many bytes there are still the owner's
    off          \* shutdown has been called

vars == <<allocation_ptrs, allocation_ptrs_count, size, data, off>>

Index == 0 .. Cardinality(Addr)
Min2(a, b) == IF a <= b THEN a ELSE b

InitTable ==
    /\ allocation_ptrs = [i \in Index |-> NoBlock]
    /\ allocation_ptrs_count = 0
    /\ size = [p \in Addr |-> 0]
    /\ data = [p \in Addr |-> 0]
    /\ off = FALSE

Live == {p \in Addr : size[p] > 0}

\* Mutant: the entries behind the freed one stay where they are.
CloseGapNot(t, i, count) == [j \in Index |-> IF j = count - 1 THEN NoBlock ELSE t[j]]

\* free moves the entries behind entry i up by one.
CloseGap(t, i, count) ==
    [j \in Index |-> IF j \in i .. count - 2 THEN t[j + 1]
                     ELSE IF j = count - 1 THEN NoBlock ELSE t[j]]

\* A turn of free's loop, at entry i: the count drops on every turn, not only on the
\* one that finds ptr, and the loop is over when i meets the count.
FreeTurn(s, i, ptr) ==
    IF i >= s.cnt THEN s
    ELSE [tab |-> IF s.tab[i] = ptr THEN CloseGap(s.tab, i, s.cnt) ELSE s.tab,
          cnt |-> s.cnt - 1]

\* The table after free(ptr).
FreeEntry(t, count, ptr) ==
    LET turn[i \in 0 .. count] ==
          IF i = 0 THEN [tab |-> t, cnt |-> count] ELSE FreeTurn(turn[i - 1], i - 1, ptr)
    IN  turn[count]

Enter(t, count, p) == [tab |-> [t EXCEPT ![count] = p], cnt |-> count + 1]

TableBecomes(s) == allocation_ptrs' = s.tab /\ allocation_ptrs_count' = s.cnt

\* malloc, or calloc, which fills what it got with zeros; the owner then writes
\* to all of it.
malloc_int(n) ==
    /\ ~off
    /\ \E p \in Addr \ Live :
          /\ TableBecomes(Enter(allocation_ptrs, allocation_ptrs_count, p))
          /\ size' = [size EXCEPT ![p] = n]
          /\ data' = [data EXCEPT ![p] = n]
    /\ UNCHANGED off

free(p) ==
    /\ ~off /\ p \in Live
    /\ TableBecomes(FreeEntry(allocation_ptrs, allocation_ptrs_count, p))
    /\ size' = [size EXCEPT ![p] = 0]
    /\ data' = [data EXCEPT ![p] = 0]
    /\ UNCHANGED off

\* realloc of p, which is not NoBlock: to size 0 it is free, otherwise a new block,
\* the copy and free of the old one.  With no new block to be had it does nothing.
realloc(p, n) ==
    /\ ~off /\ p \in Live /\ n > 0
    /\ \E q \in Addr \ Live :
          LET s == Enter(allocation_ptrs, allocation_ptrs_count, q)
          IN  /\ TableBecomes(FreeEntry(s.tab, s.cnt, p))
              /\ size' = [size EXCEPT ![q] = n, ![p] = 0]
              /\ data' = [data EXCEPT ![q] = Min2(data[p], Min2(SIZEOF_PTR, n)), ![p] = 0]
    /\ UNCHANGED off

\* shutdown frees what the table holds; the machine is then switched off.
kheap_shutdown ==
    /\ ~off /\ off' = TRUE
    /\ LET freed == {allocation_ptrs[i] : i \in 0 .. allocation_ptrs_count - 1}
       IN  size' = [p \in Addr |-> IF p \in freed THEN 0 ELSE size[p]]
    /\ UNCHANGED <<allocation_ptrs, allocation_ptrs_count, data>>

Next ==
    \/ \E n \in Sizes : malloc_int(n)
    \/ \E p \in Addr : free(p)
    \/ \E p \in Addr, n \in Sizes : realloc(p, n)
    \/ kheap_shutdown

Spec == InitTable /\ [][Next]_vars

-----------------------------------------------------------------------------
(* Properties.                                                             *)

(* The types of the table and of the blocks. *)
TypeOK ==
    /\ allocation_ptrs \in [Index -> Addr \cup {NoBlock}]
    /\ allocation_ptrs_count \in Index
    /\ size \in [Addr -> Sizes \cup {0}]
    /\ data \in [Addr -> Nat]
    /\ off \in BOOLEAN

(* Although free drops entries it should keep, it keeps none it should drop: every
   entry below the count is a block that is still allocated, and no block is there
   twice, so kheap_shutdown never frees a block that somebody freed before. *)
TableIsLive ==
    ~off =>
    \A i \in 0 .. allocation_ptrs_count - 1 :
        /\ allocation_ptrs[i] \in Live
        /\ \A j \in 0 .. i - 1 : allocation_ptrs[j] /= allocation_ptrs[i]

(* realloc's comment: "The amount of data to be copied is the minimum of the old
   size and the new size". *)
ReallocCopies ==
    [][\A p \in Addr, n \in Sizes :
         realloc(p, n) =>
           \A q \in Addr : size[q] = 0 /\ size'[q] > 0 => data'[q] = Min2(data[p], n)]_vars

-----------------------------------------------------------------------------
(* Proof: the table holds blocks that are still allocated and each of them  *)
(* once, for every number of blocks and every sequence of calls.           *)

Table == [Index -> Addr \cup {NoBlock}]
State == [tab : Table, cnt : Index]

\* The entries below the count are blocks of L, and each is there once.
Holds(s, L) ==
    \A i \in 0 .. s.cnt - 1 :
        s.tab[i] \in L /\ \A j \in 0 .. i - 1 : s.tab[j] /= s.tab[i]

\* ptr is in none of the first n entries.
Without(s, n, ptr) == \A i \in 0 .. s.cnt - 1 : i < n => s.tab[i] /= ptr

\* The indices of the table are the numbers up to that of the blocks.
LEMMA IndexFacts ==
  ASSUME IsFiniteSet(Addr)
  PROVE  /\ Cardinality(Addr) \in Nat
         /\ \A i : i \in Index <=> i \in Nat /\ i <= Cardinality(Addr)
<1>1. Cardinality(Addr) \in Nat
  BY FS_CardinalityType
<1> QED BY <1>1 DEF Index

(* One turn of free's loop keeps the entries and puts ptr out of the part of the
   table that the loop has passed. *)
LEMMA FreeTurnHolds ==
  ASSUME IsFiniteSet(Addr), NEW L, NEW ptr,
         NEW s \in State, NEW i \in Nat, Holds(s, L), Without(s, i, ptr)
  PROVE  /\ FreeTurn(s, i, ptr) \in State
         /\ FreeTurn(s, i, ptr).cnt <= s.cnt
         /\ Holds(FreeTurn(s, i, ptr), L)
         /\ Without(FreeTurn(s, i, ptr), i + 1, ptr)
<1>1. /\ s.tab \in Table /\ s.cnt \in Nat /\ s.cnt \in Index
      /\ Cardinality(Addr) \in Nat /\ s.cnt <= Cardinality(Addr)
  BY IndexFacts DEF State
<1>2. CASE i >= s.cnt
  <2>1. FreeTurn(s, i, ptr) = s
    BY <1>2 DEF FreeTurn
  <2> QED BY <1>1, <1>2, <2>1 DEF Without
<1>3. CASE i < s.cnt
  <2> DEFINE tab == IF s.tab[i] = ptr THEN CloseGap(s.tab, i, s.cnt) ELSE s.tab
  <2>1. FreeTurn(s, i, ptr) = [tab |-> tab, cnt |-> s.cnt - 1]
    BY <1>1, <1>3 DEF FreeTurn
  <2>2. s.cnt - 1 \in Index
    BY <1>1, <1>3, IndexFacts
  <2>3. CASE s.tab[i] = ptr
    <3>1. tab = [j \in Index |-> IF j \in i .. s.cnt - 2 THEN s.tab[j + 1]
                                 ELSE IF j = s.cnt - 1 THEN NoBlock ELSE s.tab[j]]
      BY <2>3 DEF CloseGap
    <3> HIDE DEF tab
    <3>2. \A j \in Index : j \in i .. s.cnt - 2 => j + 1 \in Index
      BY <1>1, IndexFacts
    <3>3. tab \in Table
      BY <3>1, <3>2, <1>1 DEF Table
    <3>4. \A j \in 0 .. s.cnt - 2 :
             j \in Index /\ tab[j] = IF j < i THEN s.tab[j] ELSE s.tab[j + 1]
      BY <3>1, <1>1, <1>3, IndexFacts
    <3>5. \A j \in 0 .. s.cnt - 2 : tab[j] \in L /\ \A k \in 0 .. j - 1 : tab[k] /= tab[j]
      BY <3>4, <1>1, <1>3 DEF Holds
    <3>6. \A j \in 0 .. s.cnt - 2 : tab[j] /= ptr
      BY <3>4, <2>3, <1>1, <1>3 DEF Holds
    <3> QED BY <2>1, <2>2, <3>3, <3>5, <3>6, <1>1 DEF State, Holds, Without
  <2>4. CASE s.tab[i] /= ptr
    <3>1. tab = s.tab
      BY <2>4
    <3> QED BY <2>1, <2>2, <2>4, <3>1, <1>1, <1>3 DEF State, Holds, Without
  <2> QED BY <2>3, <2>4
<1> QED BY <1>1, <1>2, <1>3

\* A turn of the loop of free leaves a table of blocks.
LEMMA FreeTurnType ==
  ASSUME IsFiniteSet(Addr), NEW ptr, NEW s \in State, NEW i \in Nat
  PROVE  FreeTurn(s, i, ptr) \in State
<1>1. s.tab \in Table /\ s.cnt \in Index /\ s.cnt \in Nat
  BY IndexFacts DEF State
<1>2. CloseGap(s.tab, i, s.cnt) \in Table
  <2>1. \A j \in Index : j \in i .. s.cnt - 2 => j + 1 \in Index
    BY <1>1, IndexFacts
  <2> QED BY <1>1, <2>1 DEF CloseGap, Table
<1>3. i < s.cnt => s.cnt - 1 \in Index
  BY <1>1, IndexFacts
<1> QED BY <1>1, <1>2, <1>3 DEF FreeTurn, State

(* free takes ptr out of the table; whatever else it drops, what it keeps was there
   before and is there once. *)
LEMMA FreeEntryHolds ==
  ASSUME IsFiniteSet(Addr), NEW L, NEW ptr, NEW t \in Table, NEW count \in Index,
         Holds([tab |-> t, cnt |-> count], L)
  PROVE  /\ FreeEntry(t, count, ptr) \in State
         /\ Holds(FreeEntry(t, count, ptr), L \ {ptr})
<1> DEFINE first == [tab |-> t, cnt |-> count]
           Turn(f, i) == IF i = 0 THEN first ELSE FreeTurn(f[i - 1], i - 1, ptr)
           turn[i \in 0 .. count] ==
               IF i = 0 THEN [tab |-> t, cnt |-> count] ELSE FreeTurn(turn[i - 1], i - 1, ptr)
           step == [i \in 1 .. count |-> [s \in State |-> FreeTurn(s, i - 1, ptr)]]
           done == {i \in 0 .. count : /\ turn[i] \in State /\ turn[i].cnt <= count
                                       /\ Holds(turn[i], L) /\ Without(turn[i], i, ptr)}
<1>1. /\ count \in Nat /\ first \in State /\ first.cnt <= count
      /\ Holds(first, L) /\ Without(first, 0, ptr)
  <2>1. count \in Nat
    BY IndexFacts
  <2> QED BY <2>1 DEF State, Without
<1>2. turn = CHOOSE f : f = [i \in 0 .. count |-> Turn(f, i)]
  BY DEF turn
<1>3. turn = [i \in 0 .. count |-> Turn(turn, i)]
  <2>1. step \in [1 .. count -> [State -> State]]
    BY FreeTurnType
  <2>2. \A i \in 1 .. count, s \in State : step[i][s] = FreeTurn(s, i - 1, ptr)
    OBVIOUS
  <2> HIDE DEF step, first
  <2>3. PICK f : Recursion(f, count, State, first, step)
    <3>1. count \in Nat /\ first \in State
      BY <1>1
    <3> QED BY <3>1, <2>1, RecursionUpTo, Zenon
  <2>4. \A i \in 0 .. count : f[i] = Turn(f, i)
    BY <2>2, <2>3, <1>1 DEF Recursion
  <2> HIDE DEF Turn
  <2>5. f = [i \in 0 .. count |-> Turn(f, i)]
    BY <2>3, <2>4 DEF Recursion
  <2> HIDE DEF turn
  <2> QED BY <1>2, <2>5, Zenon
<1>4. FreeEntry(t, count, ptr) = turn[count]
  BY DEF FreeEntry
<1> HIDE DEF turn
<1>5. turn[0] = first /\ \A i \in 1 .. count : turn[i] = FreeTurn(turn[i - 1], i - 1, ptr)
  BY <1>1, <1>3
<1> HIDE DEF first
<1>6. 0 \in done
  BY <1>1, <1>5
<1>7. ASSUME NEW n \in 1 .. count, n - 1 \in done
      PROVE  n \in done
  <2>1. /\ n - 1 \in Nat /\ turn[n - 1] \in State /\ turn[n - 1].cnt <= count
        /\ Holds(turn[n - 1], L) /\ Without(turn[n - 1], n - 1, ptr)
    BY <1>7
  <2>2. /\ turn[n] \in State /\ turn[n].cnt <= turn[n - 1].cnt
        /\ Holds(turn[n], L) /\ Without(turn[n], n - 1 + 1, ptr)
    BY <1>5, <2>1, FreeTurnHolds
  <2>3. turn[n].cnt \in Nat /\ turn[n - 1].cnt \in Nat /\ n - 1 + 1 = n
    BY <2>1, <2>2, IndexFacts DEF State
  <2>4. turn[n].cnt <= count /\ Without(turn[n], n, ptr)
    BY <1>1, <2>1, <2>2, <2>3
  <2> QED BY <1>1, <2>2, <2>4
<1>8. count \in done
  <2> HIDE DEF done
  <2> QED BY <1>1, <1>6, <1>7, InductionUpTo
<1> HIDE DEF done
<1>9. /\ turn[count] \in State /\ turn[count].cnt <= count
      /\ Holds(turn[count], L) /\ Without(turn[count], count, ptr)
  BY <1>8 DEF done
<1>10. turn[count].cnt \in Nat
  BY <1>9, IndexFacts DEF State
<1> QED BY <1>1, <1>4, <1>9, <1>10 DEF Holds, Without

(* While some block is in none of its entries, the table has room: the entries
   are different blocks. *)
LEMMA TableHasRoom ==
  ASSUME IsFiniteSet(Addr), NEW L \in SUBSET Addr, NEW s \in State, Holds(s, L),
         NEW p \in Addr, p \notin L
  PROVE  s.cnt + 1 \in Index
<1> DEFINE I == 0 .. s.cnt - 1
           f == [i \in I |-> s.tab[i]]
           others == Addr \ {p}
<1>1. s.cnt \in Nat /\ Cardinality(Addr) \in Nat
  BY IndexFacts DEF State
<1>2. Cardinality(I) = s.cnt
  <2>1. 0 \in Int /\ s.cnt - 1 \in Int
    BY <1>1
  <2>2. Cardinality(I) = IF 0 > s.cnt - 1 THEN 0 ELSE s.cnt - 1 - 0 + 1
    BY <2>1, FS_Interval, Zenon
  <2> QED BY <1>1, <2>2
<1>3. f \in Injection(I, others)
  <2>1. \A i \in I : s.tab[i] \in others
    BY DEF Holds
  <2>2. \A i, j \in I : s.tab[i] = s.tab[j] => i = j
    BY <1>1 DEF Holds
  <2> QED BY <2>1, <2>2 DEF Injection, IsInjective
<1>4. IsFiniteSet(others) /\ Cardinality(others) = Cardinality(Addr) - 1
  BY FS_RemoveElement
<1>5. Cardinality(I) <= Cardinality(others)
  BY <1>3, <1>4, FS_Injection
<1> QED BY <1>1, <1>2, <1>4, <1>5, IndexFacts

(* malloc enters a block behind the others. *)
LEMMA EnterHolds ==
  ASSUME IsFiniteSet(Addr), NEW L \in SUBSET Addr, NEW t \in Table, NEW count \in Index,
         Holds([tab |-> t, cnt |-> count], L), NEW p \in Addr, p \notin L
  PROVE  /\ Enter(t, count, p) \in State
         /\ Holds(Enter(t, count, p), L \cup {p})
<1> DEFINE s == [tab |-> t, cnt |-> count]
           e == [t EXCEPT ![count] = p]
<1>1. s \in State /\ s.tab = t /\ s.cnt = count /\ count \in Nat
  BY IndexFacts DEF State
<1>2. count + 1 \in Index
  <2> HIDE DEF s
  <2>1. s.cnt + 1 \in Index
    BY <1>1, TableHasRoom DEF s
  <2> QED BY <1>1, <2>1
<1>3. e \in Table /\ e[count] = p /\ \A i \in 0 .. count - 1 : e[i] = t[i]
  BY <1>1, IndexFacts DEF Table
<1>4. \A i \in 0 .. count - 1 : t[i] \in L /\ \A j \in 0 .. i - 1 : t[j] /= t[i]
  BY <1>1 DEF Holds
<1> HIDE DEF e
<1>5. \A i \in 0 .. count : e[i] \in L \cup {p} /\ \A j \in 0 .. i - 1 : e[j] /= e[i]
  <2> TAKE i \in 0 .. count
  <2>1. CASE i = count
    BY <2>1, <1>1, <1>3, <1>4
  <2>2. CASE i < count
    BY <2>2, <1>1, <1>3, <1>4
  <2> QED BY <2>1, <2>2, <1>1
<1>6. Enter(t, count, p) = [tab |-> e, cnt |-> count + 1]
  BY DEF Enter, e
<1> QED BY <1>1, <1>2, <1>3, <1>5, <1>6 DEF State, Holds

-----------------------------------------------------------------------------
(* The inductive invariant: TableIsLive, and the types it needs. *)
TableInv ==
    /\ allocation_ptrs \in Table /\ allocation_ptrs_count \in Index
    /\ size \in [Addr -> Sizes \cup {0}] /\ off \in BOOLEAN
    /\ TableIsLive

\* The table as a record.
Now == [tab |-> allocation_ptrs, cnt |-> allocation_ptrs_count]

\* The property in terms of the table as it is and the set of live blocks.
LEMMA NowHolds == TableIsLive <=> (~off => Holds(Now, Live))
BY DEF TableIsLive, Holds, Now

(* A step after which the table is s holds what it must if s does. *)
LEMMA TableBecomesInv ==
  ASSUME NEW s \in State, allocation_ptrs' = s.tab, allocation_ptrs_count' = s.cnt,
         size' \in [Addr -> Sizes \cup {0}], off' \in BOOLEAN, Holds(s, Live')
  PROVE  TableInv'
<1>1. s.tab \in Table /\ s.cnt \in Index
  BY DEF State
<1>2. TableIsLive'
  BY DEF TableIsLive, Holds
<1>3. Table' = Table /\ Index' = Index
  BY DEF Table, Index
<1> QED BY <1>1, <1>2, <1>3 DEF TableInv

\* malloc and calloc enter a block that nobody has.
LEMMA MallocInv ==
  ASSUME IsFiniteSet(Addr), Sizes \subseteq Nat \ {0}, TableInv, NEW n \in Sizes, malloc_int(n)
  PROVE  TableInv'
<1>1. PICK p \in Addr \ Live :
         /\ TableBecomes(Enter(allocation_ptrs, allocation_ptrs_count, p))
         /\ size' = [size EXCEPT ![p] = n]
  BY Zenon DEF malloc_int
<1>2. ~off /\ off' = off /\ off' \in BOOLEAN
  BY DEF malloc_int, TableInv
<1>3. Holds([tab |-> allocation_ptrs, cnt |-> allocation_ptrs_count], Live)
  BY <1>2, NowHolds DEF TableInv, Now
<1> DEFINE s == Enter(allocation_ptrs, allocation_ptrs_count, p)
<1>4. s \in State /\ Holds(s, Live \cup {p})
  <2>1. Live \in SUBSET Addr /\ p \in Addr /\ p \notin Live
    BY DEF Live
  <2> QED BY <1>3, <2>1, EnterHolds DEF TableInv
<1>5. size' \in [Addr -> Sizes \cup {0}] /\ Live' = Live \cup {p}
  BY <1>1 DEF TableInv, Live
<1>6. allocation_ptrs' = s.tab /\ allocation_ptrs_count' = s.cnt
  BY <1>1 DEF TableBecomes
<1> HIDE DEF s
<1> QED BY <1>2, <1>4, <1>5, <1>6, TableBecomesInv, Zenon

\* free takes its block out of the table wherever it stands, although it counts down on
\* every turn.
LEMMA FreeInv ==
  ASSUME IsFiniteSet(Addr), Sizes \subseteq Nat \ {0}, TableInv, NEW p \in Addr, free(p)
  PROVE  TableInv'
<1> DEFINE s == FreeEntry(allocation_ptrs, allocation_ptrs_count, p)
<1>1. /\ ~off /\ off' = off /\ off' \in BOOLEAN
      /\ allocation_ptrs' = s.tab /\ allocation_ptrs_count' = s.cnt
      /\ size' = [size EXCEPT ![p] = 0]
  BY DEF free, TableBecomes, TableInv
<1>2. Holds([tab |-> allocation_ptrs, cnt |-> allocation_ptrs_count], Live)
  BY <1>1, NowHolds DEF TableInv, Now
<1>3. s \in State /\ Holds(s, Live \ {p})
  BY <1>2, FreeEntryHolds DEF TableInv
<1>4. size' \in [Addr -> Sizes \cup {0}] /\ Live' = Live \ {p}
  BY <1>1 DEF TableInv, Live
<1> HIDE DEF s
<1> QED BY <1>1, <1>3, <1>4, TableBecomesInv, Zenon

\* realloc exchanges one block for another.
LEMMA ReallocInv ==
  ASSUME IsFiniteSet(Addr), Sizes \subseteq Nat \ {0}, TableInv,
         NEW p \in Addr, NEW n \in Sizes, realloc(p, n)
  PROVE  TableInv'
<1>1. PICK q \in Addr \ Live :
         LET s == Enter(allocation_ptrs, allocation_ptrs_count, q)
         IN  /\ TableBecomes(FreeEntry(s.tab, s.cnt, p))
             /\ size' = [size EXCEPT ![q] = n, ![p] = 0]
  BY Zenon DEF realloc
<1> DEFINE e == Enter(allocation_ptrs, allocation_ptrs_count, q)
           s == FreeEntry(e.tab, e.cnt, p)
<1>2. /\ ~off /\ off' = off /\ off' \in BOOLEAN /\ p \in Live
      /\ allocation_ptrs' = s.tab /\ allocation_ptrs_count' = s.cnt
      /\ size' = [size EXCEPT ![q] = n, ![p] = 0]
  BY <1>1, Zenon DEF realloc, TableBecomes, TableInv
<1>3. Holds([tab |-> allocation_ptrs, cnt |-> allocation_ptrs_count], Live)
  BY <1>2, NowHolds DEF TableInv, Now
<1>4. e \in State /\ Holds(e, Live \cup {q})
  <2>1. Live \in SUBSET Addr /\ q \in Addr /\ q \notin Live
    BY DEF Live
  <2> QED BY <1>3, <2>1, EnterHolds DEF TableInv
<1> HIDE DEF e
<1>5. e.tab \in Table /\ e.cnt \in Index /\ Holds([tab |-> e.tab, cnt |-> e.cnt], Live \cup {q})
  BY <1>4 DEF State, Holds
<1>6. s \in State /\ Holds(s, (Live \cup {q}) \ {p})
  BY <1>5, FreeEntryHolds
<1>7. size' \in [Addr -> Sizes \cup {0}] /\ Live' = (Live \cup {q}) \ {p}
  BY <1>2 DEF TableInv, Live
<1> HIDE DEF s
<1> QED BY <1>2, <1>6, <1>7, TableBecomesInv, Zenon

\* kheap_shutdown frees what the table holds and stops.
LEMMA ShutdownInv ==
  ASSUME TableInv, kheap_shutdown
  PROVE  TableInv'
<1>1. size' \in [Addr -> Sizes \cup {0}]
  BY DEF TableInv, kheap_shutdown
<1> QED BY <1>1 DEF TableInv, kheap_shutdown, TableIsLive, Table, Index

(* However malloc, calloc, realloc and free are called, kheap_shutdown finds in the
   table only blocks that are still allocated, and each of them once: it frees
   nothing twice, although free's loop forgets entries it should keep. *)
THEOREM TableStaysLive ==
  ASSUME IsFiniteSet(Addr), Sizes \subseteq Nat \ {0}
  PROVE  Spec => []TableIsLive
<1>1. InitTable => TableInv
  <2> SUFFICES ASSUME InitTable PROVE TableInv
    OBVIOUS
  <2>1. 0 \in Index
    BY IndexFacts
  <2>2. TableIsLive
    BY DEF InitTable, TableIsLive
  <2>3. allocation_ptrs \in Table /\ size \in [Addr -> Sizes \cup {0}] /\ off \in BOOLEAN
    BY Zenon DEF InitTable, Table
  <2> QED BY <2>1, <2>2, <2>3 DEF InitTable, TableInv
<1>2. TableInv /\ [Next]_vars => TableInv'
  <2> SUFFICES ASSUME TableInv, [Next]_vars PROVE TableInv'
    OBVIOUS
  <2>1. CASE UNCHANGED vars
    BY <2>1 DEF vars, TableInv, TableIsLive, Live, Table, Index
  <2> QED BY <2>1, MallocInv, FreeInv, ReallocInv, ShutdownInv DEF Next
<1>3. TableInv => TableIsLive
  BY DEF TableInv
<1> QED BY <1>1, <1>2, <1>3, PTL DEF Spec
=============================================================================
