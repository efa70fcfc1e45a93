------------------------------ MODULE Quicksort ------------------------------
(***************************************************************************)
(* _quicksort of kernel/misc/qsort.c, with which the directory index of     *)
(* ext4 sorts the entries of a block that it splits: a quicksort with a    *)
(* stack of its own, which leaves partitions of up to MAX_THRESH + 1       *)
(* elements alone, and an insertion sort over everything at the end.       *)
(* Neither of the scans of the partition nor the search of the insertion   *)
(* sort tests the bounds of the array: they rely on what earlier steps     *)
(* have put there.                                                         *)
(*                                                                         *)
(* Elements are numbered and pointers are indices.  a[i] is the element at *)
(* index i and hash[e] the key of element e, all that cmp looks at.  One   *)
(* turn of a loop is one step.                                             *)
(***************************************************************************)
EXTENDS Integers, Sequences

CONSTANTS
    total_elems,   \* number of elements
    MAX_THRESH,    \* partitions of at most this width are left alone
    Hashes         \* the keys

VARIABLES hash, a, pc, lo, hi, mid, left_ptr, right_ptr, stack, run_ptr, tmp_ptr
vars == <<hash, a, pc, lo, hi, mid, left_ptr, right_ptr, stack, run_ptr, tmp_ptr>>

Index == 0 .. total_elems - 1
Swap(b, i, j) == [b EXCEPT ![i] = b[j], ![j] = b[i]]

\* (*cmp)(i, j) < 0 for the elements at two indices of b.
Less(b, i, j) == hash[b[i]] < hash[b[j]]

\* lo, mid and hi in order.
Median(b, l, m, h) ==
    LET b1 == IF Less(b, m, l) THEN Swap(b, m, l) ELSE b
        b2 == Swap(b1, m, h)
    IN  IF ~Less(b1, h, m) THEN b1 ELSE IF Less(b2, m, l) THEN Swap(b2, m, l) ELSE b2

\* Mutant: the smallest element is looked for in one element too few.
threshShort == (IF total_elems - 1 < MAX_THRESH THEN total_elems - 1 ELSE MAX_THRESH) - 1

\* end_ptr or base_ptr + max_thresh, whichever comes first.
thresh == IF total_elems - 1 < MAX_THRESH THEN total_elems - 1 ELSE MAX_THRESH

InitSort ==
    /\ hash \in [Index -> Hashes]
    /\ a = [i \in Index |-> i]
    /\ pc = IF total_elems > MAX_THRESH THEN "median" ELSE "smallest"
    /\ lo = 0 /\ hi = total_elems - 1
    /\ stack = <<>>
    /\ mid = 0 /\ left_ptr = 0 /\ right_ptr = 0
    /\ run_ptr = 1 /\ tmp_ptr = 0

\* The median of three, at the start of a turn.
SelectMedian ==
    /\ pc = "median"
    /\ mid' = lo + (hi - lo) \div 2
    /\ a' = Median(a, lo, mid', hi)
    /\ left_ptr' = lo + 1 /\ right_ptr' = hi - 1
    /\ pc' = "left"
    /\ UNCHANGED <<hash, lo, hi, stack, run_ptr, tmp_ptr>>

ScanLeft ==
    /\ pc = "left"
    /\ IF Less(a, left_ptr, mid)
       THEN left_ptr' = left_ptr + 1 /\ pc' = pc
       ELSE left_ptr' = left_ptr /\ pc' = "right"
    /\ UNCHANGED <<hash, a, lo, hi, mid, right_ptr, stack, run_ptr, tmp_ptr>>

ScanRight ==
    /\ pc = "right"
    /\ IF Less(a, mid, right_ptr)
       THEN right_ptr' = right_ptr - 1 /\ pc' = pc
       ELSE right_ptr' = right_ptr /\ pc' = "collapse"
    /\ UNCHANGED <<hash, a, lo, hi, mid, left_ptr, stack, run_ptr, tmp_ptr>>

\* The rest of a turn of "collapse the walls"; mid follows the median.
Collapse ==
    /\ pc = "collapse"
    /\ \/ /\ left_ptr < right_ptr
          /\ a' = Swap(a, left_ptr, right_ptr)
          /\ mid' = IF mid = left_ptr THEN right_ptr ELSE IF mid = right_ptr THEN left_ptr ELSE mid
          /\ left_ptr' = left_ptr + 1 /\ right_ptr' = right_ptr - 1
          /\ pc' = IF left_ptr' <= right_ptr' THEN "left" ELSE "divide"
       \/ /\ left_ptr = right_ptr
          /\ left_ptr' = left_ptr + 1 /\ right_ptr' = right_ptr - 1
          /\ pc' = "divide"
          /\ UNCHANGED <<a, mid>>
       \/ /\ left_ptr > right_ptr
          /\ pc' = "divide"
          /\ UNCHANGED <<a, mid, left_ptr, right_ptr>>
    /\ UNCHANGED <<hash, lo, hi, stack, run_ptr, tmp_ptr>>

\* The next partition: one of the two parts, the other one being small or pushed, or the one
\* on top of the stack.  Below the stack's first entry is the one pushed first, (NULL, NULL),
\* which ends the loop.
Divide ==
    LET small_left == right_ptr - lo <= MAX_THRESH
        small_right == hi - left_ptr <= MAX_THRESH
        Go(l, h, s) == lo' = l /\ hi' = h /\ stack' = s /\ pc' = "median"
    IN  /\ pc = "divide"
        /\ \/ /\ small_left /\ small_right /\ stack = <<>>
              /\ pc' = "smallest"
              /\ UNCHANGED <<lo, hi, stack>>
           \/ /\ small_left /\ small_right /\ stack # <<>>
              /\ Go(stack[Len(stack)][1], stack[Len(stack)][2], SubSeq(stack, 1, Len(stack) - 1))
           \/ small_left /\ ~small_right /\ Go(left_ptr, hi, stack)
           \/ ~small_left /\ small_right /\ Go(lo, right_ptr, stack)
           \/ /\ ~small_left /\ ~small_right /\ right_ptr - lo > hi - left_ptr
              /\ Go(left_ptr, hi, Append(stack, <<lo, right_ptr>>))
           \/ /\ ~small_left /\ ~small_right /\ right_ptr - lo <= hi - left_ptr
              /\ Go(lo, right_ptr, Append(stack, <<left_ptr, hi>>))
        /\ UNCHANGED <<hash, a, mid, left_ptr, right_ptr, run_ptr, tmp_ptr>>

\* The smallest of the first elements goes to the front.
FindSmallest ==
    /\ pc = "smallest"
    /\ \/ /\ run_ptr <= thresh
          /\ tmp_ptr' = IF Less(a, run_ptr, tmp_ptr) THEN run_ptr ELSE tmp_ptr
          /\ run_ptr' = run_ptr + 1
          /\ UNCHANGED <<a, pc>>
       \/ /\ run_ptr > thresh
          /\ a' = Swap(a, tmp_ptr, 0)
          /\ run_ptr' = 2 /\ tmp_ptr' = 1
          /\ pc' = IF run_ptr' <= total_elems - 1 THEN "search" ELSE "done"
    /\ UNCHANGED <<hash, lo, hi, mid, left_ptr, right_ptr, stack>>

\* Where the element at run_ptr belongs.
SearchPlace ==
    /\ pc = "search"
    /\ Less(a, run_ptr, tmp_ptr)
    /\ tmp_ptr' = tmp_ptr - 1
    /\ UNCHANGED <<hash, a, pc, lo, hi, mid, left_ptr, right_ptr, stack, run_ptr>>

\* The element at index r moves to index t, the ones from there on up by one.
MoveDown(b, t, r) == [i \in Index |-> IF i = t THEN b[r] ELSE IF t < i /\ i <= r THEN b[i - 1] ELSE b[i]]

Insert ==
    /\ pc = "search"
    /\ ~Less(a, run_ptr, tmp_ptr)
    /\ a' = MoveDown(a, tmp_ptr + 1, run_ptr)
    /\ run_ptr' = run_ptr + 1 /\ tmp_ptr' = run_ptr
    /\ pc' = IF run_ptr' <= total_elems - 1 THEN "search" ELSE "done"
    /\ UNCHANGED <<hash, lo, hi, mid, left_ptr, right_ptr, stack>>

Next == SelectMedian \/ ScanLeft \/ ScanRight \/ Collapse \/ Divide \/ FindSmallest \/ SearchPlace \/ Insert

SpecSort == InitSort /\ [][Next]_vars /\ WF_vars(Next)
-----------------------------------------------------------------------------
Pow2[n \in 0 .. total_elems] == IF n = 0 THEN 1 ELSE 2 * Pow2[n - 1]

\* No scan leaves the partition or the array, although none of them tests for its end, and the
\* stack is never deeper than the logarithm of the number of elements, as the comment in
\* qsort.c has it; when _quicksort returns, the elements are the ones it was given, in the
\* order of their keys.
SortsInBounds ==
    /\ pc = "left" => left_ptr \in lo .. hi
    /\ pc = "right" => right_ptr \in lo .. hi
    /\ pc = "search" => tmp_ptr \in Index
    /\ Pow2[Len(stack)] <= total_elems
    /\ pc = "done" => /\ \A i, j \in Index : i < j => hash[a[i]] <= hash[a[j]]
                      /\ \A e \in Index : \E i \in Index : a[i] = e
=============================================================================
