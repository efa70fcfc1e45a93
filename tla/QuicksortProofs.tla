--------------------------- MODULE QuicksortProofs ---------------------------
(***************************************************************************)
(* _quicksort sorts, within the bounds of its array and of its stack, for  *)
(* any number of elements, any threshold and any keys.                     *)
(***************************************************************************)
EXTENDS Quicksort, SetInduction

\* The key at an index.
H(i) == hash[a[i]]

TypeOK ==
    /\ hash \in [Index -> Hashes]
    /\ a \in [Index -> Index]
    /\ \A i, j \in Index : a[i] = a[j] => i = j
    /\ pc \in {"median", "left", "right", "collapse", "divide", "smallest", "search", "done"}
    /\ lo \in Int /\ hi \in Int /\ mid \in Int
    /\ left_ptr \in Int /\ right_ptr \in Int /\ run_ptr \in Int /\ tmp_ptr \in Int
    /\ stack \in Seq(Int \X Int)
    /\ Len(stack) <= total_elems /\ Pow2[Len(stack)] <= total_elems

\* A partition that is worth dividing and may be at depth d of the stack.
IsPartition(l, h, d) ==
    /\ 0 <= l /\ l < h /\ h <= total_elems - 1
    /\ (h - l + 1) * Pow2[d] <= total_elems

\* No key up to index h is greater than one behind it.
CutAt(h) == \A i, j \in Index : i <= h /\ h < j => H(i) <= H(j)

\* The smallest element is among the first h + 1, which are few enough to be left
\* alone, or the current partition, or one on the stack; all other partitions come
\* behind them.
FrontDone(h) == h <= MAX_THRESH /\ h < lo /\ \A k \in 1 .. Len(stack) : h < stack[k][1]
FrontCurrent(h) == lo = 0 /\ hi = h /\ \A k \in 1 .. Len(stack) : h < stack[k][1]
FrontPushed(h) ==
    /\ h < lo
    /\ \E k \in 1 .. Len(stack) : /\ stack[k] = <<0, h>>
                                  /\ \A m \in 1 .. Len(stack) \ {k} : h < stack[m][1]
FrontAt(h) == CutAt(h) /\ (FrontDone(h) \/ FrontCurrent(h) \/ FrontPushed(h))

Dividing == pc \in {"median", "left", "right", "collapse", "divide"}
PartitionsInv ==
    Dividing => /\ run_ptr = 1 /\ tmp_ptr = 0
                /\ IsPartition(lo, hi, Len(stack))
                /\ \A k \in 1 .. Len(stack) : IsPartition(stack[k][1], stack[k][2], k - 1)
                /\ \E h \in Index : FrontAt(h)

\* What the scans have passed is on the right side of the median.
Scanned ==
    /\ mid \in lo .. hi
    /\ lo < left_ptr /\ right_ptr < hi
    /\ \A i \in Index : lo <= i /\ i < left_ptr => H(i) <= H(mid)
    /\ \A i \in Index : right_ptr < i /\ i <= hi => H(mid) <= H(i)
WallsInv ==
    /\ pc \in {"left", "right", "collapse"} => Scanned /\ left_ptr <= right_ptr + 1
    /\ pc \in {"right", "collapse"} => H(mid) <= H(left_ptr)
    /\ pc = "collapse" => H(right_ptr) <= H(mid)
    /\ pc = "divide" => /\ Scanned
                        /\ lo <= right_ptr /\ right_ptr < left_ptr /\ left_ptr <= hi

SmallestInv ==
    pc = "smallest" => /\ stack = <<>>
                       /\ \E h \in 0 .. thresh : CutAt(h)
                       /\ run_ptr \in 1 .. thresh + 1 /\ tmp_ptr \in 0 .. run_ptr - 1
                       /\ \A i \in 0 .. run_ptr - 1 : H(tmp_ptr) <= H(i)

\* The elements below index n are in order.
SortedBelow(n) == \A i, j \in Index : i < j /\ j < n => H(i) <= H(j)
InsertInv ==
    /\ pc = "search" => /\ run_ptr \in 2 .. total_elems - 1 /\ tmp_ptr \in 0 .. run_ptr - 1
                        /\ \A i \in Index : H(0) <= H(i)
                        /\ SortedBelow(run_ptr)
                        /\ \A i \in Index : tmp_ptr < i /\ i < run_ptr => H(run_ptr) < H(i)
    /\ pc = "done" => SortedBelow(total_elems)

SortInv == TypeOK /\ PartitionsInv /\ WallsInv /\ SmallestInv /\ InsertInv
-----------------------------------------------------------------------------
\* The parameters: _quicksort returns at once for 0 elements, MAX_THRESH is 4.
Parameters ==
    total_elems \in Nat \ {0} /\ MAX_THRESH \in Nat \ {0} /\ Hashes \subseteq Int

(* Pow2 is what its definition says, and grows faster than its argument. *)
LEMMA PowersOfTwo ==
    ASSUME Parameters
    PROVE  /\ Pow2 \in [0 .. total_elems -> Nat]
           /\ Pow2[0] = 1
           /\ \A n \in 1 .. total_elems : Pow2[n] = 2 * Pow2[n - 1]
           /\ \A n \in 0 .. total_elems : n < Pow2[n]
  <1> DEFINE N == total_elems
             step == [i \in 1 .. N |-> [x \in Nat |-> 2 * x]]
             f == [n \in 0 .. N |-> IF n = 0 THEN 1 ELSE 2 * Pow2[n - 1]]
             IsPow(g) == g = [n \in 0 .. N |-> IF n = 0 THEN 1 ELSE 2 * g[n - 1]]
  <1>1. N \in Nat /\ step \in [1 .. N -> [Nat -> Nat]]
    BY DEF Parameters
  <1>2. PICK g : Recursion(g, N, Nat, 1, step)
    <2> HIDE DEF N, step
    <2> QED BY <1>1, RecursionUpTo, Zenon
  <1>3. g \in [0 .. N -> Nat] /\ g[0] = 1 /\ \A i \in 1 .. N : g[i] = 2 * g[i - 1]
    <2>1. g \in [0 .. N -> Nat] /\ g[0] = 1 /\ \A i \in 1 .. N : g[i] = step[i][g[i - 1]]
      BY <1>2 DEF Recursion
    <2>2. \A i \in 1 .. N : step[i][g[i - 1]] = 2 * g[i - 1]
      <3>1. \A i \in 1 .. N : g[i - 1] \in Nat
        BY <1>1, <2>1
      <3>2. \A i \in 1 .. N : \A x \in Nat : step[i][x] = 2 * x
        OBVIOUS
      <3> QED BY <3>1, <3>2
    <2> QED BY <2>1, <2>2, Zenon
  <1>4. IsPow(g)
    BY <1>1, <1>3
  <1>5. IsPow(Pow2)
    <2>1. Pow2 = CHOOSE p : IsPow(p)
      BY DEF Pow2
    <2> HIDE DEF IsPow
    <2> QED BY <1>4, <2>1
  <1>6. /\ Pow2[0] = 1
        /\ \A n \in 1 .. N : Pow2[n] = 2 * Pow2[n - 1]
    <2> HIDE DEF N
    <2> QED BY <1>1, <1>5
  <1>7. Pow2 = [n \in 0 .. N |-> Pow2[n]]
    BY <1>5
  <1> DEFINE S == {n \in 0 .. N : Pow2[n] \in Nat /\ n < Pow2[n]}
  <1>8. 0 .. N \subseteq S
    <2>1. 0 \in S
      BY <1>1, <1>6
    <2>2. ASSUME NEW n \in 1 .. N, n - 1 \in S
          PROVE  n \in S
      <3>1. Pow2[n - 1] \in Nat /\ n - 1 < Pow2[n - 1]
        BY <2>2
      <3>2. Pow2[n] = 2 * Pow2[n - 1]
        BY <1>6
      <3>3. Pow2[n] \in Nat /\ n < Pow2[n] /\ n \in 0 .. N
        BY <1>1, <3>1, <3>2
      <3> QED BY <3>3
    <2>3. \A n \in 1 .. N : n - 1 \in S => n \in S
      BY <2>2
    <2> HIDE DEF S, N
    <2> QED BY <1>1, <2>1, <2>3, InductionUpTo, Zenon
  <1>9. \A n \in 0 .. N : Pow2[n] \in Nat /\ n < Pow2[n]
    BY <1>8
  <1>10. Pow2 \in [0 .. N -> Nat]
    <2>1. DOMAIN Pow2 = 0 .. N
      BY <1>7
    <2> HIDE DEF N
    <2> QED BY <1>7, <1>9
  <1> QED BY <1>6, <1>9, <1>10
-----------------------------------------------------------------------------
\* The array c is b with the elements from index l to index h in another order.
Rearranged(b, c, l, h) ==
    /\ c \in [Index -> Index]
    /\ \A i, j \in Index : c[i] = c[j] => i = j
    /\ \A i \in Index : i < l \/ h < i => c[i] = b[i]
    /\ \A i \in l .. h : \E k \in l .. h : c[i] = b[k]

IsArray(b) == b \in [Index -> Index] /\ \A i, j \in Index : b[i] = b[j] => i = j

(* What SWAP does. *)
LEMMA SwapRearranges ==
    ASSUME Parameters, NEW b, IsArray(b), NEW l \in Index, NEW h \in Index,
           NEW i \in l .. h, NEW j \in l .. h
    PROVE  /\ Rearranged(b, Swap(b, i, j), l, h)
           /\ Swap(b, i, j)[i] = b[j] /\ Swap(b, i, j)[j] = b[i]
           /\ \A k \in Index \ {i, j} : Swap(b, i, j)[k] = b[k]
  <1> DEFINE c == Swap(b, i, j)
  <1>1. i \in Index /\ j \in Index /\ l \in Int /\ h \in Int
    BY DEF Index, Parameters
  <1>2. /\ c \in [Index -> Index] /\ c[i] = b[j] /\ c[j] = b[i]
        /\ \A k \in Index \ {i, j} : c[k] = b[k]
    BY <1>1 DEF IsArray, Swap
  <1> HIDE DEF c
  <1>3. \A x, y \in Index : c[x] = c[y] => x = y
    BY <1>1, <1>2 DEF IsArray
  <1>4. \A k \in Index : k < l \/ h < k => c[k] = b[k]
    <2>1. \A k \in Index : k < l \/ h < k => k # i /\ k # j
      BY <1>1 DEF Index
    <2> QED BY <1>2, <2>1
  <1>5. \A k \in l .. h : \E m \in l .. h : c[k] = b[m]
    <2>1. \A k \in l .. h : k \in Index
      BY DEF Index, Parameters
    <2> QED BY <1>2, <2>1
  <1>6. Rearranged(b, c, l, h)
    BY <1>2, <1>3, <1>4, <1>5 DEF Rearranged
  <1> QED BY <1>2, <1>6 DEF c

(* Two rearrangements are one. *)
LEMMA RearrangedTwice ==
    ASSUME NEW b, NEW c, NEW d, NEW l \in Index, NEW h \in Index,
           Rearranged(b, c, l, h), Rearranged(c, d, l, h)
    PROVE  Rearranged(b, d, l, h)
  <1>1. ASSUME NEW i \in l .. h
        PROVE  \E k \in l .. h : d[i] = b[k]
    <2>1. PICK k \in l .. h : d[i] = c[k]
      BY DEF Rearranged
    <2>2. PICK m \in l .. h : c[k] = b[m]
      BY DEF Rearranged
    <2> QED BY <2>1, <2>2
  <1> QED BY <1>1 DEF Rearranged

(* A cut outside the elements that are rearranged, or right behind them, stays. *)
LEMMA CutStays ==
    ASSUME Parameters, hash \in [Index -> Hashes],
           NEW b \in [Index -> Index], NEW c, NEW l \in Index, NEW h \in Index,
           Rearranged(b, c, l, h),
           NEW m \in Index, m < l \/ (l = 0 /\ m = h),
           \A i, j \in Index : i <= m /\ m < j => hash[b[i]] <= hash[b[j]]
    PROVE  \A i, j \in Index : i <= m /\ m < j => hash[c[i]] <= hash[c[j]]
  <1> DEFINE From(i, k) == k \in Index /\ c[i] = b[k] /\ (i <= m <=> k <= m)
  <1>1. ASSUME NEW i \in Index
        PROVE  \E k : From(i, k)
    <2>1. CASE i \in l .. h
      <3>1. PICK k \in l .. h : c[i] = b[k]
        BY <2>1 DEF Rearranged
      <3>2. k \in Index /\ (i <= m <=> k <= m)
        BY <2>1, SMTT(30) DEF Index, Parameters
      <3> QED BY <3>1, <3>2
    <2>2. CASE i < l \/ h < i
      BY <2>2 DEF Rearranged
    <2> QED BY <2>1, <2>2 DEF Index
  <1> SUFFICES ASSUME NEW i \in Index, NEW j \in Index, i <= m, m < j
               PROVE  hash[c[i]] <= hash[c[j]]
    OBVIOUS
  <1>2. PICK k : From(i, k)
    BY <1>1
  <1>3. PICK n : From(j, n)
    BY <1>1
  <1>4. k <= m /\ m < n
    BY <1>2, <1>3 DEF Index
  <1> QED BY <1>2, <1>3, <1>4

(* What the median of three does. *)
LEMMA MedianOrders ==
    ASSUME Parameters, hash \in [Index -> Hashes], NEW b, IsArray(b),
           NEW l \in Index, NEW h \in Index, NEW m \in l .. h, l < h
    PROVE  /\ Rearranged(b, Median(b, l, m, h), l, h)
           /\ hash[Median(b, l, m, h)[l]] <= hash[Median(b, l, m, h)[m]]
           /\ hash[Median(b, l, m, h)[m]] <= hash[Median(b, l, m, h)[h]]
  <1> DEFINE b1 == IF Less(b, m, l) THEN Swap(b, m, l) ELSE b
             b2 == Swap(b1, m, h)
             b3 == Swap(b2, m, l)
             c == Median(b, l, m, h)
             K(d, i) == hash[d[i]]
  <1>1. /\ m \in Index /\ l \in l .. h /\ h \in l .. h /\ l # h
        /\ \A i \in l .. h : i \in Index
        /\ \A d : IsArray(d) => \A i \in Index : K(d, i) \in Int
    <2>1. m \in Index /\ l \in l .. h /\ h \in l .. h /\ l # h /\ \A i \in l .. h : i \in Index
      BY DEF Index, Parameters
    <2>2. \A d : IsArray(d) => \A i \in Index : K(d, i) \in Int
      <3>1. \A e \in Index : hash[e] \in Int
        BY Zenon DEF Parameters
      <3> QED BY <3>1 DEF IsArray
    <2> QED BY <2>1, <2>2
  <1>2. Rearranged(b, b, l, h)
    BY <1>1 DEF Rearranged, IsArray
  <1>3. \A d : Rearranged(b, d, l, h) => IsArray(d)
    BY DEF Rearranged, IsArray
  <1>4. Rearranged(b, b1, l, h) /\ K(b1, l) <= K(b1, m)
    <2>1. CASE Less(b, m, l)
      <3>1. b1 = Swap(b, m, l)
        BY <2>1
      <3> HIDE DEF b1
      <3>2. Rearranged(b, b1, l, h) /\ b1[m] = b[l] /\ b1[l] = b[m]
        BY <1>1, <3>1, SwapRearranges
      <3>3. K(b, m) < K(b, l)
        BY <2>1 DEF Less
      <3> QED BY <1>1, <3>2, <3>3
    <2>2. CASE ~Less(b, m, l)
      <3>1. b1 = b
        BY <2>2
      <3>2. ~(K(b, m) < K(b, l))
        BY <2>2 DEF Less
      <3>3. K(b, l) <= K(b, m)
        BY <1>1, <3>2
      <3> QED BY <1>2, <3>1, <3>3
    <2> QED BY <2>1, <2>2
  <1>5. IsArray(b1)
    BY <1>3, <1>4
  <1> HIDE DEF b1
  <1>6. CASE ~Less(b1, h, m)
    <2>1. c = b1
      BY <1>6 DEF Median, b1
    <2>2. K(b1, m) <= K(b1, h)
      <3>1. ~(K(b1, h) < K(b1, m))
        BY <1>6 DEF Less
      <3> QED BY <1>1, <1>5, <3>1
    <2> QED BY <1>4, <2>1, <2>2
  <1>7. CASE Less(b1, h, m)
    <2>1. K(b1, h) < K(b1, m)
      BY <1>7 DEF Less
    <2>2. /\ Rearranged(b1, b2, l, h) /\ b2[m] = b1[h] /\ b2[h] = b1[m]
          /\ \A k \in Index \ {m, h} : b2[k] = b1[k]
      BY <1>1, <1>5, SwapRearranges
    <2> HIDE DEF b2
    <2>3. Rearranged(b, b2, l, h) /\ IsArray(b2)
      BY <1>3, <1>4, <2>2, RearrangedTwice
    <2>4. m # h => b2[l] = IF m = l THEN b1[h] ELSE b1[l]
      BY <1>1, <2>2
    <2>5. m # h
      BY <1>1, <1>5, <2>1
    <2>6. CASE ~Less(b2, m, l)
      <3>1. c = b2
        BY <1>7, <2>6 DEF Median, b1, b2
      <3>2. K(b2, l) <= K(b2, m)
        <4>1. ~(K(b2, m) < K(b2, l))
          BY <2>6 DEF Less
        <4> QED BY <1>1, <2>3, <4>1
      <3>3. K(b2, m) <= K(b2, h)
        BY <1>1, <1>5, <2>1, <2>2
      <3> QED BY <2>3, <3>1, <3>2, <3>3
    <2>7. CASE Less(b2, m, l)
      <3>1. c = b3
        BY <1>7, <2>7 DEF Median, b1, b2
      <3>2. /\ Rearranged(b2, b3, l, h) /\ b3[m] = b2[l] /\ b3[l] = b2[m]
            /\ \A k \in Index \ {m, l} : b3[k] = b2[k]
        BY <1>1, <2>3, SwapRearranges
      <3> HIDE DEF b3
      <3>3. Rearranged(b, b3, l, h)
        BY <2>3, <3>2, RearrangedTwice
      <3>4. K(b2, m) < K(b2, l)
        BY <2>7 DEF Less
      <3>5. m # l
        BY <1>1, <2>3, <3>4
      <3>6. b3[h] = b1[m] /\ b3[m] = b1[l] /\ b3[l] = b1[h]
        BY <1>1, <2>2, <2>4, <2>5, <3>2, <3>5
      <3>7. K(b3, m) <= K(b3, h)
        BY <1>4, <3>6
      <3>8. K(b3, l) <= K(b3, m)
        BY <1>1, <2>3, <3>2, <3>4
      <3> HIDE DEF c
      <3> QED BY <3>1, <3>3, <3>7, <3>8 DEF c
    <2> QED BY <2>6, <2>7
  <1> QED BY <1>6, <1>7
-----------------------------------------------------------------------------

\* The keys compared are integers.
LEMMA KeysAreIntegers ==
    ASSUME Parameters, TypeOK
    PROVE  \A i \in Index : a[i] \in Index /\ H(i) \in Int
  <1>1. \A e \in Index : hash[e] \in Int
    BY Zenon DEF Parameters, TypeOK
  <1> QED BY <1>1 DEF TypeOK, H

(* A rearrangement of the current partition keeps the partitions and the front. *)
LEMMA PartitionsStay ==
    ASSUME Parameters, TypeOK, PartitionsInv, Dividing,
           UNCHANGED <<hash, lo, hi, stack, run_ptr, tmp_ptr>>, Rearranged(a, a', lo, hi)
    PROVE  PartitionsInv'
  <1>1. lo \in Index /\ hi \in Index
    BY DEF PartitionsInv, IsPartition, Index, TypeOK, Parameters
  <1>2. PICK h \in Index : FrontAt(h)
    BY DEF PartitionsInv
  <1>3. CutAt(h)'
    <2>1. h < lo \/ (lo = 0 /\ h = hi)
      BY <1>2 DEF FrontAt, FrontDone, FrontCurrent, FrontPushed
    <2>2. \A i, j \in Index : i <= h /\ h < j => hash[a[i]] <= hash[a[j]]
      BY <1>2 DEF FrontAt, CutAt, H
    <2>3. a \in [Index -> Index] /\ hash \in [Index -> Hashes]
      BY DEF TypeOK
    <2>4. \A i, j \in Index : i <= h /\ h < j => hash[a'[i]] <= hash[a'[j]]
      BY <1>1, <2>1, <2>2, <2>3, CutStays
    <2> QED BY <2>4 DEF CutAt, H
  <1>4. FrontAt(h)'
    BY <1>2, <1>3 DEF FrontAt, FrontDone, FrontCurrent, FrontPushed
  <1>5. IsPartition(lo, hi, Len(stack))' /\ \A k \in 1 .. Len(stack') : IsPartition(stack'[k][1], stack'[k][2], k - 1)
    BY DEF PartitionsInv, IsPartition
  <1> QED BY <1>4, <1>5 DEF PartitionsInv

\* Sorting lo, mid and hi of a partition puts walls at its ends, and disturbs no other
\* partition.
LEMMA SelectMedianStep ==
    ASSUME Parameters, SortInv, SelectMedian
    PROVE  SortInv'
  <1> USE DEF SortInv
  <1>1. pc = "median" /\ pc' = "left" /\ Dividing /\ UNCHANGED <<hash, lo, hi, stack, run_ptr, tmp_ptr>>
    BY DEF SelectMedian, Dividing
  <1>2. lo \in Index /\ hi \in Index /\ lo < hi
    BY <1>1 DEF PartitionsInv, IsPartition, Index, TypeOK, Parameters
  <1>3. mid' \in lo .. hi /\ left_ptr' = lo + 1 /\ right_ptr' = hi - 1
    BY <1>2 DEF SelectMedian, Index, Parameters
  <1>4. a' = Median(a, lo, mid', hi)
    BY DEF SelectMedian
  <1>5. IsArray(a) /\ hash \in [Index -> Hashes]
    BY DEF IsArray, TypeOK
  <1>6. /\ Rearranged(a, a', lo, hi)
        /\ hash[a'[lo]] <= hash[a'[mid']] /\ hash[a'[mid']] <= hash[a'[hi]]
    BY <1>2, <1>3, <1>4, <1>5, MedianOrders
  <1>7. TypeOK'
    <2>1. mid' \in Int /\ left_ptr' \in Int /\ right_ptr' \in Int
      BY <1>2, <1>3 DEF Index, Parameters
    <2>2. a' \in [Index -> Index] /\ \A i, j \in Index : a'[i] = a'[j] => i = j
      BY <1>6 DEF Rearranged
    <2> QED BY <1>1, <2>1, <2>2 DEF TypeOK
  <1>8. PartitionsInv'
    BY <1>1, <1>6, PartitionsStay
  <1>9. WallsInv'
    <2>1. \A i \in Index : lo <= i /\ i < left_ptr' => i = lo
      BY <1>2, <1>3 DEF Index, Parameters
    <2>2. \A i \in Index : right_ptr' < i /\ i <= hi => i = hi
      BY <1>2, <1>3 DEF Index, Parameters
    <2>3. Scanned'
      BY <1>1, <1>2, <1>3, <1>6, <2>1, <2>2 DEF Scanned, H, Index, Parameters
    <2>4. left_ptr' <= right_ptr' + 1
      BY <1>2, <1>3 DEF Index, Parameters
    <2> QED BY <1>1, <2>3, <2>4 DEF WallsInv
  <1>10. SmallestInv' /\ InsertInv'
    BY <1>1 DEF SmallestInv, InsertInv
  <1> QED BY <1>7, <1>8, <1>9, <1>10

\* A turn of either scan of the collapse loop stays between the walls, so it reads no
\* element outside the partition.
LEMMA ScanStep ==
    ASSUME Parameters, SortInv, ScanLeft \/ ScanRight
    PROVE  SortInv'
  <1> USE DEF SortInv
  <1>1. /\ pc \in {"left", "right"} /\ pc' \in {"left", "right", "collapse"} /\ Dividing
        /\ UNCHANGED <<hash, a, lo, hi, mid, stack, run_ptr, tmp_ptr>>
    BY DEF ScanLeft, ScanRight, Dividing
  <1>2. lo \in Index /\ hi \in Index /\ lo < hi
    BY <1>1 DEF PartitionsInv, IsPartition, Index, TypeOK, Parameters
  <1>3. /\ mid \in lo .. hi /\ mid \in Index /\ left_ptr <= right_ptr + 1
        /\ lo < left_ptr /\ right_ptr < hi /\ left_ptr \in Int /\ right_ptr \in Int
        /\ left_ptr \in Index /\ right_ptr \in Index
    BY <1>1, <1>2 DEF WallsInv, Scanned, Index, TypeOK, Parameters
  <1>4. /\ \A i \in Index : lo <= i /\ i < left_ptr => H(i) <= H(mid)
        /\ \A i \in Index : right_ptr < i /\ i <= hi => H(mid) <= H(i)
    BY <1>1 DEF WallsInv, Scanned
  <1>5. \A i \in Index : H(i) \in Int /\ H(i)' = H(i)
    BY <1>1, KeysAreIntegers DEF H
  <1>6. PartitionsInv'
    <2>1. Rearranged(a, a', lo, hi)
      BY <1>1, <1>2, Zenon DEF Rearranged, TypeOK, Index, Parameters
    <2> QED BY <1>1, <2>1, PartitionsStay
  <1>7. SmallestInv' /\ InsertInv'
    BY <1>1 DEF SmallestInv, InsertInv
  <1>8. CASE ScanLeft
    <2>1. pc = "left" /\ right_ptr' = right_ptr
      BY <1>8 DEF ScanLeft
    <2>2. CASE Less(a, left_ptr, mid)
      <3>1. left_ptr' = left_ptr + 1 /\ pc' = "left"
        BY <1>8, <2>1, <2>2 DEF ScanLeft
      <3>2. H(left_ptr) < H(mid)
        BY <2>2 DEF Less, H
      <3>3. left_ptr # right_ptr + 1
        BY <1>2, <1>3, <1>4, <1>5, <3>2 DEF Index
      <3>4. left_ptr' <= right_ptr' + 1
        BY <1>3, <2>1, <3>1, <3>3
      <3>5. \A i \in Index : i < left_ptr' => i < left_ptr \/ i = left_ptr
        BY <1>3, <3>1 DEF Index, Parameters
      <3>6. \A i \in Index : lo <= i /\ i < left_ptr' => H(i) <= H(mid)
        BY <1>3, <1>4, <1>5, <3>2, <3>5
      <3>7. Scanned'
        <4>1. lo < left_ptr' /\ right_ptr' < hi
          BY <1>2, <1>3, <2>1, <3>1 DEF Index, Parameters
        <4>2. /\ \A i \in Index : lo <= i /\ i < left_ptr' => H(i) <= H(mid)
              /\ \A i \in Index : right_ptr' < i /\ i <= hi => H(mid) <= H(i)
          BY <1>4, <2>1, <3>6
        <4> QED BY <1>1, <1>3, <4>1, <4>2 DEF Scanned, H
      <3>8. WallsInv'
        BY <3>1, <3>4, <3>7 DEF WallsInv
      <3>9. TypeOK'
        BY <1>1, <1>3, <2>1, <3>1 DEF TypeOK
      <3> QED BY <1>6, <1>7, <3>8, <3>9
    <2>3. CASE ~Less(a, left_ptr, mid)
      <3>1. left_ptr' = left_ptr /\ pc' = "right"
        BY <1>8, <2>1, <2>3 DEF ScanLeft
      <3>2. ~(H(left_ptr) < H(mid))
        BY <2>3 DEF Less, H
      <3>3. H(mid) <= H(left_ptr)
        BY <1>3, <1>5, <3>2
      <3>4. WallsInv'
        BY <1>1, <1>3, <1>4, <2>1, <3>1, <3>3 DEF WallsInv, Scanned, H
      <3>5. TypeOK'
        BY <1>1, <1>3, <2>1, <3>1 DEF TypeOK
      <3> QED BY <1>6, <1>7, <3>4, <3>5
    <2> QED BY <2>2, <2>3
  <1>9. CASE ScanRight
    <2>1. pc = "right" /\ left_ptr' = left_ptr /\ H(mid) <= H(left_ptr)
      BY <1>9 DEF ScanRight, WallsInv
    <2>2. CASE Less(a, mid, right_ptr)
      <3>1. right_ptr' = right_ptr - 1 /\ pc' = "right"
        BY <1>9, <2>1, <2>2 DEF ScanRight
      <3>2. H(mid) < H(right_ptr)
        BY <2>2 DEF Less, H
      <3>3. left_ptr # right_ptr + 1
        BY <1>2, <1>3, <1>4, <1>5, <3>2 DEF Index
      <3>4. left_ptr' <= right_ptr' + 1
        BY <1>3, <2>1, <3>1, <3>3
      <3>5. \A i \in Index : right_ptr' < i => right_ptr < i \/ i = right_ptr
        BY <1>3, <3>1 DEF Index, Parameters
      <3>6. \A i \in Index : right_ptr' < i /\ i <= hi => H(mid) <= H(i)
        BY <1>3, <1>4, <1>5, <3>2, <3>5
      <3>7. Scanned'
        <4>1. lo < left_ptr' /\ right_ptr' < hi
          BY <1>2, <1>3, <2>1, <3>1 DEF Index, Parameters
        <4>2. /\ \A i \in Index : lo <= i /\ i < left_ptr' => H(i) <= H(mid)
              /\ \A i \in Index : right_ptr' < i /\ i <= hi => H(mid) <= H(i)
          BY <1>4, <2>1, <3>6
        <4> QED BY <1>1, <1>3, <4>1, <4>2 DEF Scanned, H
      <3>8. WallsInv'
        BY <1>1, <2>1, <3>1, <3>4, <3>7 DEF WallsInv, H
      <3>9. TypeOK'
        BY <1>1, <1>3, <2>1, <3>1 DEF TypeOK
      <3> QED BY <1>6, <1>7, <3>8, <3>9
    <2>3. CASE ~Less(a, mid, right_ptr)
      <3>1. right_ptr' = right_ptr /\ pc' = "collapse"
        BY <1>9, <2>1, <2>3 DEF ScanRight
      <3>2. ~(H(mid) < H(right_ptr))
        BY <2>3 DEF Less, H
      <3>3. H(right_ptr) <= H(mid)
        BY <1>3, <1>5, <3>2
      <3>4. WallsInv'
        BY <1>1, <1>3, <1>4, <2>1, <3>1, <3>3 DEF WallsInv, Scanned, H
      <3>5. TypeOK'
        BY <1>1, <1>3, <2>1, <3>1 DEF TypeOK
      <3> QED BY <1>6, <1>7, <3>4, <3>5
    <2> QED BY <2>2, <2>3
  <1> QED BY <1>8, <1>9

\* A turn of the collapse loop keeps what is left of left_ptr small and what is right
\* of right_ptr large.
LEMMA CollapseStep ==
    ASSUME Parameters, SortInv, Collapse
    PROVE  SortInv'
  <1> USE DEF SortInv
  <1>1. /\ pc = "collapse" /\ pc' \in {"left", "divide"} /\ Dividing
        /\ UNCHANGED <<hash, lo, hi, stack, run_ptr, tmp_ptr>>
    BY DEF Collapse, Dividing
  <1>2. lo \in Index /\ hi \in Index /\ lo < hi
    BY <1>1 DEF PartitionsInv, IsPartition, Index, TypeOK, Parameters
  <1>3. /\ mid \in lo .. hi /\ mid \in Index /\ left_ptr <= right_ptr + 1
        /\ lo < left_ptr /\ right_ptr < hi /\ left_ptr \in Int /\ right_ptr \in Int
        /\ left_ptr \in lo .. hi /\ right_ptr \in lo .. hi
        /\ left_ptr \in Index /\ right_ptr \in Index
    BY <1>1, <1>2 DEF WallsInv, Scanned, Index, TypeOK, Parameters
  <1>4. /\ \A i \in Index : lo <= i /\ i < left_ptr => H(i) <= H(mid)
        /\ \A i \in Index : right_ptr < i /\ i <= hi => H(mid) <= H(i)
        /\ H(mid) <= H(left_ptr) /\ H(right_ptr) <= H(mid)
    BY <1>1 DEF WallsInv, Scanned
  <1>5. \A i \in Index : H(i) \in Int
    BY <1>1, KeysAreIntegers
  <1>6. SmallestInv' /\ InsertInv'
    BY <1>1 DEF SmallestInv, InsertInv
  <1>7. CASE left_ptr < right_ptr
    <2>1. /\ a' = Swap(a, left_ptr, right_ptr)
          /\ mid' = IF mid = left_ptr THEN right_ptr ELSE IF mid = right_ptr THEN left_ptr ELSE mid
          /\ left_ptr' = left_ptr + 1 /\ right_ptr' = right_ptr - 1
          /\ pc' = IF left_ptr' <= right_ptr' THEN "left" ELSE "divide"
      BY <1>3, <1>7 DEF Collapse
    <2>2. IsArray(a)
      BY DEF IsArray, TypeOK
    <2>3. /\ Rearranged(a, a', lo, hi)
          /\ a'[left_ptr] = a[right_ptr] /\ a'[right_ptr] = a[left_ptr]
          /\ \A k \in Index \ {left_ptr, right_ptr} : a'[k] = a[k]
      BY <1>2, <1>3, <2>1, <2>2, SwapRearranges
    <2>4. mid' \in lo .. hi /\ mid' \in Index /\ hash'[a'[mid']] = H(mid)
      BY <1>1, <1>3, <1>7, <2>1, <2>3 DEF H
    <2>5. /\ hash'[a'[left_ptr]] = H(right_ptr) /\ hash'[a'[right_ptr]] = H(left_ptr)
          /\ \A k \in Index \ {left_ptr, right_ptr} : hash'[a'[k]] = H(k)
      BY <1>1, <1>3, <2>3, Zenon DEF H
    <2>6. \A i \in Index : lo <= i /\ i < left_ptr' => hash'[a'[i]] <= hash'[a'[mid']]
      <3> SUFFICES ASSUME NEW i \in Index, lo <= i, i < left_ptr'
                   PROVE  hash'[a'[i]] <= H(mid)
        BY <2>4
      <3>1. CASE i = left_ptr
        BY <1>4, <2>5, <3>1
      <3>2. CASE i # left_ptr
        <4>1. i < left_ptr /\ i # right_ptr
          BY <1>3, <1>7, <2>1, <3>2 DEF Index, Parameters
        <4> QED BY <1>4, <2>5, <4>1, <3>2
      <3> QED BY <3>1, <3>2
    <2>7. \A i \in Index : right_ptr' < i /\ i <= hi => hash'[a'[mid']] <= hash'[a'[i]]
      <3> SUFFICES ASSUME NEW i \in Index, right_ptr' < i, i <= hi
                   PROVE  H(mid) <= hash'[a'[i]]
        BY <2>4
      <3>1. CASE i = right_ptr
        BY <1>4, <2>5, <3>1
      <3>2. CASE i # right_ptr
        <4>1. right_ptr < i /\ i # left_ptr
          BY <1>3, <1>7, <2>1, <3>2 DEF Index, Parameters
        <4> QED BY <1>4, <2>5, <4>1, <3>2
      <3> QED BY <3>1, <3>2
    <2>8. lo < left_ptr' /\ right_ptr' < hi
      BY <1>2, <1>3, <2>1 DEF Index, Parameters
    <2>9. Scanned'
      BY <1>1, <2>4, <2>6, <2>7, <2>8 DEF Scanned, H
    <2>10. pc' = "left" => left_ptr' <= right_ptr' + 1
      BY <1>3, <2>1
    <2>11. pc' = "divide" => lo <= right_ptr' /\ right_ptr' < left_ptr' /\ left_ptr' <= hi
      BY <1>2, <1>3, <1>7, <2>1 DEF Index, Parameters
    <2>12. WallsInv'
      BY <1>1, <2>9, <2>10, <2>11 DEF WallsInv
    <2>13. PartitionsInv'
      BY <1>1, <2>3, PartitionsStay
    <2>14. TypeOK'
      <3>1. mid' \in Int /\ left_ptr' \in Int /\ right_ptr' \in Int
        BY <1>3, <2>1
      <3>2. a' \in [Index -> Index] /\ \A i, j \in Index : a'[i] = a'[j] => i = j
        BY <2>3 DEF Rearranged
      <3> QED BY <1>1, <3>1, <3>2 DEF TypeOK
    <2> QED BY <1>6, <2>12, <2>13, <2>14
  <1>8. CASE left_ptr >= right_ptr
    <2>1. /\ pc' = "divide" /\ UNCHANGED <<a, mid>>
          /\ \/ left_ptr = right_ptr /\ left_ptr' = left_ptr + 1 /\ right_ptr' = right_ptr - 1
             \/ left_ptr = right_ptr + 1 /\ left_ptr' = left_ptr /\ right_ptr' = right_ptr
      BY <1>3, <1>8 DEF Collapse
    <2>2. \A i \in Index : lo <= i /\ i < left_ptr' => H(i) <= H(mid)
      <3>1. \A i \in Index : i < left_ptr' => i < left_ptr \/ (i = left_ptr /\ i = right_ptr)
        BY <1>3, <2>1 DEF Index, Parameters
      <3> QED BY <1>4, <3>1
    <2>3. \A i \in Index : right_ptr' < i /\ i <= hi => H(mid) <= H(i)
      <3>1. \A i \in Index : right_ptr' < i => right_ptr < i \/ (i = left_ptr /\ i = right_ptr)
        BY <1>3, <2>1 DEF Index, Parameters
      <3> QED BY <1>4, <3>1
    <2>4. /\ lo < left_ptr' /\ right_ptr' < hi /\ left_ptr' \in Int /\ right_ptr' \in Int
          /\ lo <= right_ptr' /\ right_ptr' < left_ptr' /\ left_ptr' <= hi
      BY <1>2, <1>3, <2>1 DEF Index, Parameters
    <2>5. Scanned'
      BY <1>1, <1>3, <2>1, <2>2, <2>3, <2>4 DEF Scanned, H
    <2>6. WallsInv'
      BY <1>1, <2>1, <2>4, <2>5 DEF WallsInv
    <2>7. Rearranged(a, a', lo, hi)
      BY <1>2, <2>1, Zenon DEF Rearranged, TypeOK, Index, Parameters
    <2>8. PartitionsInv'
      BY <1>1, <2>7, PartitionsStay
    <2>9. TypeOK'
      BY <1>1, <2>1, <2>4 DEF TypeOK
    <2> QED BY <1>6, <2>6, <2>8, <2>9
  <1> QED BY <1>3, <1>7, <1>8
-----------------------------------------------------------------------------

\* A product grows with its factor.
LEMMA Monotone ==
    ASSUME NEW v \in Nat, NEW w \in Nat, NEW p \in Nat, v <= w
    PROVE  v * p <= w * p
  <1>1. w - v \in Nat /\ (w - v) * p \in Nat
    OBVIOUS
  <1>2. w * p = v * p + (w - v) * p
    OBVIOUS
  <1> QED BY <1>1, <1>2

(* Part of a partition can take its place on the stack. *)
LEMMA PartIsPartition ==
    ASSUME Parameters, NEW l \in Int, NEW h \in Int, NEW d \in 0 .. total_elems, IsPartition(l, h, d),
           NEW m \in Int, NEW n \in Int, l <= m, n <= h, m < n
    PROVE  IsPartition(m, n, d)
  <1>1. Pow2[d] \in Nat /\ total_elems \in Nat
    BY PowersOfTwo DEF Parameters
  <1>2. h - l + 1 \in Nat /\ n - m + 1 \in Nat /\ n - m + 1 <= h - l + 1
    BY DEF IsPartition
  <1>3. (n - m + 1) * Pow2[d] <= (h - l + 1) * Pow2[d]
    BY <1>1, <1>2, Monotone
  <1>4. (n - m + 1) * Pow2[d] \in Int /\ (h - l + 1) * Pow2[d] \in Int
    BY <1>1, <1>2
  <1>5. (n - m + 1) * Pow2[d] <= total_elems
    BY <1>1, <1>3, <1>4 DEF IsPartition
  <1> QED BY <1>1, <1>5 DEF IsPartition

(* The smaller of two parts may be divided with the other one on the stack, which has room for it. *)
LEMMA HalfIsPartition ==
    ASSUME Parameters, NEW l \in Int, NEW h \in Int, NEW d \in 0 .. total_elems, IsPartition(l, h, d),
           NEW m \in Int, NEW n \in Int, l <= m, n <= h, m < n, 2 * (n - m + 1) <= h - l + 1
    PROVE  d + 1 \in 0 .. total_elems /\ IsPartition(m, n, d + 1) /\ Pow2[d + 1] <= total_elems
  <1>1. Pow2[d] \in Nat /\ total_elems \in Nat /\ d < Pow2[d]
    BY PowersOfTwo DEF Parameters
  <1>2. h - l + 1 \in Nat /\ n - m + 1 \in Nat /\ 2 * (n - m + 1) \in Nat /\ 1 <= h - l + 1 /\ 1 <= n - m + 1
    BY DEF IsPartition
  <1>3. (h - l + 1) * Pow2[d] \in Int /\ (h - l + 1) * Pow2[d] <= total_elems
    BY <1>1, <1>2 DEF IsPartition
  <1>4. 1 * Pow2[d] <= (h - l + 1) * Pow2[d]
    BY <1>1, <1>2, Monotone
  <1>5. d + 1 \in 0 .. total_elems /\ d + 1 \in 1 .. total_elems
    BY <1>1, <1>3, <1>4
  <1>6. Pow2[d + 1] = 2 * Pow2[d] /\ Pow2[d + 1] \in Nat
    <2>1. Pow2[d + 1] = 2 * Pow2[(d + 1) - 1]
      BY <1>5, PowersOfTwo
    <2>2. (d + 1) - 1 = d
      OBVIOUS
    <2> QED BY <1>1, <2>1, <2>2
  <1>7. (2 * (n - m + 1)) * Pow2[d] <= (h - l + 1) * Pow2[d]
    BY <1>1, <1>2, Monotone
  <1>8. (n - m + 1) * Pow2[d + 1] = (2 * (n - m + 1)) * Pow2[d]
    BY <1>1, <1>2, <1>6
  <1>9. (n - m + 1) * Pow2[d + 1] \in Int /\ (n - m + 1) * Pow2[d + 1] <= total_elems
    BY <1>1, <1>2, <1>3, <1>6, <1>7, <1>8
  <1>10. 1 * Pow2[d + 1] <= (n - m + 1) * Pow2[d + 1]
    BY <1>2, <1>6, Monotone
  <1>11. Pow2[d + 1] <= total_elems
    BY <1>1, <1>6, <1>9, <1>10
  <1>12. 0 <= m /\ m < n /\ n <= total_elems - 1
    BY <1>1 DEF IsPartition
  <1> QED BY <1>5, <1>9, <1>11, <1>12 DEF IsPartition
-----------------------------------------------------------------------------
(* When the partition at the front is divided, its left part is the new front. *)
LEMMA CutAtRight ==
    ASSUME Parameters, SortInv, pc = "divide", lo = 0, CutAt(hi)
    PROVE  CutAt(right_ptr)
  <1> USE DEF SortInv
  <1>1. hi \in Index /\ right_ptr \in Int /\ left_ptr \in Int /\ mid \in Index
    BY DEF PartitionsInv, Dividing, IsPartition, WallsInv, Scanned, Index, TypeOK, Parameters
  <1>2. /\ \A i \in Index : lo <= i /\ i < left_ptr => H(i) <= H(mid)
        /\ \A i \in Index : right_ptr < i /\ i <= hi => H(mid) <= H(i)
        /\ right_ptr < left_ptr /\ right_ptr < hi
    BY DEF WallsInv, Scanned
  <1>3. \A i \in Index : H(i) \in Int
    BY KeysAreIntegers
  <1> SUFFICES ASSUME NEW i \in Index, NEW j \in Index, i <= right_ptr, right_ptr < j
               PROVE  H(i) <= H(j)
    BY DEF CutAt
  <1>4. i < left_ptr /\ lo <= i /\ i <= hi
    BY <1>1, <1>2 DEF Index, Parameters
  <1>5. CASE j <= hi
    <2>1. H(i) <= H(mid) /\ H(mid) <= H(j)
      BY <1>2, <1>4, <1>5
    <2> QED BY <1>1, <1>3, <2>1
  <1>6. CASE hi < j
    BY <1>4, <1>6 DEF CutAt
  <1> QED BY <1>1, <1>5, <1>6 DEF Index

\* The two parts of a partition are at most as large as the threshold and left alone, or are
\* divided further: the smaller at once, the larger from the stack, whose depth therefore
\* stays below the logarithm of the number of elements.
LEMMA DivideStep ==
    ASSUME Parameters, SortInv, Divide
    PROVE  SortInv'
  <1> USE DEF SortInv
  <1> DEFINE d == Len(stack)
  <1>1. /\ pc = "divide" /\ Dividing /\ pc' \in {"median", "smallest"}
        /\ UNCHANGED <<hash, a, mid, left_ptr, right_ptr, run_ptr, tmp_ptr>>
    BY DEF Divide, Dividing
  <1>2. /\ lo \in Index /\ hi \in Index /\ right_ptr \in Index /\ left_ptr \in Index
        /\ lo < left_ptr /\ right_ptr < hi /\ lo <= right_ptr /\ right_ptr < left_ptr /\ left_ptr <= hi
    <2>1. /\ lo \in Int /\ hi \in Int /\ right_ptr \in Int /\ left_ptr \in Int /\ total_elems \in Int
          /\ 0 <= lo /\ hi <= total_elems - 1
      BY <1>1 DEF PartitionsInv, IsPartition, TypeOK, Parameters
    <2>2. /\ lo < left_ptr /\ right_ptr < hi /\ lo <= right_ptr /\ right_ptr < left_ptr /\ left_ptr <= hi
      BY <1>1 DEF WallsInv, Scanned
    <2> QED BY <2>1, <2>2 DEF Index
  <1>3. /\ d \in 0 .. total_elems /\ stack \in Seq(Int \X Int) /\ Pow2[d] <= total_elems
        /\ IsPartition(lo, hi, d)
        /\ \A k \in 1 .. d : IsPartition(stack[k][1], stack[k][2], k - 1)
    <2>1. stack \in Seq(Int \X Int) /\ d <= total_elems /\ Pow2[d] <= total_elems
      BY DEF TypeOK
    <2>2. d \in 0 .. total_elems
      BY <2>1 DEF Parameters
    <2>3. IsPartition(lo, hi, d) /\ \A k \in 1 .. d : IsPartition(stack[k][1], stack[k][2], k - 1)
      BY <1>1 DEF PartitionsInv
    <2> QED BY <2>1, <2>2, <2>3
  <1>4. PICK h \in Index : FrontAt(h)
    BY <1>1 DEF PartitionsInv
  <1>5. \A m : CutAt(m)' <=> CutAt(m)
    BY <1>1 DEF CutAt, H
  <1>6. FrontCurrent(h) => CutAt(right_ptr)
    BY <1>1, <1>4, CutAtRight DEF FrontAt, FrontCurrent
  <1>7. lo \in Int /\ hi \in Int /\ left_ptr \in Int /\ right_ptr \in Int /\ MAX_THRESH \in Nat /\ h \in Int
        /\ total_elems \in Nat /\ d \in Nat
    BY <1>2, <1>3 DEF Index, Parameters
  <1>8. CASE pc' = "smallest"
    <2>1. right_ptr - lo <= MAX_THRESH /\ stack = <<>> /\ UNCHANGED <<lo, hi, stack>>
      BY <1>8 DEF Divide
    <2>2. \E m \in 0 .. thresh : CutAt(m)
      <3>1. CASE FrontCurrent(h)
        <4>1. right_ptr \in 0 .. thresh
          BY <1>2, <1>7, <2>1, <3>1 DEF FrontCurrent, Index, thresh, Parameters
        <4> QED BY <1>6, <3>1, <4>1
      <3>2. CASE FrontDone(h)
        <4>1. h \in 0 .. thresh
          BY <1>7, <3>2 DEF FrontDone, Index, thresh, Parameters
        <4> QED BY <1>4, <4>1 DEF FrontAt
      <3>3. ~FrontPushed(h)
        BY <2>1 DEF FrontPushed
      <3> QED BY <1>4, <3>1, <3>2, <3>3 DEF FrontAt
    <2>3. SmallestInv'
      <3>1. run_ptr = 1 /\ tmp_ptr = 0
        BY <1>1 DEF PartitionsInv
      <3>2. run_ptr \in 1 .. thresh + 1 /\ tmp_ptr \in 0 .. run_ptr - 1
        BY <3>1 DEF thresh, Parameters
      <3>3. \A i \in 0 .. run_ptr - 1 : H(tmp_ptr) <= H(i)
        <4>1. 0 \in Index
          BY DEF Index, Parameters
        <4>2. H(0) \in Int
          BY <4>1, KeysAreIntegers
        <4>3. \A i \in 0 .. run_ptr - 1 : i = 0
          BY <3>1
        <4> QED BY <3>1, <4>2, <4>3
      <3> QED BY <1>1, <2>1, <2>2, <3>2, <3>3 DEF SmallestInv, CutAt, H, thresh
    <2>4. TypeOK' /\ PartitionsInv' /\ WallsInv' /\ InsertInv'
      BY <1>1, <1>8, <2>1 DEF TypeOK, PartitionsInv, Dividing, WallsInv, InsertInv
    <2> QED BY <2>3, <2>4
  <1>9. CASE pc' = "median"
    <2>1. ASSUME /\ lo' \in Int /\ hi' \in Int /\ stack' \in Seq(Int \X Int)
                 /\ Len(stack') \in 0 .. total_elems /\ Pow2[Len(stack')] <= total_elems
                 /\ IsPartition(lo', hi', Len(stack'))
                 /\ \A k \in 1 .. Len(stack') : IsPartition(stack'[k][1], stack'[k][2], k - 1)
                 /\ \E m \in Index : CutAt(m) /\ (FrontDone(m)' \/ FrontCurrent(m)' \/ FrontPushed(m)')
          PROVE  SortInv'
      <3>1. PICK m \in Index : CutAt(m) /\ (FrontDone(m)' \/ FrontCurrent(m)' \/ FrontPushed(m)')
        BY <2>1
      <3>2. FrontAt(m)'
        BY <1>5, <3>1 DEF FrontAt
      <3>3. run_ptr = 1 /\ tmp_ptr = 0
        BY <1>1 DEF PartitionsInv
      <3>4. PartitionsInv'
        BY <1>1, <2>1, <3>2, <3>3 DEF PartitionsInv
      <3>5. TypeOK'
        <4>1. /\ hash' \in [Index -> Hashes] /\ a' \in [Index -> Index]
              /\ \A i, j \in Index : a'[i] = a'[j] => i = j
              /\ mid' \in Int /\ left_ptr' \in Int /\ right_ptr' \in Int
              /\ run_ptr' \in Int /\ tmp_ptr' \in Int
          BY <1>1, Zenon DEF TypeOK
        <4>2. Len(stack') <= total_elems
          BY <2>1 DEF Parameters
        <4> QED BY <1>9, <2>1, <4>1, <4>2, Zenon DEF TypeOK
      <3>6. WallsInv' /\ SmallestInv' /\ InsertInv'
        BY <1>9 DEF WallsInv, SmallestInv, InsertInv
      <3> QED BY <3>4, <3>5, <3>6
    <2>2. CASE right_ptr - lo <= MAX_THRESH /\ hi - left_ptr <= MAX_THRESH
      <3>1. /\ stack # <<>> /\ lo' = stack[d][1] /\ hi' = stack[d][2]
            /\ stack' = SubSeq(stack, 1, d - 1)
        BY <1>9, <2>2 DEF Divide
      <3>2. d \in 1 .. total_elems /\ d - 1 \in 0 .. total_elems
        <4>1. d # 0
          BY <1>3, <3>1
        <4> HIDE DEF d
        <4> QED BY <1>3, <1>7, <4>1
      <3>3. /\ stack' \in Seq(Int \X Int) /\ Len(stack') = d - 1
            /\ \A k \in 1 .. d - 1 : stack'[k] = stack[k]
        <4>1. stack \in Seq(Int \X Int) /\ Len(stack) = d /\ d \in Nat /\ d - 1 \in Nat
          BY <1>3, <1>7, <3>2
        <4> HIDE DEF d
        <4> QED BY <3>1, <4>1
      <3>4. stack[d] \in Int \X Int /\ IsPartition(lo', hi', d - 1) /\ lo' \in Int /\ hi' \in Int
        BY <1>3, <3>1, <3>2
      <3>5. \A k \in 1 .. d - 1 : IsPartition(stack'[k][1], stack'[k][2], k - 1) /\ k \in 1 .. d
        <4>1. \A k \in 1 .. d - 1 : k \in 1 .. d
          BY <1>7
        <4> QED BY <1>3, <3>3, <4>1, Zenon
      <3>6. Pow2[d - 1] <= total_elems
        <4>1. Pow2[d] = 2 * Pow2[d - 1] /\ Pow2[d - 1] \in Nat
          BY <3>2, PowersOfTwo
        <4> QED BY <1>3, <4>1 DEF Parameters
      <3>7. \E m \in Index : CutAt(m) /\ (FrontDone(m)' \/ FrontCurrent(m)' \/ FrontPushed(m)')
        <4>1. CASE FrontDone(h)
          <5>1. h < lo' /\ \A k \in 1 .. d - 1 : h < stack'[k][1]
            BY <3>1, <3>2, <3>3, <3>5, <4>1 DEF FrontDone
          <5>2. FrontDone(h)'
            BY <3>3, <4>1, <5>1 DEF FrontDone
          <5> QED BY <1>4, <5>2 DEF FrontAt
        <4>2. CASE FrontCurrent(h)
          <5>1. \A k \in 1 .. d : stack[k] \in Int \X Int /\ h < stack[k][1]
            BY <1>3, <4>2 DEF FrontCurrent
          <5>2. right_ptr < h /\ right_ptr <= MAX_THRESH
            BY <1>2, <1>7, <2>2, <4>2 DEF FrontCurrent
          <5>3. \A k \in 1 .. d : right_ptr < stack[k][1]
            BY <1>7, <5>1, <5>2
          <5>4. right_ptr < lo' /\ \A k \in 1 .. d - 1 : right_ptr < stack'[k][1]
            BY <3>1, <3>2, <3>3, <3>5, <5>3
          <5> QED BY <1>2, <1>6, <4>2, <5>2, <5>4, <3>3 DEF FrontDone
        <4>3. CASE FrontPushed(h)
          <5>1. PICK k \in 1 .. d : stack[k] = <<0, h>> /\ \A m \in 1 .. d \ {k} : h < stack[m][1]
            BY <4>3 DEF FrontPushed
          <5>2. CASE k = d
            <6>1. lo' = 0 /\ hi' = h
              BY <3>1, <5>1, <5>2
            <6>2. ASSUME NEW m \in 1 .. d - 1 PROVE h < stack'[m][1]
              <7>1. m \in 1 .. d /\ m # d
                BY <3>2, <3>5
              <7>2. h < stack[m][1]
                BY <5>1, <5>2, <7>1
              <7> QED BY <3>3, <7>2
            <6> QED BY <1>4, <3>3, <6>1, <6>2, SMTT(30) DEF FrontCurrent, FrontAt
          <5>3. CASE k # d
            <6>1. k \in 1 .. d - 1 /\ stack'[k] = <<0, h>>
              BY <3>2, <3>3, <5>1, <5>3, SMTT(30)
            <6>2. h < lo'
              BY <3>1, <3>2, <5>1, <5>3
            <6>3. ASSUME NEW m \in 1 .. d - 1 \ {k} PROVE h < stack'[m][1]
              <7>1. m \in 1 .. d \ {k} /\ m \in 1 .. d - 1
                BY <3>5
              <7>2. h < stack[m][1]
                BY <5>1, <7>1
              <7> QED BY <3>3, <7>1, <7>2
            <6> QED BY <1>4, <3>3, <6>1, <6>2, <6>3, Zenon DEF FrontPushed, FrontAt
          <5> QED BY <5>2, <5>3
        <4> QED BY <1>4, <4>1, <4>2, <4>3 DEF FrontAt
      <3> HIDE DEF d
      <3> QED BY <2>1, <3>2, <3>3, <3>4, <3>5, <3>6, <3>7
    <2>3. CASE right_ptr - lo <= MAX_THRESH /\ ~(hi - left_ptr <= MAX_THRESH)
      <3>1. lo' = left_ptr /\ hi' = hi /\ stack' = stack
        BY <1>9, <2>3 DEF Divide
      <3>2. IsPartition(lo', hi', d)
        <4>1. left_ptr < hi /\ lo <= left_ptr /\ hi <= hi
          BY <1>2, <1>7, <2>3
        <4>2. IsPartition(left_ptr, hi, d)
          BY <1>3, <1>7, <4>1, PartIsPartition, Zenon
        <4> QED BY <3>1, <4>2
      <3>3. \E m \in Index : CutAt(m) /\ (FrontDone(m)' \/ FrontCurrent(m)' \/ FrontPushed(m)')
        <4>1. CASE FrontDone(h)
          BY <1>2, <1>4, <1>7, <3>1, <4>1 DEF FrontDone, FrontAt
        <4>2. CASE FrontCurrent(h)
          <5>1. right_ptr <= MAX_THRESH /\ right_ptr < lo'
            BY <1>2, <1>7, <2>3, <3>1, <4>2 DEF FrontCurrent
          <5>2. \A k \in 1 .. d : stack[k] \in Int \X Int /\ h < stack[k][1]
            BY <1>3, <4>2 DEF FrontCurrent
          <5>3. \A k \in 1 .. d : right_ptr < stack[k][1]
            BY <1>2, <1>7, <5>2, <4>2 DEF FrontCurrent
          <5> QED BY <1>2, <1>6, <3>1, <4>2, <5>1, <5>3 DEF FrontDone
        <4>3. CASE FrontPushed(h)
          <5>1. h < lo'
            BY <1>2, <1>7, <3>1, <4>3 DEF FrontPushed
          <5> QED BY <1>4, <3>1, <4>3, <5>1 DEF FrontPushed, FrontAt
        <4> QED BY <1>4, <4>1, <4>2, <4>3 DEF FrontAt
      <3> QED BY <1>3, <1>7, <2>1, <3>1, <3>2, <3>3
    <2>4. CASE ~(right_ptr - lo <= MAX_THRESH) /\ hi - left_ptr <= MAX_THRESH
      <3>1. lo' = lo /\ hi' = right_ptr /\ stack' = stack
        BY <1>9, <2>4 DEF Divide
      <3>2. IsPartition(lo', hi', d)
        <4>1. lo < right_ptr /\ right_ptr <= hi /\ lo <= lo
          BY <1>2, <1>7, <2>4
        <4>2. IsPartition(lo, right_ptr, d)
          BY <1>3, <1>7, <4>1, PartIsPartition
        <4> QED BY <3>1, <4>2
      <3>3. \E m \in Index : CutAt(m) /\ (FrontDone(m)' \/ FrontCurrent(m)' \/ FrontPushed(m)')
        <4>1. CASE FrontDone(h)
          BY <1>2, <1>4, <1>7, <3>1, <4>1 DEF FrontDone, FrontAt
        <4>2. CASE FrontCurrent(h)
          <5>1. \A k \in 1 .. d : stack[k] \in Int \X Int /\ h < stack[k][1]
            BY <1>3, <4>2 DEF FrontCurrent
          <5>2. \A k \in 1 .. d : right_ptr < stack[k][1]
            BY <1>2, <1>7, <5>1, <4>2 DEF FrontCurrent
          <5> QED BY <1>2, <1>6, <3>1, <4>2, <5>2 DEF FrontCurrent
        <4>3. CASE FrontPushed(h)
          BY <1>4, <3>1, <4>3 DEF FrontPushed, FrontAt
        <4> QED BY <1>4, <4>1, <4>2, <4>3 DEF FrontAt
      <3> QED BY <1>3, <1>7, <2>1, <3>1, <3>2, <3>3
    <2>5. ASSUME NEW l \in Index, NEW u \in Index, NEW p \in Index, NEW q \in Index,
                 ~(right_ptr - lo <= MAX_THRESH), ~(hi - left_ptr <= MAX_THRESH),
                 lo' = l /\ hi' = u /\ stack' = Append(stack, <<p, q>>),
                 \/ l = left_ptr /\ u = hi /\ p = lo /\ q = right_ptr /\ hi - left_ptr <= right_ptr - lo
                 \/ l = lo /\ u = right_ptr /\ p = left_ptr /\ q = hi /\ right_ptr - lo <= hi - left_ptr
          PROVE  SortInv'
      <3>1. l \in Int /\ u \in Int /\ p \in Int /\ q \in Int
        BY DEF Index
      <3>2. /\ stack' \in Seq(Int \X Int) /\ Len(stack') = d + 1
            /\ \A k \in 1 .. d : stack'[k] = stack[k]
            /\ stack'[d + 1] = <<p, q>> /\ stack'[d + 1][1] = p
        BY <1>3, <2>5, <3>1
      <3>3. l < u /\ p < q /\ 2 * (u - l + 1) <= hi - lo + 1 /\ lo <= l /\ lo <= p /\ u <= hi /\ q <= hi
        BY <1>2, <1>7, <2>5
      <3>4. IsPartition(p, q, d)
        BY <1>3, <1>7, <3>1, <3>3, PartIsPartition, Zenon
      <3>5. d + 1 \in 0 .. total_elems /\ IsPartition(l, u, d + 1) /\ Pow2[d + 1] <= total_elems
        BY <1>3, <1>7, <3>1, <3>3, HalfIsPartition
      <3>6. \A k \in 1 .. d + 1 : k \in 1 .. d \/ k = d + 1
        BY <1>3
      <3>7. \A k \in 1 .. d + 1 : IsPartition(stack'[k][1], stack'[k][2], k - 1)
        <4>1. (d + 1) - 1 = d /\ stack'[d + 1][1] = p /\ stack'[d + 1][2] = q
          BY <1>3, <3>2
        <4> HIDE DEF d
        <4> QED BY <1>3, <3>2, <3>4, <3>6, <4>1, Zenon
      <3>8. \E m \in Index : CutAt(m) /\ (FrontDone(m)' \/ FrontCurrent(m)' \/ FrontPushed(m)')
        <4>1. CASE FrontDone(h)
          <5>1. h < lo' /\ h < p
            <6>1. h < lo
              BY <4>1 DEF FrontDone
            <6> QED BY <1>7, <2>5, <3>1, <3>3, <6>1
          <5>2. \A k \in 1 .. d + 1 : h < stack'[k][1]
            <6>1. \A k \in 1 .. d : h < stack[k][1]
              BY <4>1 DEF FrontDone
            <6> HIDE DEF d
            <6> QED BY <3>2, <3>6, <5>1, <6>1
          <5> QED BY <1>4, <3>2, <4>1, <5>1, <5>2 DEF FrontDone, FrontAt
        <4>2. CASE FrontCurrent(h)
          <5>1. \A k \in 1 .. d : stack[k] \in Int \X Int /\ h < stack[k][1]
            BY <1>3, <4>2 DEF FrontCurrent
          <5>2. \A k \in 1 .. d : right_ptr < stack[k][1]
            BY <1>2, <1>7, <5>1, <4>2 DEF FrontCurrent
          <5>3. CASE l = left_ptr /\ p = lo /\ q = right_ptr
            <6>1. stack'[d + 1] = <<0, right_ptr>>
              BY <3>2, <4>2, <5>3 DEF FrontCurrent
            <6>2. \A k \in 1 .. d + 1 \ {d + 1} : right_ptr < stack'[k][1]
              BY <3>2, <3>6, <5>2, Zenon
            <6>3. right_ptr < lo' /\ d + 1 \in 1 .. d + 1
              BY <1>2, <1>3, <2>5, <5>3
            <6>4. FrontPushed(right_ptr)'
              <7>1. \E k \in 1 .. Len(stack') :
                        /\ stack'[k] = <<0, right_ptr>>
                        /\ \A m \in 1 .. Len(stack') \ {k} : right_ptr < stack'[m][1]
                BY <3>2, <6>1, <6>2, <6>3, Zenon
              <7> QED BY <1>1, <6>3, <7>1 DEF FrontPushed
            <6> QED BY <1>1, <1>2, <1>6, <4>2, <6>4 DEF FrontPushed
          <5>4. CASE l = lo /\ u = right_ptr /\ p = left_ptr
            <6>1. \A k \in 1 .. d + 1 : right_ptr < stack'[k][1]
              <7> HIDE DEF d
              <7> QED BY <1>2, <3>2, <3>6, <5>2, <5>4
            <6>2. lo' = 0 /\ hi' = right_ptr
              BY <2>5, <4>2, <5>4 DEF FrontCurrent
            <6> QED BY <1>2, <1>6, <3>2, <4>2, <6>1, <6>2 DEF FrontCurrent
          <5> QED BY <2>5, <5>3, <5>4
        <4>3. CASE FrontPushed(h)
          <5>1. PICK k \in 1 .. d : stack[k] = <<0, h>> /\ \A m \in 1 .. d \ {k} : h < stack[m][1]
            BY <4>3 DEF FrontPushed
          <5>2. h < lo' /\ h < p
            <6>1. h < lo
              BY <4>3 DEF FrontPushed
            <6> QED BY <1>7, <2>5, <3>1, <3>3, <6>1
          <5>3. k \in 1 .. d + 1 /\ stack'[k] = <<0, h>>
            <6>1. k \in 1 .. d + 1
              BY <1>7
            <6> QED BY <3>2, <5>1, <6>1, Zenon
          <5>4. \A m \in 1 .. d + 1 \ {k} : h < stack'[m][1]
            <6> HIDE DEF d
            <6> QED BY <3>2, <3>6, <5>1, <5>2
          <5> QED BY <1>4, <3>2, <5>2, <5>3, <5>4, Zenon DEF FrontPushed, FrontAt
        <4> QED BY <1>4, <4>1, <4>2, <4>3 DEF FrontAt
      <3> HIDE DEF d
      <3> QED BY <2>1, <2>5, <3>1, <3>2, <3>5, <3>7, <3>8, Zenon
    <2>6. CASE ~(right_ptr - lo <= MAX_THRESH) /\ ~(hi - left_ptr <= MAX_THRESH)
      <3>1. \/ /\ right_ptr - lo > hi - left_ptr
               /\ lo' = left_ptr /\ hi' = hi /\ stack' = Append(stack, <<lo, right_ptr>>)
            \/ /\ right_ptr - lo <= hi - left_ptr
               /\ lo' = lo /\ hi' = right_ptr /\ stack' = Append(stack, <<left_ptr, hi>>)
        BY <1>9, <2>6 DEF Divide
      <3>2. right_ptr - lo > hi - left_ptr => hi - left_ptr <= right_ptr - lo
        BY <1>7
      <3> QED BY <1>2, <2>5, <2>6, <3>1, <3>2
    <2> QED BY <2>2, <2>3, <2>4, <2>6
  <1> QED BY <1>1, <1>8, <1>9
-----------------------------------------------------------------------------

\* The search through the first thresh elements ends at the smallest element of the
\* array, which becomes the sentinel.
LEMMA FindSmallestStep ==
    ASSUME Parameters, SortInv, FindSmallest
    PROVE  SortInv'
  <1> USE DEF SortInv
  <1>1. /\ pc = "smallest" /\ stack = <<>>
        /\ run_ptr \in 1 .. thresh + 1 /\ tmp_ptr \in 0 .. run_ptr - 1
        /\ \A i \in 0 .. run_ptr - 1 : H(tmp_ptr) <= H(i)
        /\ UNCHANGED <<hash, lo, hi, mid, left_ptr, right_ptr, stack>>
    BY DEF FindSmallest, SmallestInv
  <1>2. PICK h \in 0 .. thresh : CutAt(h)
    BY <1>1 DEF SmallestInv
  <1>3. thresh \in Index /\ thresh \in Nat /\ total_elems \in Nat /\ total_elems >= 1 /\ 0 \in Index
    BY DEF thresh, Index, Parameters
  <1>4. run_ptr \in Nat /\ tmp_ptr \in Nat /\ tmp_ptr \in Index /\ \A i \in 0 .. run_ptr - 1 : i \in Index
    BY <1>1, <1>3 DEF Index
  <1>5. \A i \in Index : H(i) \in Int
    BY KeysAreIntegers
  <1>6. CASE run_ptr <= thresh
    <2>1. /\ tmp_ptr' = IF Less(a, run_ptr, tmp_ptr) THEN run_ptr ELSE tmp_ptr
          /\ run_ptr' = run_ptr + 1 /\ UNCHANGED <<a, pc>>
      BY <1>3, <1>4, <1>6 DEF FindSmallest
    <2>2. run_ptr \in Index
      BY <1>3, <1>4, <1>6 DEF Index
    <2>3. tmp_ptr' \in 0 .. run_ptr /\ H(tmp_ptr') <= H(run_ptr) /\ H(tmp_ptr') <= H(tmp_ptr) /\ tmp_ptr' \in Index
      <3>1. CASE Less(a, run_ptr, tmp_ptr)
        <4>1. H(run_ptr) < H(tmp_ptr)
          BY <3>1 DEF Less, H
        <4> QED BY <1>4, <1>5, <2>1, <2>2, <3>1, <4>1
      <3>2. CASE ~Less(a, run_ptr, tmp_ptr)
        <4>1. ~(H(run_ptr) < H(tmp_ptr))
          BY <3>2 DEF Less, H
        <4> QED BY <1>1, <1>4, <1>5, <2>1, <2>2, <3>2, <4>1
      <3> QED BY <3>1, <3>2
    <2>4. \A i \in 0 .. run_ptr' - 1 : H(tmp_ptr') <= H(i)
      <3> SUFFICES ASSUME NEW i \in 0 .. run_ptr' - 1
                   PROVE  H(tmp_ptr') <= H(i)
        OBVIOUS
      <3>1. CASE i = run_ptr
        BY <2>3, <3>1
      <3>2. CASE i # run_ptr
        <4>1. i \in 0 .. run_ptr - 1 /\ i \in Index
          BY <1>4, <2>1, <3>2
        <4>2. H(tmp_ptr) <= H(i)
          BY <1>1, <4>1
        <4> QED BY <1>4, <1>5, <2>3, <4>1, <4>2
      <3> QED BY <3>1, <3>2
    <2>5. run_ptr' \in 1 .. thresh + 1 /\ tmp_ptr' \in 0 .. run_ptr' - 1
      BY <1>3, <1>4, <1>6, <2>1, <2>3
    <2>6. CutAt(h)' /\ \A i \in 0 .. run_ptr' - 1 : hash'[a'[tmp_ptr']] <= hash'[a'[i]]
      BY <1>1, <1>2, <2>1, <2>4 DEF CutAt, H
    <2>7. SmallestInv'
      BY <1>1, <2>1, <2>5, <2>6 DEF SmallestInv, H, thresh
    <2>8. PartitionsInv' /\ WallsInv' /\ InsertInv'
      BY <1>1, <2>1 DEF PartitionsInv, Dividing, WallsInv, InsertInv
    <2>9. TypeOK'
      <3>1. run_ptr' \in Int /\ tmp_ptr' \in Int
        BY <1>4, <2>1
      <3> QED BY <1>1, <2>1, <3>1 DEF TypeOK
    <2> QED BY <2>7, <2>8, <2>9
  <1>7. CASE run_ptr > thresh
    <2>1. /\ a' = Swap(a, tmp_ptr, 0) /\ run_ptr' = 2 /\ tmp_ptr' = 1
          /\ pc' = IF run_ptr' <= total_elems - 1 THEN "search" ELSE "done"
      BY <1>3, <1>4, <1>7 DEF FindSmallest
    <2>2. \A i \in Index : H(tmp_ptr) <= H(i)
      <3> SUFFICES ASSUME NEW i \in Index
                   PROVE  H(tmp_ptr) <= H(i)
        OBVIOUS
      <3>1. CASE i <= thresh
        <4>1. i \in 0 .. run_ptr - 1
          BY <1>1, <1>3, <1>7, <3>1 DEF Index
        <4> QED BY <1>1, <4>1
      <3>2. CASE thresh < i
        <4>1. 0 <= h /\ h < i
          BY <1>3, <3>2 DEF Index
        <4>2. H(0) <= H(i)
          BY <1>2, <1>3, <4>1 DEF CutAt
        <4>3. 0 \in 0 .. run_ptr - 1
          BY <1>1
        <4>4. H(tmp_ptr) <= H(0)
          BY <1>1, <4>3
        <4> QED BY <1>3, <1>4, <1>5, <4>2, <4>4
      <3> QED BY <1>3, <3>1, <3>2 DEF Index
    <2>3. /\ Rearranged(a, a', 0, total_elems - 1)
          /\ a'[0] = a[tmp_ptr]
      <3>1. IsArray(a) /\ total_elems - 1 \in Index /\ tmp_ptr \in 0 .. total_elems - 1 /\ 0 \in 0 .. total_elems - 1
        BY <1>3, <1>4 DEF IsArray, TypeOK, Index
      <3> QED BY <1>3, <2>1, <3>1, SwapRearranges
    <2>4. \A i \in Index : hash'[a'[0]] <= hash'[a'[i]]
      <3> SUFFICES ASSUME NEW i \in Index
                   PROVE  hash[a'[0]] <= hash[a'[i]]
        BY <1>1
      <3>1. PICK k \in Index : a'[i] = a[k]
        BY <2>3 DEF Rearranged, Index
      <3> QED BY <2>2, <2>3, <3>1 DEF H
    <2>5. SortedBelow(2)'
      <3>1. \A i, j \in Index : i < j /\ j < 2 => i = 0
        BY <1>3 DEF Index
      <3> QED BY <2>4, <3>1 DEF SortedBelow, H
    <2>6. InsertInv'
      <3>1. CASE 2 <= total_elems - 1
        <4>1. pc' = "search" /\ run_ptr' \in 2 .. total_elems - 1 /\ tmp_ptr' \in 0 .. run_ptr' - 1
          BY <1>3, <2>1, <3>1
        <4>2. \A i \in Index : ~(tmp_ptr' < i /\ i < run_ptr')
          BY <1>3, <2>1 DEF Index
        <4>3. SortedBelow(run_ptr)'
          BY <2>1, <2>5 DEF SortedBelow
        <4> QED BY <2>4, <4>1, <4>2, <4>3, Zenon DEF InsertInv, H
      <3>2. CASE ~(2 <= total_elems - 1)
        <4>1. pc' = "done"
          BY <2>1, <3>2
        <4>2. \A j \in Index : j < 2
          BY <1>3, <3>2 DEF Index
        <4>3. SortedBelow(total_elems)'
          BY <2>5, <4>2 DEF SortedBelow
        <4> QED BY <4>1, <4>3 DEF InsertInv
      <3> QED BY <3>1, <3>2
    <2>7. pc' \in {"search", "done"}
      BY <2>1
    <2>8. PartitionsInv' /\ WallsInv' /\ SmallestInv'
      BY <2>7 DEF PartitionsInv, Dividing, WallsInv, SmallestInv
    <2>9. TypeOK'
      <3>1. a' \in [Index -> Index] /\ \A i, j \in Index : a'[i] = a'[j] => i = j
        BY <2>3 DEF Rearranged
      <3> QED BY <1>1, <2>1, <2>7, <3>1 DEF TypeOK
    <2> QED BY <2>6, <2>8, <2>9
  <1> QED BY <1>3, <1>4, <1>6, <1>7

\* The unguarded search downwards for the place of an element stops at the sentinel at
\* the latest.
LEMMA SearchPlaceStep ==
    ASSUME Parameters, SortInv, SearchPlace
    PROVE  SortInv'
  <1> USE DEF SortInv
  <1>1. /\ pc = "search" /\ tmp_ptr' = tmp_ptr - 1
        /\ UNCHANGED <<hash, a, pc, lo, hi, mid, left_ptr, right_ptr, stack, run_ptr>>
        /\ H(run_ptr) < H(tmp_ptr)
    BY DEF SearchPlace, Less, H
  <1>2. /\ run_ptr \in 2 .. total_elems - 1 /\ tmp_ptr \in 0 .. run_ptr - 1
        /\ \A i \in Index : H(0) <= H(i)
        /\ SortedBelow(run_ptr)
        /\ \A i \in Index : tmp_ptr < i /\ i < run_ptr => H(run_ptr) < H(i)
    BY <1>1 DEF InsertInv
  <1>3. total_elems \in Nat /\ run_ptr \in Index /\ tmp_ptr \in Index /\ 0 \in Index
    BY <1>2 DEF Index, Parameters
  <1>4. tmp_ptr # 0
    BY <1>1, <1>2, <1>3, KeysAreIntegers
  <1>5. tmp_ptr' \in 0 .. run_ptr - 1 /\ tmp_ptr' \in Int
    BY <1>1, <1>2, <1>3, <1>4
  <1>6. \A i \in Index : tmp_ptr' < i /\ i < run_ptr => H(run_ptr) < H(i)
    <2>1. \A i \in Index : tmp_ptr' < i => i = tmp_ptr \/ tmp_ptr < i
      BY <1>1, <1>3 DEF Index
    <2> QED BY <1>1, <1>2, <2>1
  <1>7. InsertInv'
    BY <1>1, <1>2, <1>5, <1>6, Zenon DEF InsertInv, SortedBelow, H
  <1>8. PartitionsInv' /\ WallsInv' /\ SmallestInv'
    BY <1>1, Zenon DEF PartitionsInv, Dividing, WallsInv, SmallestInv
  <1>9. TypeOK'
    BY <1>1, <1>5 DEF TypeOK
  <1> QED BY <1>7, <1>8, <1>9

\* Rotating an element down to its place leaves one more element in order.
LEMMA InsertStep ==
    ASSUME Parameters, SortInv, Insert
    PROVE  SortInv'
  <1> USE DEF SortInv
  <1> DEFINE t == tmp_ptr + 1
             K(i) == hash'[a'[i]]
  <1>1. /\ pc = "search" /\ a' = MoveDown(a, t, run_ptr)
        /\ run_ptr' = run_ptr + 1 /\ tmp_ptr' = run_ptr
        /\ pc' = IF run_ptr' <= total_elems - 1 THEN "search" ELSE "done"
        /\ UNCHANGED <<hash, lo, hi, mid, left_ptr, right_ptr, stack>>
        /\ ~(H(run_ptr) < H(tmp_ptr))
    BY DEF Insert, Less, H
  <1>2. /\ run_ptr \in 2 .. total_elems - 1 /\ tmp_ptr \in 0 .. run_ptr - 1
        /\ \A i \in Index : H(0) <= H(i)
        /\ SortedBelow(run_ptr)
        /\ \A i \in Index : tmp_ptr < i /\ i < run_ptr => H(run_ptr) < H(i)
    BY <1>1 DEF InsertInv
  <1>3. /\ total_elems \in Nat /\ run_ptr \in Index /\ tmp_ptr \in Index /\ 0 \in Index
        /\ t \in 1 .. run_ptr /\ run_ptr \in Nat /\ t \in Index
        /\ \A i \in Index : t < i => i - 1 \in Index
    BY <1>2 DEF Index, Parameters
  <1>4. \A i \in Index : H(i) \in Int
    BY KeysAreIntegers
  <1> HIDE DEF t
  <1>5. \A i \in Index : a'[i] = IF i = t THEN a[run_ptr]
                                  ELSE IF t < i /\ i <= run_ptr THEN a[i - 1] ELSE a[i]
    BY <1>1 DEF MoveDown
  <1>6. a' \in [Index -> Index]
    <2>1. a' = [i \in Index |-> a'[i]]
      BY <1>1 DEF MoveDown
    <2>2. \A i \in Index : a'[i] \in Index
      BY <1>3, <1>5 DEF TypeOK
    <2> QED BY <2>1, <2>2
  <1>7. \A i, j \in Index : a'[i] = a'[j] => i = j
    <2> DEFINE from(i) == IF i = t THEN run_ptr ELSE IF t < i /\ i <= run_ptr THEN i - 1 ELSE i
    <2>1. \A i \in Index : from(i) \in Index /\ a'[i] = a[from(i)]
      BY <1>3, <1>5
    <2>2. \A i, j \in Index : from(i) = from(j) => i = j
      BY <1>3 DEF Index
    <2> HIDE DEF from
    <2> QED BY <2>1, <2>2 DEF TypeOK
  <1>8. \A i \in Index : K(i) = IF i = t THEN H(run_ptr)
                                ELSE IF t < i /\ i <= run_ptr THEN H(i - 1) ELSE H(i)
    BY <1>1, <1>5 DEF H
  <1>9. \A i \in Index : K(0) <= K(i)
    <2>1. K(0) = H(0)
      BY <1>3, <1>8
    <2> QED BY <1>2, <1>3, <1>8, <2>1
  <1>10. \A i \in Index : i < t => H(i) <= H(run_ptr)
    <2> SUFFICES ASSUME NEW i \in Index, i < t
                 PROVE  H(i) <= H(run_ptr)
      OBVIOUS
    <2>1. H(tmp_ptr) <= H(run_ptr)
      BY <1>1, <1>3, <1>4
    <2>2. i = tmp_ptr \/ (i < tmp_ptr /\ tmp_ptr < run_ptr)
      BY <1>2, <1>3 DEF Index, t
    <2>3. H(i) <= H(tmp_ptr)
      BY <1>2, <1>3, <1>4, <2>2 DEF SortedBelow
    <2> QED BY <1>3, <1>4, <2>1, <2>3
  <1>11. \A i \in Index : t <= i /\ i < run_ptr => H(run_ptr) <= H(i)
    <2>1. \A i \in Index : t <= i => tmp_ptr < i
      BY <1>3 DEF Index, t
    <2> QED BY <1>2, <1>3, <1>4, <2>1
  <1>12. \A i, j \in Index : i < j /\ j < run_ptr + 1 => K(i) <= K(j)
    <2> SUFFICES ASSUME NEW i \in Index, NEW j \in Index, i < j, j < run_ptr + 1
                 PROVE  K(i) <= K(j)
      OBVIOUS
    <2>1. i \in Int /\ j \in Int /\ run_ptr \in Int /\ t \in Int
      BY <1>3 DEF Index
    <2>2. CASE j < t
      <3>1. K(i) = H(i) /\ K(j) = H(j)
        BY <1>3, <1>8, <2>1, <2>2
      <3> QED BY <1>2, <1>3, <2>1, <2>2, <3>1 DEF SortedBelow
    <2>3. CASE j = t
      <3>1. K(i) = H(i) /\ K(j) = H(run_ptr)
        BY <1>3, <1>8, <2>1, <2>3
      <3> QED BY <1>10, <2>3, <3>1
    <2>4. CASE t < j /\ i < t
      <3>1. K(i) = H(i) /\ K(j) = H(j - 1) /\ j - 1 \in Index
        BY <1>3, <1>8, <2>1, <2>4
      <3> QED BY <1>2, <2>1, <2>4, <3>1 DEF SortedBelow
    <2>5. CASE t < j /\ i = t
      <3>1. K(i) = H(run_ptr) /\ K(j) = H(j - 1) /\ j - 1 \in Index
        BY <1>3, <1>8, <2>1, <2>5
      <3> QED BY <1>11, <2>1, <2>5, <3>1
    <2>6. CASE t < j /\ t < i
      <3>1. K(i) = H(i - 1) /\ K(j) = H(j - 1) /\ j - 1 \in Index /\ i - 1 \in Index
        BY <1>3, <1>8, <2>1, <2>6
      <3> QED BY <1>2, <2>1, <2>6, <3>1 DEF SortedBelow
    <2> QED BY <2>1, <2>2, <2>3, <2>4, <2>5, <2>6
  <1>13. InsertInv'
    <2>1. CASE run_ptr + 1 <= total_elems - 1
      <3>1. pc' = "search" /\ run_ptr' \in 2 .. total_elems - 1 /\ tmp_ptr' \in 0 .. run_ptr' - 1
        BY <1>1, <1>2, <1>3, <2>1
      <3>2. \A i \in Index : ~(tmp_ptr' < i /\ i < run_ptr')
        BY <1>1, <1>3 DEF Index
      <3>3. SortedBelow(run_ptr)'
        BY <1>1, <1>12 DEF SortedBelow, H
      <3> QED BY <1>9, <3>1, <3>2, <3>3, Zenon DEF InsertInv, H
    <2>2. CASE ~(run_ptr + 1 <= total_elems - 1)
      <3>1. pc' = "done"
        BY <1>1, <2>2
      <3>2. \A j \in Index : j < run_ptr + 1
        BY <1>2, <1>3, <2>2 DEF Index
      <3>3. SortedBelow(total_elems)'
        BY <1>12, <3>2 DEF SortedBelow, H
      <3> QED BY <3>1, <3>3 DEF InsertInv
    <2> QED BY <2>1, <2>2
  <1>14. pc' \in {"search", "done"}
    BY <1>1
  <1>15. PartitionsInv' /\ WallsInv' /\ SmallestInv'
    BY <1>14 DEF PartitionsInv, Dividing, WallsInv, SmallestInv
  <1>16. TypeOK'
    <2>1. run_ptr' \in Int /\ tmp_ptr' \in Int
      BY <1>1, <1>3
    <2> QED BY <1>1, <1>6, <1>7, <1>14, <2>1 DEF TypeOK
  <1> QED BY <1>13, <1>15, <1>16
-----------------------------------------------------------------------------

\* The invariant holds of an array as it is given to _quicksort.
LEMMA InitSortInv ==
    ASSUME Parameters, InitSort
    PROVE  SortInv
  <1>1. /\ hash \in [Index -> Hashes] /\ a = [i \in Index |-> i] /\ stack = <<>>
        /\ lo = 0 /\ hi = total_elems - 1 /\ mid = 0 /\ left_ptr = 0 /\ right_ptr = 0
        /\ run_ptr = 1 /\ tmp_ptr = 0
        /\ pc = IF total_elems > MAX_THRESH THEN "median" ELSE "smallest"
    BY DEF InitSort
  <1>2. total_elems \in Nat /\ total_elems >= 1 /\ MAX_THRESH \in Nat /\ MAX_THRESH >= 1
    BY DEF Parameters
  <1>3. Pow2[0] = 1 /\ Len(stack) = 0
    BY <1>1, PowersOfTwo
  <1>4. TypeOK
    <2>1. a \in [Index -> Index] /\ \A i, j \in Index : a[i] = a[j] => i = j
      BY <1>1
    <2>2. stack \in Seq(Int \X Int)
      BY <1>1
    <2> QED BY <1>1, <1>2, <1>3, <2>1, <2>2 DEF TypeOK
  <1>5. CutAt(total_elems - 1)
    BY <1>2 DEF CutAt, Index
  <1>6. PartitionsInv
    <2> SUFFICES ASSUME Dividing
                 PROVE  /\ IsPartition(lo, hi, Len(stack))
                        /\ \A k \in 1 .. Len(stack) : IsPartition(stack[k][1], stack[k][2], k - 1)
                        /\ \E h \in Index : FrontAt(h)
      BY <1>1 DEF PartitionsInv
    <2>1. total_elems > MAX_THRESH
      BY <1>1 DEF Dividing
    <2>2. IsPartition(lo, hi, Len(stack))
      BY <1>1, <1>2, <1>3, <2>1 DEF IsPartition
    <2>3. \A k \in 1 .. Len(stack) : FALSE
      BY <1>3
    <2>4. FrontAt(total_elems - 1)
      BY <1>1, <1>5, <2>3 DEF FrontAt, FrontCurrent
    <2>5. total_elems - 1 \in Index
      BY <1>2 DEF Index
    <2> QED BY <2>2, <2>3, <2>4, <2>5
  <1>7. SmallestInv
    <2> SUFFICES ASSUME pc = "smallest"
                 PROVE  /\ total_elems - 1 \in 0 .. thresh
                        /\ run_ptr \in 1 .. thresh + 1 /\ tmp_ptr \in 0 .. run_ptr - 1
                        /\ \A i \in 0 .. run_ptr - 1 : H(tmp_ptr) <= H(i)
      BY <1>1, <1>5 DEF SmallestInv
    <2>1. ~(total_elems > MAX_THRESH)
      BY <1>1
    <2>2. /\ total_elems - 1 \in 0 .. thresh
          /\ run_ptr \in 1 .. thresh + 1 /\ tmp_ptr \in 0 .. run_ptr - 1
      BY <1>1, <1>2, <2>1 DEF thresh
    <2>3. \A i \in 0 .. run_ptr - 1 : i = tmp_ptr /\ i \in Index
      BY <1>1, <1>2 DEF Index
    <2> QED BY <1>4, <2>2, <2>3, KeysAreIntegers
  <1>8. WallsInv /\ InsertInv
    BY <1>1 DEF WallsInv, InsertInv
  <1> QED BY <1>4, <1>6, <1>7, <1>8 DEF SortInv

\* Every step of _quicksort keeps the invariant.
LEMMA NextSortInv ==
    ASSUME Parameters, SortInv, [Next]_vars
    PROVE  SortInv'
  <1>1. CASE Next
    BY <1>1, SelectMedianStep, ScanStep, CollapseStep, DivideStep, FindSmallestStep, SearchPlaceStep,
       InsertStep DEF Next
  <1>2. CASE UNCHANGED vars
    <2>1. UNCHANGED <<hash, a, pc, lo, hi, mid, left_ptr, right_ptr, stack, run_ptr, tmp_ptr>>
      BY <1>2 DEF vars
    <2>2. TypeOK'
      BY <2>1 DEF SortInv, TypeOK
    <2>3. PartitionsInv'
      <3> SUFFICES ASSUME Dividing
                   PROVE  PartitionsInv'
        BY <2>1 DEF PartitionsInv, Dividing
      <3>1. lo \in Int /\ hi \in Int
        BY DEF SortInv, TypeOK
      <3>2. Rearranged(a, a', lo, hi)
        BY <2>1, <3>1 DEF Rearranged, SortInv, TypeOK
      <3> QED BY <2>1, <3>2, PartitionsStay DEF SortInv
    <2>4. WallsInv'
      BY <2>1, Zenon DEF SortInv, WallsInv, Scanned, H
    <2>5. SmallestInv'
      BY <2>1, Zenon DEF SortInv, SmallestInv, CutAt, H, thresh
    <2>6. InsertInv'
      BY <2>1 DEF SortInv, InsertInv, SortedBelow, H
    <2> QED BY <2>2, <2>3, <2>4, <2>5, <2>6 DEF SortInv
  <1> QED BY <1>1, <1>2

(* The invariant, with what it says about the bounds and about the result. *)
LEMMA SortInvSorts ==
    ASSUME Parameters, SortInv
    PROVE  SortsInBounds
  <1> USE DEF SortInv
  <1>1. Dividing => lo \in Int /\ hi \in Int /\ 0 <= lo /\ hi <= total_elems - 1 /\ total_elems \in Nat
    BY DEF PartitionsInv, IsPartition, TypeOK, Parameters
  <1>2. pc = "left" => left_ptr \in lo .. hi
    BY <1>1 DEF WallsInv, Scanned, TypeOK, Dividing
  <1>3. pc = "right" => right_ptr \in lo .. hi
    BY <1>1 DEF WallsInv, Scanned, TypeOK, Dividing
  <1>4. pc = "search" => tmp_ptr \in Index
    BY DEF InsertInv, Index, Parameters
  <1>5. pc = "done" => \A i, j \in Index : i < j => hash[a[i]] <= hash[a[j]]
    <2>1. \A j \in Index : j < total_elems
      BY DEF Index, Parameters
    <2> QED BY <2>1 DEF InsertInv, SortedBelow, H
  <1>6. \A e \in Index : \E i \in Index : a[i] = e
    <2>1. IsFiniteSet(Index)
      BY FS_Interval DEF Index, Parameters
    <2>2. a \in Injection(Index, Index)
      BY DEF TypeOK, Injection, IsInjective
    <2>3. a \in Surjection(Index, Index)
      BY <2>1, <2>2, FS_Injection
    <2> QED BY <2>3 DEF Surjection
  <1> QED BY <1>2, <1>3, <1>4, <1>5, <1>6 DEF SortsInBounds, TypeOK

(* _quicksort stays within its array and its stack, although its loops do not test for the end *)
(* of either, and sorts, for any number of elements from 1, any threshold from 1 and any keys.  *)
THEOREM QuicksortSorts ==
    ASSUME Parameters
    PROVE  SpecSort => []SortsInBounds
  <1>1. InitSort => SortInv
    BY InitSortInv
  <1>2. SortInv /\ [Next]_vars => SortInv'
    BY NextSortInv
  <1>3. SortInv => SortsInBounds
    BY SortInvSorts
  <1> QED BY <1>1, <1>2, <1>3, PTL DEF SpecSort
=============================================================================
