----------------------- MODULE SchedulerKernelProofs -----------------------
(***************************************************************************)
(* What the functions of module SchedulerKernel do to the lists and tasks, *)
(* one lemma per function, for every number of PCBs.                       *)
(***************************************************************************)
EXTENDS SchedulerKernel, SetInduction, TLAPS

ListType == [head : PcbPtr, tail : PcbPtr]

-----------------------------------------------------------------------------
(* Lists of PCBs.                                                          *)

(* Putting an unlinked PCB at the end of a list appends it to the sequence the
   list represents: the pointer code shared by AddReady and AddTerminated. *)
LEMMA ExtendRepresents ==
    ASSUME NEW next \in [Pcb -> PcbPtr], NEW list \in ListType, NEW q \in Seq(Pcb),
           NEW t \in Pcb, Represents(list, next, q), next[t] = NULL,
           \A i \in 1 .. Len(q) : q[i] /= t
    PROVE  Represents(Extend(list, t), Link(next, list, t), Append(q, t))
  <1> DEFINE a == Append(q, t)
             n == Link(next, list, t)
  <1>0. NULL \notin Pcb /\ Pcb \subseteq Int
    BY KernelAssumption DEF Pcb, NULL
  <1>1. /\ a \in Seq(Pcb) /\ Len(a) = Len(q) + 1 /\ a[Len(a)] = t
        /\ \A i \in 1 .. Len(q) : a[i] = q[i]
    OBVIOUS
  <1>2. CASE Len(q) = 0
    BY <1>0, <1>1, <1>2 DEF Represents, Extend, Link
  <1>3. CASE Len(q) /= 0
    <2>1. /\ Len(q) \in Nat \ {0} /\ list.head = q[1] /\ list.tail = q[Len(q)]
          /\ q[1] \in Pcb /\ q[Len(q)] \in Pcb
      BY <1>3 DEF Represents
    <2>2. n = [next EXCEPT ![q[Len(q)]] = t]
      BY <1>0, <2>1 DEF Link
    <2>3. \A i \in 1 .. Len(q) : q[i] \in Pcb
      OBVIOUS
    <2>4. \A i \in 1 .. Len(a) : n[a[i]] = IF i = Len(a) THEN NULL ELSE a[i + 1]
      <3> SUFFICES ASSUME NEW i \in 1 .. Len(a)
                   PROVE  n[a[i]] = IF i = Len(a) THEN NULL ELSE a[i + 1]
        OBVIOUS
      <3>1. CASE i = Len(a)
        BY <3>1, <1>1, <2>1, <2>2
      <3>2. CASE i = Len(q)
        BY <3>2, <1>1, <2>1, <2>2
      <3>3. CASE i < Len(q)
        BY <3>3, <1>1, <2>1, <2>2, <2>3, SMTT(30) DEF Represents
      <3> QED BY <3>1, <3>2, <3>3, <1>1, <2>1
    <2>5. \A i, j \in 1 .. Len(a) : a[i] = a[j] => i = j
      BY <1>1, <2>1 DEF Represents
    <2>6. Extend(list, t).head = a[1] /\ Extend(list, t).tail = t
      BY <1>0, <1>1, <2>1 DEF Extend
    <2> QED
      BY <1>1, <2>1, <2>4, <2>5, <2>6, SMTT(30) DEF Represents
  <1> QED BY <1>2, <1>3

(* Taking the first PCB off a list leaves the tail of the sequence the list
   represents: the pointer code shared by NextReady and PerformButler. *)
LEMMA UnlinkRepresents ==
    ASSUME NEW next \in [Pcb -> PcbPtr], NEW list \in ListType, NEW q \in Seq(Pcb),
           Represents(list, next, q), list.head /= NULL
    PROVE  /\ Len(q) \in Nat \ {0} /\ list.head = q[1] /\ q[1] \in Pcb
           /\ Unlink(next, list) \in ListType
           /\ Represents(Unlink(next, list), next, Tail(q))
           /\ \A i \in 1 .. Len(Tail(q)) : Tail(q)[i] = q[i + 1] /\ Tail(q)[i] /= q[1]
           /\ Len(Tail(q)) = Len(q) - 1 /\ Tail(q) \in Seq(Pcb)
  <1> DEFINE r == Tail(q)
  <1>1. Len(q) \in Nat \ {0} /\ list.head = q[1] /\ list.tail = q[Len(q)]
    BY DEF Represents
  <1>2. r \in Seq(Pcb) /\ Len(r) = Len(q) - 1
    BY <1>1
  <1>3. \A i \in 1 .. Len(r) : i + 1 \in 1 .. Len(q) /\ r[i] = q[i + 1]
    BY <1>1
  <1>4. \A i \in 1 .. Len(q) : q[i] \in Pcb
    OBVIOUS
  <1>5. next[q[1]] = IF Len(q) = 1 THEN NULL ELSE r[1]
    <2>1. 1 \in 1 .. Len(q)
      BY <1>1
    <2>2. next[q[1]] = IF 1 = Len(q) THEN NULL ELSE q[1 + 1]
      BY <2>1, Zenon DEF Represents
    <2> QED BY <1>1, <1>2, <1>3, <2>2
  <1>6. NULL \notin Pcb
    BY KernelAssumption DEF Pcb, NULL
  <1> HIDE DEF r
  <1>7. \A i \in 1 .. Len(r) : r[i] \in Pcb
    BY <1>2
  <1>8. /\ Unlink(next, list).head = IF Len(r) = 0 THEN NULL ELSE r[1]
        /\ Unlink(next, list).tail = IF Len(r) = 0 THEN NULL ELSE r[Len(r)]
    <2>1. CASE Len(r) = 0
      BY <2>1, <1>1, <1>2, <1>5 DEF Unlink
    <2>2. CASE Len(r) /= 0
      <3>1. 1 \in 1 .. Len(r) /\ Len(r) \in 1 .. Len(r) /\ Len(r) + 1 = Len(q)
        BY <2>2, <1>1, <1>2
      <3>2. r[1] /= NULL /\ r[Len(r)] = q[Len(q)] /\ next[q[1]] = r[1]
        BY <3>1, <1>3, <1>5, <1>6, <1>7
      <3> QED BY <2>2, <3>2, <1>1 DEF Unlink
    <2> QED BY <2>1, <2>2
  <1>9. \A i \in 1 .. Len(r) : next[r[i]] = IF i = Len(r) THEN NULL ELSE r[i + 1]
    <2> SUFFICES ASSUME NEW i \in 1 .. Len(r)
                 PROVE  next[r[i]] = IF i = Len(r) THEN NULL ELSE r[i + 1]
      OBVIOUS
    <2>1. i + 1 \in 1 .. Len(q) /\ r[i] = q[i + 1]
      BY <1>3
    <2>2. next[q[i + 1]] = IF i + 1 = Len(q) THEN NULL ELSE q[(i + 1) + 1]
      BY <2>1 DEF Represents
    <2>3. CASE i = Len(r)
      BY <2>1, <2>2, <2>3, <1>1, <1>2
    <2>4. CASE i /= Len(r)
      <3>1. i + 1 \in 1 .. Len(r) /\ i + 1 /= Len(q)
        BY <2>4, <1>1, <1>2
      <3> QED BY <2>1, <2>2, <2>4, <3>1, <1>3
    <2> QED BY <2>3, <2>4
  <1>10. \A i, j \in 1 .. Len(q) : q[i] = q[j] => i = j
    BY DEF Represents
  <1>11. \A i \in 1 .. Len(r) : r[i] /= q[1]
    BY <1>1, <1>2, <1>3, <1>10
  <1>12. \A i, j \in 1 .. Len(r) : r[i] = r[j] => i = j
    <2> SUFFICES ASSUME NEW i \in 1 .. Len(r), NEW j \in 1 .. Len(r), r[i] = r[j]
                 PROVE  i = j
      OBVIOUS
    <2>1. i + 1 \in 1 .. Len(q) /\ j + 1 \in 1 .. Len(q) /\ q[i + 1] = q[j + 1]
      BY <1>3
    <2>2. i + 1 = j + 1
      BY <2>1, <1>10
    <2> QED BY <2>2
  <1>13. Unlink(next, list) \in ListType
    BY <1>1, <1>4 DEF Unlink, ListType, PcbPtr
  <1>14. Represents(Unlink(next, list), next, r)
    BY <1>8, <1>9, <1>12 DEF Represents
  <1> QED
    BY <1>1, <1>2, <1>3, <1>4, <1>11, <1>13, <1>14 DEF r

(* A list is represented as before when the next field of a PCB outside it
   changes. *)
LEMMA RepresentsFrame ==
    ASSUME NEW next \in [Pcb -> PcbPtr], NEW list \in ListType, NEW q \in Seq(Pcb),
           NEW p \in PcbPtr, NEW v \in PcbPtr, Represents(list, next, q),
           \A i \in 1 .. Len(q) : q[i] /= p
    PROVE  Represents(list, [next EXCEPT ![p] = v], q)
  <1>1. \A i \in 1 .. Len(q) : q[i] \in Pcb
    OBVIOUS
  <1> QED BY <1>1 DEF Represents

(* The walk along next that IrqTimerHandler's loop makes, started at the head of
   a list that represents q, meets the PCBs of q and ends. *)
LEMMA ChainIsQueue ==
    ASSUME NEW next \in [Pcb -> PcbPtr], NEW list \in ListType, NEW q \in Seq(Pcb),
           Represents(list, next, q)
    PROVE  Chain(next, list.head) = q
  <1> DEFINE h == list.head
             N == MAX_TASKS
             Walk(f, i) == IF i = 0 THEN h ELSE IF f[i - 1] = NULL THEN NULL ELSE next[f[i - 1]]
             node[i \in 0 .. N] ==
                 IF i = 0 THEN h ELSE IF node[i - 1] = NULL THEN NULL ELSE next[node[i - 1]]
             w == [i \in 0 .. N |-> IF i < Len(q) THEN q[i + 1] ELSE NULL]
             len == Cardinality({i \in 0 .. N - 1 : node[i] /= NULL})
  <1>0. /\ N \in Nat \ {0} /\ NULL \notin Pcb /\ Len(q) \in Nat
        /\ \A i \in 1 .. Len(q) : q[i] \in Pcb
    BY KernelAssumption DEF Pcb, NULL
  <1>1. Len(q) <= N
    <2>1. IsFiniteSet(Pcb) /\ Cardinality(Pcb) = N
      <3>1. 0 \in Int /\ N - 1 \in Int /\ ~(0 > N - 1) /\ N - 1 - 0 + 1 = N
        BY <1>0
      <3> QED BY <3>1, FS_Interval DEF Pcb
    <2>2. IsFiniteSet(1 .. Len(q)) /\ Cardinality(1 .. Len(q)) = Len(q)
      <3>1. 1 \in Int /\ Len(q) \in Int
        BY <1>0
      <3>2. IsFiniteSet(1 .. Len(q)) /\ Cardinality(1 .. Len(q)) = IF 1 > Len(q) THEN 0 ELSE Len(q) - 1 + 1
        BY <3>1, FS_Interval, Zenon
      <3> QED BY <1>0, <3>2
    <2>3. SUFFICES ASSUME N < Len(q) PROVE FALSE
      BY <1>0
    <2>4. q \in [1 .. Len(q) -> Pcb]
      OBVIOUS
    <2>5. \E x, y \in 1 .. Len(q) : x /= y /\ q[x] = q[y]
      BY <2>1, <2>2, <2>3, <2>4, FS_PigeonHole
    <2> QED BY <2>5 DEF Represents
  <1>2. ASSUME NEW i \in 0 .. N
        PROVE  w[i] = IF i = 0 THEN h ELSE IF w[i - 1] = NULL THEN NULL ELSE next[w[i - 1]]
    <2>1. CASE i = 0
      BY <2>1, <1>0 DEF Represents
    <2>2. CASE i /= 0 /\ i - 1 < Len(q)
      <3>1. w[i - 1] = q[i] /\ i \in 1 .. Len(q) /\ w[i - 1] /= NULL
        BY <2>2, <1>0
      <3>2. next[q[i]] = IF i = Len(q) THEN NULL ELSE q[i + 1]
        BY <3>1 DEF Represents
      <3> QED BY <2>2, <3>1, <3>2, <1>0
    <2>3. CASE i /= 0 /\ ~(i - 1 < Len(q))
      BY <2>3, <1>0
    <2> QED BY <2>1, <2>2, <2>3
  <1>3. w = [i \in 0 .. N |-> IF i = 0 THEN h ELSE IF w[i - 1] = NULL THEN NULL ELSE next[w[i - 1]]]
    BY <1>2, SMTT(30)
  <1>4. node = [i \in 0 .. N |-> IF i = 0 THEN h
                                 ELSE IF node[i - 1] = NULL THEN NULL ELSE next[node[i - 1]]]
    <2> HIDE DEF w
    <2> QED BY <1>3, Zenon
  <1> HIDE DEF node
  <1>5. 0 .. N \subseteq {i \in 0 .. N : node[i] = w[i]}
    <2> DEFINE S == {i \in 0 .. N : node[i] = w[i]}
    <2>1. 0 \in S
      <3>1. 0 \in 0 .. N
        BY <1>0
      <3> HIDE DEF w
      <3> QED BY <3>1, <1>2, <1>4
    <2>2. ASSUME NEW n \in 1 .. N, n - 1 \in S
          PROVE  n \in S
      <3>1. n \in 0 .. N /\ n /= 0 /\ n - 1 \in 0 .. N
        BY <1>0
      <3>2. node[n - 1] = w[n - 1]
        BY <2>2
      <3> HIDE DEF w
      <3> QED BY <3>1, <3>2, <1>2, <1>4
    <2> HIDE DEF S
    <2>3. 0 .. N \subseteq S
      BY <1>0, <2>1, <2>2, InductionUpTo, Zenon
    <2> QED BY <2>3 DEF S
  <1>6. {i \in 0 .. N - 1 : node[i] /= NULL} = 0 .. Len(q) - 1
    <2>1. \A i \in 0 .. N - 1 : i \in 0 .. N /\ node[i] = w[i]
      BY <1>0, <1>5
    <2>2. ASSUME NEW i \in 0 .. N - 1
          PROVE  node[i] /= NULL <=> i < Len(q)
      <3>1. node[i] = IF i < Len(q) THEN q[i + 1] ELSE NULL
        BY <2>1, Zenon
      <3>2. i < Len(q) => i + 1 \in 1 .. Len(q)
        BY <1>0
      <3> QED BY <1>0, <3>1, <3>2
    <2> QED BY <1>0, <1>1, <2>2
  <1>7. len = Len(q)
    <2>1. Cardinality(0 .. Len(q) - 1) = Len(q)
      <3>1. 0 \in Int /\ Len(q) - 1 \in Int
        BY <1>0
      <3>2. Cardinality(0 .. Len(q) - 1) = IF 0 > Len(q) - 1 THEN 0 ELSE Len(q) - 1 - 0 + 1
        BY <3>1, FS_Interval, Zenon
      <3> QED BY <1>0, <3>2
    <2> QED BY <1>6, <2>1, Zenon
  <1>8. Chain(next, h) = [i \in 1 .. len |-> node[i - 1]]
    BY DEF Chain, node
  <1> HIDE DEF len
  <1>9. \A i \in 1 .. Len(q) : node[i - 1] = q[i]
    <2>1. \A i \in 1 .. Len(q) : i - 1 \in 0 .. N /\ w[i - 1] = q[i]
      BY <1>0, <1>1
    <2> QED BY <1>5, <2>1, Zenon
  <1> QED BY <1>7, <1>8, <1>9

-----------------------------------------------------------------------------
(* The C functions, one lemma each.                                        *)

\* The kernel record inside an API call: interrupts off, no idling.
Mid(s, live) ==
    /\ KernelInv(s, live)
    /\ s.idle = NULL /\ s.currentPCB \in Pcb
    /\ butler \in live
    /\ \/ s.currentPCB \in live /\ s.state[s.currentPCB] = "RUNNING"
       \/ /\ s.taskChangePostponedFlag
          /\ s.currentPCB = butler /\ s.state[butler] = "PAUSED"
       \/ /\ s.taskChangePostponedFlag
          /\ s.currentPCB \notin live /\ s.state[s.currentPCB] = "TERMINATED"
          /\ Len(s.readyQ) /= 0
    /\ \A t \in live : t /= s.currentPCB =>
          \/ \E i \in 1 .. Len(s.readyQ) : s.readyQ[i] = t
          \/ t = butler /\ s.state[t] = "PAUSED"
    /\ s.state[butler] = "PAUSED" => Len(s.terminatedQ) = 0

Stable(s, live) == KernelInv(s, live) /\ PlaceInv(s, live) /\ Balanced(s)

\* What the list functions leave alone.
SameCpu(r, s) ==
    /\ r.currentPCB = s.currentPCB /\ r.idle = s.idle /\ r.intr = s.intr
    /\ r.irqDisableCounter = s.irqDisableCounter
    /\ r.postponeTaskCounter = s.postponeTaskCounter
    /\ r.taskChangePostponedFlag = s.taskChangePostponedFlag
    /\ r.used = s.used

(* AddReady on a PCB that is on no list: it becomes live, READY and the last of
   the ready list, and both lists stay whole. *)
LEMMA AddReadyInv ==
    ASSUME NEW s, NEW live \in SUBSET Pcb, KernelInv(s, live), NEW t \in Pcb,
           s.used[t], \A i \in 1 .. Len(s.readyQ) : s.readyQ[i] /= t,
           \A i \in 1 .. Len(s.terminatedQ) : s.terminatedQ[i] /= t
    PROVE  /\ KernelInv(AddReady(s, t), live \cup {t})
           /\ AddReady(s, t).readyQ = Append(s.readyQ, t)
           /\ AddReady(s, t).state = [s.state EXCEPT ![t] = "READY"]
           /\ AddReady(s, t).terminatedQ = s.terminatedQ
           /\ SameCpu(AddReady(s, t), s)
  <1> DEFINE r == AddReady(s, t)
             n0 == [s.next EXCEPT ![t] = NULL]
             n == Link(n0, s.readyList, t)
  <1>0. NULL \notin Pcb
    BY KernelAssumption DEF Pcb, NULL
  <1>1. r = [s EXCEPT !.state = [s.state EXCEPT ![t] = "READY"], !.next = n,
                      !.readyList = Extend(s.readyList, t),
                      !.readyQ = Append(s.readyQ, t)]
    BY <1>0 DEF AddReady
  <1>2. s \in KernelType
    BY DEF KernelInv
  <1>3. /\ r.state = [s.state EXCEPT ![t] = "READY"] /\ r.next = n
        /\ r.readyList = Extend(s.readyList, t) /\ r.readyQ = Append(s.readyQ, t)
        /\ r.terminatedList = s.terminatedList /\ r.terminatedQ = s.terminatedQ
        /\ r.used = s.used /\ r.sleepingList = s.sleepingList
    BY <1>1, <1>2 DEF KernelType
  <1>4. /\ s.next \in [Pcb -> PcbPtr] /\ n0 \in [Pcb -> PcbPtr] /\ n0[t] = NULL
        /\ s.readyList \in ListType /\ s.terminatedList \in ListType
        /\ s.readyQ \in Seq(Pcb) /\ s.terminatedQ \in Seq(Pcb)
    BY <1>2, Zenon DEF KernelType, ListType, PcbPtr
  <1>5. /\ Represents(s.readyList, n0, s.readyQ)
        /\ Represents(s.terminatedList, n0, s.terminatedQ)
    BY <1>4, RepresentsFrame, Zenon DEF KernelInv, PcbPtr
  <1>6. Represents(Extend(s.readyList, t), n, Append(s.readyQ, t))
    BY <1>4, <1>5, ExtendRepresents
  <1>7. s.readyList.head /= NULL =>
          s.readyList.tail \in live /\ n = [n0 EXCEPT ![s.readyList.tail] = t]
    BY <1>4 DEF Link, KernelInv, Represents
  <1>8. \A i \in 1 .. Len(s.terminatedQ) : s.terminatedQ[i] \notin live
    BY DEF KernelInv
  <1>9. Represents(s.terminatedList, n, s.terminatedQ)
    <2>1. CASE s.readyList.head = NULL
      BY <2>1, <1>5 DEF Link
    <2>2. CASE s.readyList.head /= NULL
      <3>1. /\ s.readyList.tail \in PcbPtr /\ t \in PcbPtr
            /\ \A i \in 1 .. Len(s.terminatedQ) : s.terminatedQ[i] /= s.readyList.tail
        BY <2>2, <1>7, <1>8 DEF PcbPtr
      <3>2. Represents(s.terminatedList, [n0 EXCEPT ![s.readyList.tail] = t], s.terminatedQ)
        BY <3>1, <1>4, <1>5, RepresentsFrame, Zenon
      <3> QED BY <2>2, <3>2, <1>7
    <2> QED BY <2>1, <2>2
  <1>10. n \in [Pcb -> PcbPtr] /\ Extend(s.readyList, t) \in ListType
    BY <1>4, <1>0, Zenon DEF Link, Extend, ListType, PcbPtr
  <1>11. r \in KernelType
    <2> DEFINE st == [s.state EXCEPT ![t] = "READY"]
               list == Extend(s.readyList, t)
               q == Append(s.readyQ, t)
    <2>1. st \in [Pcb -> State] /\ q \in Seq(Pcb)
      BY <1>2, <1>4 DEF KernelType, State
    <2>2. r = [s EXCEPT !.state = st, !.next = n, !.readyList = list, !.readyQ = q]
      BY <1>1
    <2>3. n \in [Pcb -> PcbPtr] /\ list \in ListType
      BY <1>10
    <2> HIDE DEF n, st, list, q, r
    <2> QED BY <1>2, <2>1, <2>2, <2>3, Zenon DEF KernelType, ListType
  <1>12. /\ Len(r.readyQ) = Len(s.readyQ) + 1 /\ r.readyQ[Len(r.readyQ)] = t
         /\ \A i \in 1 .. Len(s.readyQ) : r.readyQ[i] = s.readyQ[i]
    BY <1>3, <1>4
  <1>13. s.state \in [Pcb -> State] /\ \A i \in 1 .. Len(s.readyQ) :
           s.readyQ[i] \in live /\ s.state[s.readyQ[i]] = "READY"
    BY <1>2 DEF KernelInv, KernelType
  <1>14. \A i \in 1 .. Len(r.readyQ) :
           r.readyQ[i] \in live \cup {t} /\ r.state[r.readyQ[i]] = "READY"
    BY <1>3, <1>4, <1>12, <1>13
  <1>15. \A i \in 1 .. Len(r.terminatedQ) :
           r.terminatedQ[i] \notin live \cup {t} /\ r.used[r.terminatedQ[i]]
    BY <1>3 DEF KernelInv
  <1>16. ASSUME NEW u \in live \cup {t}
         PROVE  /\ r.used[u]
                /\ (\A i \in 1 .. Len(r.readyQ) : r.readyQ[i] /= u) => r.next[u] = NULL
    <2>1. r.used[u]
      BY <1>3 DEF KernelInv
    <2>2. ASSUME \A i \in 1 .. Len(r.readyQ) : r.readyQ[i] /= u
          PROVE  r.next[u] = NULL
      <3>1. u \in live /\ u /= t /\ \A i \in 1 .. Len(s.readyQ) : s.readyQ[i] /= u
        BY <2>2, <1>4, <1>12
      <3>2. s.next[u] = NULL
        BY <3>1 DEF KernelInv
      <3>3. s.readyList.head /= NULL => s.readyList.tail /= u
        BY <3>1, <1>4 DEF KernelInv, Represents
      <3> QED BY <3>1, <3>2, <3>3, <1>3, <1>4, <1>7 DEF Link
    <2> QED BY <2>1, <2>2
  <1>17. KernelInv(r, live \cup {t})
    BY <1>3, <1>6, <1>9, <1>11, <1>14, <1>15, <1>16 DEF KernelInv
  <1>18. SameCpu(r, s)
    BY <1>1, <1>2 DEF KernelType, SameCpu
  <1> QED BY <1>3, <1>17, <1>18

(* KernelInv is about the lists, next, used, and the state of the PCBs in the
   ready list only. *)
LEMMA KernelInvFrame ==
    ASSUME NEW s, NEW live \in SUBSET Pcb, KernelInv(s, live), NEW r \in KernelType,
           r.next = s.next, r.used = s.used, r.sleepingList = s.sleepingList,
           r.readyList = s.readyList, r.readyQ = s.readyQ,
           r.terminatedList = s.terminatedList, r.terminatedQ = s.terminatedQ,
           \A i \in 1 .. Len(s.readyQ) : r.state[s.readyQ[i]] = s.state[s.readyQ[i]]
    PROVE  KernelInv(r, live)
  BY DEF KernelInv

\* The same for a sleeping list that was found empty and is empty again.
LEMMA KernelInvNoSleeper ==
    ASSUME NEW s, NEW live \in SUBSET Pcb, KernelInv(s, live), NEW r \in KernelType,
           r.next = s.next, r.used = s.used, r.sleepingList.head = NULL,
           r.readyList = s.readyList, r.readyQ = s.readyQ,
           r.terminatedList = s.terminatedList, r.terminatedQ = s.terminatedQ,
           r.state = s.state
    PROVE  KernelInv(r, live)
  BY DEF KernelInv

(* NextReady takes the first PCB off the ready list and unlinks it; both lists
   stay whole. *)
LEMMA NextReadyInv ==
    ASSUME NEW s, NEW live \in SUBSET Pcb, KernelInv(s, live), s.readyList.head /= NULL
    PROVE  /\ KernelInv(NextReady(s), live)
           /\ Len(s.readyQ) \in Nat \ {0} /\ s.readyList.head = s.readyQ[1]
           /\ s.readyQ[1] \in live
           /\ Len(NextReady(s).readyQ) = Len(s.readyQ) - 1
           /\ \A i \in 1 .. Len(NextReady(s).readyQ) :
                 NextReady(s).readyQ[i] = s.readyQ[i + 1]
           /\ \A i \in 1 .. Len(NextReady(s).readyQ) :
                 NextReady(s).readyQ[i] /= s.readyQ[1]
           /\ NextReady(s).state = s.state
           /\ NextReady(s).terminatedQ = s.terminatedQ
           /\ SameCpu(NextReady(s), s)
  <1> DEFINE r == NextReady(s)
             list == Unlink(s.next, s.readyList)
             q == Tail(s.readyQ)
             h == s.readyQ[1]
             n == [s.next EXCEPT ![h] = NULL]
  <1>1. s \in KernelType
    BY DEF KernelInv
  <1>2. /\ s.next \in [Pcb -> PcbPtr] /\ s.readyList \in ListType
        /\ s.readyQ \in Seq(Pcb) /\ s.terminatedList \in ListType
        /\ s.terminatedQ \in Seq(Pcb)
    BY <1>1 DEF KernelType, ListType
  <1>3. /\ Len(s.readyQ) \in Nat \ {0} /\ s.readyList.head = h /\ h \in Pcb
        /\ list \in ListType /\ Represents(list, s.next, q)
        /\ \A i \in 1 .. Len(q) : q[i] = s.readyQ[i + 1] /\ q[i] /= h
        /\ Len(q) = Len(s.readyQ) - 1 /\ q \in Seq(Pcb)
    BY <1>2, UnlinkRepresents DEF KernelInv
  <1>4. r = [s EXCEPT !.readyList = list, !.next = n, !.readyQ = q]
    BY <1>1, <1>2, <1>3 DEF NextReady
  <1>5. n \in [Pcb -> PcbPtr] /\ n[h] = NULL /\ NULL \in PcbPtr /\ h \in PcbPtr
    BY <1>2, <1>3 DEF PcbPtr
  <1> HIDE DEF list, q, n, h
  <1>6. /\ r.readyList = list /\ r.next = n /\ r.readyQ = q /\ r.state = s.state
        /\ r.used = s.used /\ r.sleepingList = s.sleepingList
        /\ r.terminatedList = s.terminatedList /\ r.terminatedQ = s.terminatedQ
    BY <1>1, <1>4 DEF KernelType
  <1>7. r \in KernelType
    BY <1>1, <1>3, <1>4, <1>5, ZenonT(30) DEF KernelType, ListType
  <1>8. h \in live /\ \A i \in 1 .. Len(s.terminatedQ) : s.terminatedQ[i] /= h
    <2>1. 1 \in 1 .. Len(s.readyQ)
      BY <1>3
    <2> QED BY <2>1 DEF KernelInv, h
  <1>9. Represents(list, n, q)
    BY <1>2, <1>3, <1>5, RepresentsFrame, Zenon DEF n
  <1>10. Represents(s.terminatedList, n, s.terminatedQ)
    BY <1>2, <1>5, <1>8, RepresentsFrame, Zenon DEF n, KernelInv
  <1>11. \A i \in 1 .. Len(q) : i + 1 \in 1 .. Len(s.readyQ)
    BY <1>3
  <1>12. \A i \in 1 .. Len(q) : q[i] \in live /\ s.state[q[i]] = "READY"
    BY <1>3, <1>11 DEF KernelInv
  <1>13. ASSUME NEW t \in live, \A i \in 1 .. Len(q) : q[i] /= t
         PROVE  n[t] = NULL
    <2>1. CASE t = h
      BY <2>1, <1>5
    <2>2. CASE t /= h
      <3>1. ASSUME NEW i \in 1 .. Len(s.readyQ), s.readyQ[i] = t
            PROVE  FALSE
        <4>1. CASE i = 1
          BY <4>1, <3>1, <2>2 DEF h
        <4>2. CASE i /= 1
          <5>1. i - 1 \in 1 .. Len(q) /\ (i - 1) + 1 = i
            BY <4>2, <1>3
          <5>2. q[i - 1] = s.readyQ[i]
            BY <5>1, <1>3
          <5> QED BY <5>1, <5>2, <3>1, <1>13
        <4> QED BY <4>1, <4>2
      <3>2. s.next[t] = NULL
        BY <3>1 DEF KernelInv
      <3> QED BY <3>2, <2>2, <1>2 DEF n
    <2> QED BY <2>1, <2>2
  <1>14. KernelInv(r, live)
    <2> HIDE DEF r
    <2> QED BY <1>6, <1>7, <1>9, <1>10, <1>12, <1>13 DEF KernelInv
  <1>15. SameCpu(r, s)
    BY <1>1, <1>4 DEF KernelType, SameCpu
  <1> QED BY <1>3, <1>6, <1>8, <1>14, <1>15, SMTT(30) DEF h

(* AddTerminated on a live task that is on no list: it is dead and the last of
   the terminated list, and both lists stay whole. *)
LEMMA AddTerminatedInv ==
    ASSUME NEW s, NEW live \in SUBSET Pcb, KernelInv(s, live), NEW t \in live,
           \A i \in 1 .. Len(s.readyQ) : s.readyQ[i] /= t
    PROVE  /\ KernelInv(AddTerminated(s, t), live \ {t})
           /\ AddTerminated(s, t).terminatedQ = Append(s.terminatedQ, t)
           /\ AddTerminated(s, t).state = [s.state EXCEPT ![t] = "SLEEPING"]
           /\ AddTerminated(s, t).readyQ = s.readyQ
           /\ SameCpu(AddTerminated(s, t), s)
  <1> DEFINE r == AddTerminated(s, t)
             st == [s.state EXCEPT ![t] = "SLEEPING"]
             n == Link(s.next, s.terminatedList, t)
             list == Extend(s.terminatedList, t)
             q == Append(s.terminatedQ, t)
  <1>0. NULL \notin Pcb /\ t \in Pcb
    BY KernelAssumption DEF Pcb, NULL
  <1>1. s \in KernelType
    BY DEF KernelInv
  <1>2. r = [s EXCEPT !.state = st, !.next = n, !.terminatedList = list,
                      !.terminatedQ = q]
    BY <1>0, <1>1 DEF AddTerminated
  <1>3. /\ s.next \in [Pcb -> PcbPtr] /\ s.readyList \in ListType
        /\ s.readyQ \in Seq(Pcb) /\ s.terminatedList \in ListType
        /\ s.terminatedQ \in Seq(Pcb) /\ s.state \in [Pcb -> State]
    BY <1>1 DEF KernelType, ListType
  <1>4. /\ s.next[t] = NULL /\ s.used[t]
        /\ \A i \in 1 .. Len(s.terminatedQ) : s.terminatedQ[i] /= t
    BY DEF KernelInv
  <1>5. Represents(list, n, q)
    BY <1>0, <1>3, <1>4, ExtendRepresents DEF KernelInv
  <1>6. s.terminatedList.head /= NULL =>
          /\ s.terminatedList.tail \in Pcb \ live
          /\ n = [s.next EXCEPT ![s.terminatedList.tail] = t]
    BY <1>3 DEF Link, KernelInv, Represents
  <1>7. Represents(s.readyList, n, s.readyQ)
    <2>1. CASE s.terminatedList.head = NULL
      BY <2>1 DEF Link, KernelInv
    <2>2. CASE s.terminatedList.head /= NULL
      <3>1. /\ s.terminatedList.tail \in PcbPtr /\ t \in PcbPtr
            /\ \A i \in 1 .. Len(s.readyQ) : s.readyQ[i] /= s.terminatedList.tail
        BY <2>2, <1>0, <1>6 DEF PcbPtr, KernelInv
      <3>2. Represents(s.readyList, [s.next EXCEPT ![s.terminatedList.tail] = t], s.readyQ)
        BY <3>1, <1>3, RepresentsFrame, Zenon DEF KernelInv
      <3> QED BY <2>2, <3>2, <1>6
    <2> QED BY <2>1, <2>2
  <1>8. /\ n \in [Pcb -> PcbPtr] /\ list \in ListType /\ q \in Seq(Pcb)
        /\ st \in [Pcb -> State]
    <2>1. n \in [Pcb -> PcbPtr] /\ list \in ListType
      BY <1>3, <1>0, Zenon DEF Link, Extend, ListType, PcbPtr
    <2>2. q \in Seq(Pcb)
      BY <1>3, <1>0
    <2>3. st \in [Pcb -> State]
      BY <1>3 DEF State
    <2> QED BY <2>1, <2>2, <2>3
  <1>9. /\ Len(q) = Len(s.terminatedQ) + 1 /\ q[Len(q)] = t
        /\ \A i \in 1 .. Len(s.terminatedQ) : q[i] = s.terminatedQ[i]
    BY <1>0, <1>3
  <1>10. ASSUME NEW i \in 1 .. Len(s.readyQ)
         PROVE  s.readyQ[i] \in live \ {t} /\ st[s.readyQ[i]] = "READY"
    <2>1. s.readyQ[i] \in live /\ s.state[s.readyQ[i]] = "READY" /\ s.readyQ[i] /= t
      BY DEF KernelInv
    <2> QED BY <2>1, <1>3
  <1>11. ASSUME NEW u \in live \ {t}, \A i \in 1 .. Len(s.readyQ) : s.readyQ[i] /= u
         PROVE  n[u] = NULL
    <2>1. s.next[u] = NULL
      BY <1>11 DEF KernelInv
    <2> QED BY <2>1, <1>3, <1>6 DEF Link
  <1> HIDE DEF list, q, n, st
  <1>12. /\ r.state = st /\ r.next = n /\ r.terminatedList = list /\ r.terminatedQ = q
         /\ r.readyList = s.readyList /\ r.readyQ = s.readyQ
         /\ r.used = s.used /\ r.sleepingList = s.sleepingList
    BY <1>1, <1>2 DEF KernelType
  <1>13. r \in KernelType
    BY <1>1, <1>2, <1>8, ZenonT(30) DEF KernelType, ListType
  <1>14. \A i \in 1 .. Len(q) : q[i] \notin live \ {t} /\ s.used[q[i]]
    BY <1>3, <1>4, <1>9 DEF KernelInv
  <1>15. KernelInv(r, live \ {t})
    <2> HIDE DEF r
    <2>1. \A u \in live \ {t} : r.used[u]
      BY <1>12 DEF KernelInv
    <2>2. r.sleepingList.head = NULL
      BY <1>12 DEF KernelInv
    <2> QED BY <1>5, <1>7, <1>10, <1>11, <1>12, <1>13, <1>14, <2>1, <2>2 DEF KernelInv
  <1>16. SameCpu(r, s)
    BY <1>1, <1>2, SMTT(30) DEF KernelType, SameCpu
  <1> QED BY <1>12, <1>15, <1>16 DEF st, q

(* The lock counters, the flag and the interrupt flag may take any value of
   their types. *)
LEMMA LockFieldsType ==
    ASSUME NEW s \in KernelType, NEW m \in Int, NEW n \in Int,
           NEW b \in BOOLEAN, NEW c \in BOOLEAN
    PROVE  /\ [s EXCEPT !.postponeTaskCounter = m,
                        !.taskChangePostponedFlag = b] \in KernelType
           /\ [s EXCEPT !.irqDisableCounter = n, !.intr = c] \in KernelType
           /\ \A x, y \in PcbPtr :
                 [s EXCEPT !.idle = x, !.currentPCB = y, !.intr = c] \in KernelType
  BY Zenon DEF KernelType

(* A PCB of the ready list is neither the current task, which is not READY
   inside an API call, nor a dead one. *)
LEMMA KernelInvIsTyped ==
    ASSUME NEW s, NEW live, KernelInv(s, live)
    PROVE  s \in KernelType
  BY Zenon DEF KernelInv

LEMMA MidFacts ==
    ASSUME NEW s, NEW live \in SUBSET Pcb, Mid(s, live)
    PROVE  /\ s \in KernelType /\ KernelInv(s, live)
           /\ s.state[s.currentPCB] /= "READY"
           /\ \A i \in 1 .. Len(s.readyQ) : s.readyQ[i] /= s.currentPCB
  BY DEF Mid, KernelInv

\* What the unlock that ends an API call in s does to the CPU and the ready list.
Handover(s, r) ==
    LET c == s.currentPCB
        runs == s.state[c] = "RUNNING"
    IN  \/ /\ ~s.taskChangePostponedFlag \/ (s.readyQ = <<>> /\ runs)
           /\ r.readyQ = s.readyQ /\ r.currentPCB = c
        \/ /\ s.taskChangePostponedFlag /\ s.readyQ = <<>> /\ ~runs
           /\ r.readyQ = <<>> /\ r.currentPCB = NULL
        \/ /\ s.taskChangePostponedFlag /\ s.readyQ /= <<>>
           /\ r.currentPCB = Head(s.readyQ)
           /\ r.readyQ = IF runs THEN Append(Tail(s.readyQ), c) ELSE Tail(s.readyQ)

(* Schedule, called with one lock held and no task change postponed, either
   leaves a task running or goes idle, and loses none: a task that is still
   RUNNING is back on the ready list. *)
LEMMA ScheduleStable ==
    ASSUME NEW s, NEW live \in SUBSET Pcb, Mid(s, live),
           s.postponeTaskCounter = 1, s.irqDisableCounter = 1, s.intr = FALSE,
           s.taskChangePostponedFlag
    PROVE  /\ Stable(UnlockAndSchedule(s), live)
           /\ UnlockAndSchedule(s).used = s.used
           /\ UnlockAndSchedule(s).terminatedQ = s.terminatedQ
           /\ Handover(s, UnlockAndSchedule(s))
  <1> DEFINE p == [s EXCEPT !.postponeTaskCounter = 0, !.taskChangePostponedFlag = FALSE]
             c == s.currentPCB
             h == s.readyList.head
  <1>1. s \in KernelType /\ KernelInv(s, live) /\ c \in Pcb /\ s.idle = NULL
    BY MidFacts DEF Mid
  <1>2. /\ p.state = s.state /\ p.next = s.next /\ p.used = s.used
        /\ p.sleepingList = s.sleepingList /\ p.readyList = s.readyList
        /\ p.readyQ = s.readyQ /\ p.terminatedList = s.terminatedList
        /\ p.terminatedQ = s.terminatedQ /\ p.currentPCB = c /\ p.idle = NULL
        /\ p.intr = FALSE /\ p.irqDisableCounter = 1 /\ p.postponeTaskCounter = 0
        /\ p.taskChangePostponedFlag = FALSE
    BY <1>1 DEF KernelType
  <1>3. p \in KernelType
    BY <1>1, 0 \in Int, FALSE \in BOOLEAN, LockFieldsType, Zenon
  <1>4. KernelInv(p, live)
    BY <1>1, <1>2, <1>3, KernelInvFrame, Zenon
  <1>5. UnlockAndSchedule(s) =
          IF Schedule(p).idle /= NULL THEN Schedule(p) ELSE UnlockScheduler(Schedule(p))
    <2>1. [[s EXCEPT !.postponeTaskCounter = @ - 1] EXCEPT !.taskChangePostponedFlag = FALSE] = p
      BY <1>1 DEF KernelType
    <2>2. [s EXCEPT !.postponeTaskCounter = @ - 1].postponeTaskCounter = 0
      BY <1>1 DEF KernelType
    <2>3. [s EXCEPT !.postponeTaskCounter = @ - 1].taskChangePostponedFlag
      BY <1>1 DEF KernelType
    <2> HIDE DEF p
    <2> QED BY <2>1, <2>2, <2>3 DEF UnlockAndSchedule
  <1> HIDE DEF p
  <1>6. p.readyList.head = h /\ NULL \notin Pcb
    BY <1>2, KernelAssumption DEF Pcb, NULL
  <1>7. CASE h = NULL /\ s.state[c] = "RUNNING"
    <2>1. Schedule(p) = p
      BY <1>2, <1>6, <1>7 DEF Schedule
    <2> DEFINE u == UnlockScheduler(p)
    <2>2. UnlockAndSchedule(s) = u
      BY <1>2, <1>5, <2>1
    <2>3. u = [p EXCEPT !.irqDisableCounter = 0, !.intr = TRUE]
      BY <1>2, <1>3 DEF UnlockScheduler, KernelType
    <2>4. u \in KernelType
      BY <1>3, <2>3, 0 \in Int, TRUE \in BOOLEAN, LockFieldsType, Zenon
    <2>5. /\ u.state = p.state /\ u.next = p.next /\ u.used = p.used
          /\ u.sleepingList = p.sleepingList /\ u.readyList = p.readyList
          /\ u.readyQ = p.readyQ /\ u.terminatedList = p.terminatedList
          /\ u.terminatedQ = p.terminatedQ /\ u.currentPCB = c /\ u.idle = NULL
          /\ u.intr = TRUE /\ u.irqDisableCounter = 0 /\ u.postponeTaskCounter = 0
          /\ u.taskChangePostponedFlag = FALSE
      BY <1>2, <1>3, <2>3 DEF KernelType
    <2> HIDE DEF u
    <2>6. KernelInv(u, live)
      BY <1>4, <2>4, <2>5, KernelInvFrame
    <2>7. Balanced(u)
      BY <2>5 DEF Balanced
    <2>8. PlaceInv(u, live)
      BY <1>2, <1>6, <1>7, <2>5 DEF PlaceInv, Mid
    <2>9. s.readyQ = <<>>
      BY <1>1, <1>6, <1>7 DEF KernelInv, Represents, KernelType
    <2>10. Handover(s, u)
      BY <1>2, <1>7, <2>5, <2>9 DEF Handover
    <2> QED BY <1>2, <2>2, <2>5, <2>6, <2>7, <2>8, <2>10 DEF Stable
  <1>8. CASE h = NULL /\ s.state[c] /= "RUNNING"
    <2> DEFINE u == [p EXCEPT !.idle = c, !.currentPCB = NULL, !.intr = TRUE]
    <2>1. Schedule(p) = u
      BY <1>2, <1>6, <1>8 DEF Schedule
    <2>2. /\ u.state = p.state /\ u.next = p.next /\ u.used = p.used
          /\ u.sleepingList = p.sleepingList /\ u.readyList = p.readyList
          /\ u.readyQ = p.readyQ /\ u.terminatedList = p.terminatedList
          /\ u.terminatedQ = p.terminatedQ /\ u.currentPCB = NULL /\ u.idle = c
          /\ u.intr = TRUE /\ u.irqDisableCounter = 1 /\ u.postponeTaskCounter = 0
          /\ u.taskChangePostponedFlag = FALSE
      BY <1>2, <1>3 DEF KernelType
    <2>3. u \in KernelType
      <3>1. c \in PcbPtr /\ NULL \in PcbPtr
        BY <1>1 DEF PcbPtr
      <3> QED BY <3>1, <1>3, 0 \in Int, TRUE \in BOOLEAN, LockFieldsType, Zenon
    <2> HIDE DEF u
    <2>4. UnlockAndSchedule(s) = u
      BY <1>1, <1>5, <1>6, <2>1, <2>2
    <2>5. KernelInv(u, live)
      BY <1>4, <2>2, <2>3, KernelInvFrame
    <2>6. Balanced(u)
      BY <1>1, <1>6, <2>2 DEF Balanced
    <2>7. Len(s.readyQ) = 0
      BY <1>1, <1>6, <1>8, SMTT(30) DEF KernelInv, Represents, KernelType
    <2>8. PlaceInv(u, live)
      BY <1>1, <1>2, <1>6, <1>8, <2>2, <2>7 DEF PlaceInv, Mid
    <2>9. s.readyQ = <<>>
      BY <1>1, <2>7 DEF KernelType
    <2>10. Handover(s, u)
      BY <1>2, <1>8, <2>2, <2>9 DEF Handover
    <2> QED BY <1>2, <2>2, <2>4, <2>5, <2>6, <2>8, <2>10 DEF Stable
  <1>9. CASE h /= NULL
    <2> DEFINE m == NextReady(p)
               d == [m EXCEPT !.quantumLeft[h] = TIMESLICE]
    <2>1. /\ KernelInv(m, live)
          /\ Len(s.readyQ) \in Nat \ {0} /\ h = s.readyQ[1]
          /\ h \in live /\ Len(m.readyQ) = Len(s.readyQ) - 1
          /\ \A i \in 1 .. Len(m.readyQ) : m.readyQ[i] = s.readyQ[i + 1]
          /\ \A i \in 1 .. Len(m.readyQ) : m.readyQ[i] /= h
          /\ m.state = s.state /\ m.terminatedQ = s.terminatedQ /\ SameCpu(m, p)
      <3>1. p.readyList.head /= NULL
        BY <1>6, <1>9
      <3>2. /\ KernelInv(NextReady(p), live)
            /\ Len(p.readyQ) \in Nat \ {0} /\ p.readyList.head = p.readyQ[1]
            /\ p.readyQ[1] \in live
            /\ Len(NextReady(p).readyQ) = Len(p.readyQ) - 1
            /\ \A i \in 1 .. Len(NextReady(p).readyQ) :
                  NextReady(p).readyQ[i] = p.readyQ[i + 1]
            /\ \A i \in 1 .. Len(NextReady(p).readyQ) :
                  NextReady(p).readyQ[i] /= p.readyQ[1]
            /\ NextReady(p).state = p.state
            /\ NextReady(p).terminatedQ = p.terminatedQ
            /\ SameCpu(NextReady(p), p)
        BY <1>4, <3>1, NextReadyInv, Zenon
      <3>3. p.readyQ = s.readyQ /\ p.state = s.state /\ p.terminatedQ = s.terminatedQ
        BY <1>2
      <3> QED BY <1>6, <3>2, <3>3
    <2> HIDE DEF m
    <2>2. m \in KernelType
      BY <2>1 DEF KernelInv
    <2>3. d \in KernelType
      <3>1. m.quantumLeft \in [Pcb -> 0 .. 1] /\ h \in Pcb
        BY <2>1, <2>2 DEF KernelType, TIMESLICE
      <3>2. [m.quantumLeft EXCEPT ![h] = 1] \in [Pcb -> 0 .. 1]
        BY <3>1
      <3> QED BY <2>2, <3>2, Zenon DEF KernelType, TIMESLICE
    <2>4. /\ d.state = m.state /\ d.next = m.next /\ d.used = m.used
          /\ d.sleepingList = m.sleepingList /\ d.readyList = m.readyList
          /\ d.readyQ = m.readyQ /\ d.terminatedList = m.terminatedList
          /\ d.terminatedQ = m.terminatedQ /\ SameCpu(d, m)
      BY <2>2 DEF KernelType, SameCpu
    <2> HIDE DEF d
    <2>5. KernelInv(d, live)
      BY <2>1, <2>3, <2>4, KernelInvFrame
    <2> DEFINE a == IF s.state[c] = "RUNNING" THEN AddReady(d, c) ELSE d
               u == [a EXCEPT !.currentPCB = h, !.state[h] = "RUNNING"]
    <2>6. Schedule(p) = u
      <3>1. d.postponeTaskCounter = 0 /\ d.currentPCB = c /\ d.state[c] = s.state[c]
        BY <1>2, <2>1, <2>4 DEF SameCpu
      <3>2. Schedule(p) = SwitchToTask(d, h)
        BY <1>2, <1>6, <1>9 DEF Schedule, Dispatch, d, m
      <3> QED BY <3>1, <3>2, ZenonT(30) DEF SwitchToTask
    <2>7. \A i \in 1 .. Len(s.readyQ) : s.readyQ[i] /= c
      BY MidFacts
    <2>8. \A i \in 1 .. Len(m.readyQ) : i + 1 \in 1 .. Len(s.readyQ)
      BY <2>1
    <2>9. h /= c /\ \A i \in 1 .. Len(m.readyQ) : m.readyQ[i] /= c
      BY <2>1, <2>7, <2>8, SMTT(30)
    <2>10. /\ KernelInv(a, live) /\ a.terminatedQ = s.terminatedQ /\ SameCpu(a, p)
           /\ s.state[c] = "RUNNING" => a.readyQ = Append(m.readyQ, c)
           /\ s.state[c] /= "RUNNING" => a.readyQ = m.readyQ
           /\ \A t \in Pcb \ {c} : a.state[t] = s.state[t]
           /\ \A i \in 1 .. Len(a.readyQ) : a.readyQ[i] /= h
           /\ \A i \in 1 .. Len(m.readyQ) :
                 \E j \in 1 .. Len(a.readyQ) : a.readyQ[j] = m.readyQ[i]
           /\ s.state[c] = "RUNNING" => \E j \in 1 .. Len(a.readyQ) : a.readyQ[j] = c
      <3>1. CASE s.state[c] = "RUNNING"
        <4>1. c \in live
          BY <3>1 DEF Mid
        <4>2. /\ d.used[c] /\ \A i \in 1 .. Len(d.readyQ) : d.readyQ[i] /= c
              /\ \A i \in 1 .. Len(d.terminatedQ) : d.terminatedQ[i] /= c
          BY <2>4, <2>5, <2>9, <4>1 DEF KernelInv
        <4>3. /\ KernelInv(AddReady(d, c), live \cup {c})
              /\ AddReady(d, c).readyQ = Append(d.readyQ, c)
              /\ AddReady(d, c).state = [d.state EXCEPT ![c] = "READY"]
              /\ AddReady(d, c).terminatedQ = d.terminatedQ
              /\ SameCpu(AddReady(d, c), d)
          BY <1>1, <2>5, <4>2, AddReadyInv, Zenon
        <4>4. live \cup {c} = live /\ a = AddReady(d, c)
          BY <3>1, <4>1
        <4> HIDE DEF a
        <4>5. KernelInv(a, live) /\ a.terminatedQ = s.terminatedQ
          BY <2>1, <2>4, <4>3, <4>4, Zenon
        <4>6. SameCpu(a, p)
          BY <2>1, <2>4, <4>3, <4>4 DEF SameCpu
        <4>7. a.readyQ = Append(m.readyQ, c)
          BY <2>4, <4>3, <4>4
        <4>8. m.readyQ \in Seq(Pcb) /\ s.state \in [Pcb -> State]
          BY <1>1, <2>2 DEF KernelType
        <4>9. \A t \in Pcb \ {c} : a.state[t] = s.state[t]
          BY <2>1, <2>4, <4>3, <4>4, <4>8
        <4>10. /\ Len(a.readyQ) = Len(m.readyQ) + 1 /\ a.readyQ[Len(a.readyQ)] = c
               /\ \A i \in 1 .. Len(m.readyQ) : a.readyQ[i] = m.readyQ[i]
          BY <1>1, <4>7, <4>8
        <4>11. \A i \in 1 .. Len(a.readyQ) : a.readyQ[i] /= h
          <5>1. \A i \in 1 .. Len(m.readyQ) : m.readyQ[i] /= h
            BY <2>1
          <5>2. Len(m.readyQ) \in Nat
            BY <4>8
          <5> QED BY <2>9, <4>10, <5>1, <5>2
        <4>12. /\ \A i \in 1 .. Len(m.readyQ) :
                     \E j \in 1 .. Len(a.readyQ) : a.readyQ[j] = m.readyQ[i]
               /\ \E j \in 1 .. Len(a.readyQ) : a.readyQ[j] = c
          <5>1. Len(m.readyQ) \in Nat
            BY <4>8
          <5> QED BY <4>10, <5>1
        <4> QED BY <3>1, <4>5, <4>6, <4>7, <4>9, <4>11, <4>12, Zenon
      <3>2. CASE s.state[c] /= "RUNNING"
        <4>1. a = d
          BY <3>2
        <4> HIDE DEF a
        <4>2. SameCpu(a, p)
          BY <2>1, <2>4, <4>1 DEF SameCpu
        <4>3. /\ KernelInv(a, live) /\ a.terminatedQ = s.terminatedQ
              /\ a.readyQ = m.readyQ /\ a.state = s.state
          BY <2>1, <2>4, <2>5, <4>1, Zenon
        <4>4. \A i \in 1 .. Len(a.readyQ) : a.readyQ[i] /= h
          BY <2>1, <4>3, Zenon
        <4> QED BY <3>2, <4>2, <4>3, <4>4, Zenon
      <3> QED BY <3>1, <3>2, Zenon
    <2> HIDE DEF a
    <2> DEFINE v == UnlockScheduler(u)
    <2>11. a \in KernelType /\ h \in Pcb /\ h \in PcbPtr
      BY <2>1, <2>10, Zenon DEF KernelInv, PcbPtr
    <2>12. u.idle = NULL /\ v = [a EXCEPT !.currentPCB = h,
                                         !.state = [a.state EXCEPT ![h] = "RUNNING"],
                                         !.irqDisableCounter = 0, !.intr = TRUE]
      <3>1. a.idle = NULL /\ a.irqDisableCounter = 1
        BY <1>2, <2>10 DEF SameCpu
      <3>2. u = [a EXCEPT !.currentPCB = h, !.state = [a.state EXCEPT ![h] = "RUNNING"]]
        BY <2>11 DEF KernelType
      <3>3. u.idle = NULL /\ u.irqDisableCounter = 1
        BY <2>11, <3>1, <3>2 DEF KernelType
      <3>4. v = [u EXCEPT !.irqDisableCounter = 0, !.intr = TRUE]
        <4> HIDE DEF u
        <4>1. u.irqDisableCounter - 1 = 0
          BY <3>3
        <4> QED BY <4>1, Zenon DEF UnlockScheduler
      <3> QED BY <3>2, <3>3, <3>4
    <2>13. UnlockAndSchedule(s) = v
      BY <1>5, <2>6, <2>12
    <2>14. /\ v.state = [a.state EXCEPT ![h] = "RUNNING"] /\ v.next = a.next
           /\ v.used = a.used /\ v.sleepingList = a.sleepingList
           /\ v.readyList = a.readyList /\ v.readyQ = a.readyQ
           /\ v.terminatedList = a.terminatedList /\ v.terminatedQ = a.terminatedQ
           /\ v.currentPCB = h /\ v.idle = NULL /\ v.intr = TRUE
           /\ v.irqDisableCounter = 0 /\ v.postponeTaskCounter = 0
           /\ v.taskChangePostponedFlag = FALSE
      <3>1. /\ a.idle = NULL /\ a.postponeTaskCounter = 0
            /\ a.taskChangePostponedFlag = FALSE
        BY <1>2, <2>10 DEF SameCpu
      <3> HIDE DEF v
      <3> QED BY <2>11, <2>12, <3>1 DEF KernelType
    <2>15. v \in KernelType
      <3> DEFINE st == [a.state EXCEPT ![h] = "RUNNING"]
      <3>1. st \in [Pcb -> State]
        BY <2>11 DEF KernelType, State
      <3>2. v = [a EXCEPT !.currentPCB = h, !.state = st, !.irqDisableCounter = 0,
                          !.intr = TRUE]
        BY <2>12
      <3>3. 0 \in Int /\ TRUE \in BOOLEAN
        OBVIOUS
      <3>4. [a EXCEPT !.currentPCB = h, !.state = st] \in KernelType
        <4> HIDE DEF st
        <4> QED BY <2>11, <3>1, Zenon DEF KernelType
      <3> DEFINE b == [a EXCEPT !.currentPCB = h, !.state = st]
      <3>5. v = [b EXCEPT !.irqDisableCounter = 0, !.intr = TRUE]
        <4> HIDE DEF st, v
        <4> QED BY <2>11, <3>2 DEF KernelType
      <3>6. b \in KernelType
        BY <3>4
      <3> HIDE DEF b, st, v
      <3> QED BY <3>3, <3>5, <3>6, Zenon DEF KernelType
    <2> HIDE DEF v, u
    <2>16. a.state \in [Pcb -> State] /\ \A t \in Pcb \ {h} : v.state[t] = a.state[t]
      BY <2>11, <2>14 DEF KernelType
    <2>17. \A i \in 1 .. Len(a.readyQ) : a.readyQ[i] \in Pcb
      BY <2>10 DEF KernelInv
    <2>18. KernelInv(v, live)
      BY <2>10, <2>14, <2>15, <2>16, <2>17, KernelInvFrame, SMTT(30)
    <2>19. Balanced(v)
      BY <2>14 DEF Balanced
    <2>20. v.state[h] = "RUNNING"
      BY <2>11, <2>14, <2>16
    <2>21. ASSUME NEW t \in live, t /= h
           PROVE  \/ \E i \in 1 .. Len(v.readyQ) : v.readyQ[i] = t
                  \/ t = butler /\ v.state[t] = "PAUSED"
      <3>1. CASE t = c
        <4>1. CASE s.state[c] = "RUNNING"
          BY <3>1, <4>1, <2>10, <2>14
        <4>2. CASE s.state[c] /= "RUNNING"
          <5>1. c = butler /\ s.state[c] = "PAUSED"
            BY <3>1, <4>2 DEF Mid
          <5>2. a.state[c] = s.state[c]
            BY <4>2, <2>1, <2>4 DEF a
          <5>3. v.state[t] = a.state[t]
            BY <1>1, <2>16, <2>21, <3>1
          <5> QED BY <3>1, <5>1, <5>2, <5>3
        <4> QED BY <4>1, <4>2
      <3>2. CASE t /= c /\ \E i \in 1 .. Len(s.readyQ) : s.readyQ[i] = t
        <4>1. PICK i \in 1 .. Len(s.readyQ) : s.readyQ[i] = t
          BY <3>2
        <4>2. i /= 1
          BY <4>1, <2>1, <2>21
        <4>3. i - 1 \in 1 .. Len(m.readyQ) /\ (i - 1) + 1 = i
          BY <4>2, <2>1
        <4>4. m.readyQ[i - 1] = t
          BY <4>1, <4>3, <2>1
        <4>5. PICK j \in 1 .. Len(a.readyQ) : a.readyQ[j] = m.readyQ[i - 1]
          BY <4>3, <2>10, Zenon
        <4> QED BY <4>4, <4>5, <2>14
      <3>3. CASE t /= c /\ t = butler /\ s.state[t] = "PAUSED"
        BY <3>3, <2>10, <2>16, <2>21
      <3> QED BY <3>1, <3>2, <3>3 DEF Mid
    <2>22. v.state[butler] = "PAUSED" => Len(v.terminatedQ) = 0
      <3>1. butler \in Pcb
        BY KernelAssumption DEF butler, Pcb
      <3>2. CASE butler = h
        BY <3>2, <2>20
      <3>3. CASE butler /= h /\ butler = c /\ s.state[c] = "RUNNING"
        <4>1. PICK i \in 1 .. Len(a.readyQ) : a.readyQ[i] = c
          BY <3>3, <2>10
        <4>2. a.state[c] = "READY"
          BY <4>1, <2>10 DEF KernelInv
        <4> QED BY <3>1, <3>3, <4>2, <2>16
      <3>4. CASE butler /= h /\ butler = c /\ s.state[c] /= "RUNNING"
        BY <3>4, <2>10, <2>14 DEF Mid
      <3>5. CASE butler /= h /\ butler /= c
        BY <3>1, <3>5, <2>10, <2>14, <2>16 DEF Mid
      <3> QED BY <3>2, <3>3, <3>4, <3>5
    <2>23. PlaceInv(v, live)
      BY <1>6, <2>1, <2>11, <2>14, <2>20, <2>21, <2>22 DEF PlaceInv
    <2>24. v.used = s.used /\ v.terminatedQ = s.terminatedQ
      BY <1>2, <2>10, <2>14 DEF SameCpu
    <2>25. Handover(s, v)
      <3>1. m.readyQ = Tail(s.readyQ)
        <4>1. p.readyList.head /= NULL /\ p.readyQ = s.readyQ
          BY <1>2, <1>6, <1>9
        <4> QED BY <1>3, <4>1 DEF m, NextReady, KernelType
      <3>2. s.readyQ \in Seq(Pcb) /\ s.readyQ /= <<>> /\ h = Head(s.readyQ)
        BY <1>1, <2>1 DEF KernelType
      <3> QED BY <2>10, <2>14, <3>1, <3>2, Zenon DEF Handover
    <2> QED BY <2>13, <2>18, <2>19, <2>23, <2>24, <2>25 DEF Stable
  <1> QED BY <1>7, <1>8, <1>9
\* The lists and tasks of s, whatever its locks.
SameData(r, s) ==
    /\ r.state = s.state /\ r.next = s.next /\ r.used = s.used
    /\ r.readyList = s.readyList /\ r.readyQ = s.readyQ
    /\ r.terminatedList = s.terminatedList /\ r.terminatedQ = s.terminatedQ
    /\ r.sleepingList = s.sleepingList
    /\ r.currentPCB = s.currentPCB /\ r.idle = s.idle

(* LockAndPostpone changes the lock counters and nothing else. *)
LEMMA LockData ==
    ASSUME NEW s \in KernelType
    PROVE  /\ LockAndPostpone(s) \in KernelType /\ SameData(LockAndPostpone(s), s)
           /\ LockAndPostpone(s).postponeTaskCounter = s.postponeTaskCounter + 1
           /\ LockAndPostpone(s).irqDisableCounter = s.irqDisableCounter + 1
           /\ LockAndPostpone(s).intr = FALSE
           /\ LockAndPostpone(s).taskChangePostponedFlag = s.taskChangePostponedFlag
           /\ LockAndPostpone(s).quantumLeft = s.quantumLeft
           /\ LockAndPostpone(s).due = s.due
  <1> DEFINE l == LockAndPostpone(s)
             m == s.irqDisableCounter + 1
             n == s.postponeTaskCounter + 1
  <1>1. m \in Int /\ n \in Int /\ FALSE \in BOOLEAN
    BY DEF KernelType
  <1>2. l = [s EXCEPT !.intr = FALSE, !.irqDisableCounter = m, !.postponeTaskCounter = n]
    BY DEF LockAndPostpone, LockScheduler, KernelType
  <1>3. m = s.irqDisableCounter + 1 /\ n = s.postponeTaskCounter + 1
    OBVIOUS
  <1> HIDE DEF l, m, n
  <1>4. l \in KernelType
    BY <1>1, <1>2, Zenon DEF KernelType
  <1>5. /\ l.postponeTaskCounter = n /\ l.irqDisableCounter = m /\ l.intr = FALSE
        /\ l.taskChangePostponedFlag = s.taskChangePostponedFlag
        /\ l.quantumLeft = s.quantumLeft /\ l.due = s.due
    BY <1>2 DEF KernelType
  <1>6. SameData(l, s)
    BY <1>2 DEF KernelType, SameData
  <1> QED BY <1>3, <1>4, <1>5, <1>6 DEF l

(* UnlockAndSchedule with no task change to make, because none is postponed or
   an outer lock is still held, changes the lock counters and nothing else. *)
LEMMA PlainUnlock ==
    ASSUME NEW s \in KernelType,
           s.postponeTaskCounter /= 1 \/ ~s.taskChangePostponedFlag
    PROVE  /\ UnlockAndSchedule(s) \in KernelType /\ SameData(UnlockAndSchedule(s), s)
           /\ UnlockAndSchedule(s).postponeTaskCounter = s.postponeTaskCounter - 1
           /\ UnlockAndSchedule(s).irqDisableCounter = s.irqDisableCounter - 1
           /\ UnlockAndSchedule(s).intr =
                 IF s.irqDisableCounter = 1 THEN TRUE ELSE s.intr
           /\ UnlockAndSchedule(s).taskChangePostponedFlag = s.taskChangePostponedFlag
  <1> DEFINE p == [s EXCEPT !.postponeTaskCounter = @ - 1]
             m == s.postponeTaskCounter - 1
             i == IF s.irqDisableCounter = 1 THEN TRUE ELSE s.intr
             n == s.irqDisableCounter - 1
  <1>1. /\ p.postponeTaskCounter = s.postponeTaskCounter - 1
        /\ p.taskChangePostponedFlag = s.taskChangePostponedFlag
        /\ p.irqDisableCounter = s.irqDisableCounter /\ p.intr = s.intr
        /\ p \in KernelType /\ SameData(p, s)
    <2>1. m \in Int /\ p = [s EXCEPT !.postponeTaskCounter = m]
      BY DEF KernelType
    <2>2. m = s.postponeTaskCounter - 1
      OBVIOUS
    <2> HIDE DEF p, m
    <2>3. p \in KernelType
      BY <2>1, Zenon DEF KernelType
    <2> QED BY <2>1, <2>2, <2>3, Zenon DEF KernelType, SameData
  <1>2. ~(p.postponeTaskCounter = 0 /\ p.taskChangePostponedFlag)
    BY <1>1 DEF KernelType
  <1>3. UnlockAndSchedule(s) = UnlockScheduler(p)
    BY <1>2 DEF UnlockAndSchedule
  <1>4. i \in BOOLEAN /\ n \in Int
    <2>1. s.intr \in BOOLEAN /\ n \in Int
      BY DEF KernelType
    <2> QED BY <2>1, Zenon
  <1> HIDE DEF p
  <1>5. UnlockScheduler(p) = [p EXCEPT !.irqDisableCounter = n, !.intr = i]
    BY <1>1 DEF UnlockScheduler, KernelType
  <1>6. n = s.irqDisableCounter - 1 /\ i = IF s.irqDisableCounter = 1 THEN TRUE ELSE s.intr
    OBVIOUS
  <1> HIDE DEF i, n, m
  <1> DEFINE r == [p EXCEPT !.irqDisableCounter = n, !.intr = i]
  <1>7. /\ r.postponeTaskCounter = p.postponeTaskCounter
        /\ r.irqDisableCounter = n /\ r.intr = i
        /\ r.taskChangePostponedFlag = p.taskChangePostponedFlag
    BY <1>1 DEF KernelType
  <1>8. r \in KernelType
    BY <1>1, <1>4, LockFieldsType, Zenon
  <1>9. SameData(r, p)
    BY <1>1 DEF KernelType, SameData
  <1>10. r = UnlockAndSchedule(s)
    BY <1>3, <1>5
  <1> HIDE DEF r
  <1>11. SameData(r, s)
    BY <1>1, <1>9 DEF SameData
  <1>12. r.postponeTaskCounter = s.postponeTaskCounter - 1
    BY <1>1, <1>7
  <1>13. r.taskChangePostponedFlag = s.taskChangePostponedFlag
    BY <1>1, <1>7
  <1> QED BY <1>6, <1>7, <1>8, <1>10, <1>11, <1>12, <1>13, Zenon

(* What Mid says depends on the lists and the tasks only. *)
LEMMA MidFrame ==
    ASSUME NEW s, NEW live \in SUBSET Pcb, Mid(s, live), NEW r \in KernelType,
           SameData(r, s), s.taskChangePostponedFlag => r.taskChangePostponedFlag
    PROVE  Mid(r, live)
  <1>1. KernelInv(s, live)
    BY DEF Mid
  <1>2. KernelInv(r, live)
    BY <1>1, KernelInvFrame DEF SameData
  <1> QED BY <1>2 DEF Mid, SameData

(* An API call ends as it began: UnlockAndSchedule, from inside one lock, leads
   from Mid to a stable state. *)
LEMMA UnlockAndScheduleStable ==
    ASSUME NEW s, NEW live \in SUBSET Pcb, Mid(s, live),
           s.postponeTaskCounter = 1, s.irqDisableCounter = 1, s.intr = FALSE
    PROVE  /\ Stable(UnlockAndSchedule(s), live)
           /\ UnlockAndSchedule(s).used = s.used
           /\ UnlockAndSchedule(s).terminatedQ = s.terminatedQ
           /\ Handover(s, UnlockAndSchedule(s))
  <1>1. s \in KernelType
    BY MidFacts
  <1>2. CASE s.taskChangePostponedFlag
    BY <1>2, ScheduleStable, Zenon
  <1>3. CASE ~s.taskChangePostponedFlag
    <2> DEFINE r == UnlockAndSchedule(s)
    <2>1. /\ r \in KernelType /\ SameData(r, s)
          /\ r.postponeTaskCounter = 0 /\ r.irqDisableCounter = 0 /\ r.intr = TRUE
          /\ ~r.taskChangePostponedFlag
      <3>1. /\ r \in KernelType /\ SameData(r, s)
            /\ r.postponeTaskCounter = s.postponeTaskCounter - 1
            /\ r.irqDisableCounter = s.irqDisableCounter - 1
            /\ r.intr = IF s.irqDisableCounter = 1 THEN TRUE ELSE s.intr
            /\ r.taskChangePostponedFlag = s.taskChangePostponedFlag
        BY <1>1, <1>3, PlainUnlock, Zenon
      <3> HIDE DEF r
      <3> QED BY <1>3, <3>1
    <2> HIDE DEF r
    <2>2. Mid(r, live)
      BY <1>3, <2>1, MidFrame
    <2>3. KernelInv(r, live)
      BY <2>2 DEF Mid
    <2>4. r.idle = NULL /\ r.currentPCB \in Pcb
      BY <2>2 DEF Mid
    <2>5. r.currentPCB /= NULL
      BY <2>4, KernelAssumption DEF Pcb, NULL
    <2>6. PlaceInv(r, live)
      BY <2>1, <2>2, <2>4, <2>5 DEF PlaceInv, Mid
    <2>7. Balanced(r)
      BY <2>1, <2>4 DEF Balanced
    <2>8. r.used = s.used /\ r.terminatedQ = s.terminatedQ
      BY <2>1 DEF SameData
    <2>9. Handover(s, r)
      BY <1>3, <2>1 DEF Handover, SameData
    <2> QED BY <2>3, <2>6, <2>7, <2>8, <2>9 DEF Stable, r
  <1> QED BY <1>2, <1>3

(* An API call of the running task starts in Mid. *)
LEMMA LockMid ==
    ASSUME NEW s, NEW live \in SUBSET Pcb, Stable(s, live), butler \in live,
           s.currentPCB /= NULL
    PROVE  /\ Mid(LockAndPostpone(s), live)
           /\ s \in KernelType /\ s.idle = NULL /\ s.currentPCB \in live
           /\ s.state[s.currentPCB] = "RUNNING"
           /\ SameData(LockAndPostpone(s), s)
           /\ LockAndPostpone(s) \in KernelType
           /\ LockAndPostpone(s).postponeTaskCounter = 1
           /\ LockAndPostpone(s).irqDisableCounter = 1
           /\ LockAndPostpone(s).intr = FALSE
           /\ LockAndPostpone(s).taskChangePostponedFlag = FALSE
  <1> DEFINE l == LockAndPostpone(s)
  <1>1. s \in KernelType /\ KernelInv(s, live)
    BY DEF Stable, KernelInv
  <1>2. /\ s.idle = NULL /\ s.currentPCB \in live
        /\ s.state[s.currentPCB] = "RUNNING"
    BY DEF Stable, PlaceInv
  <1>3. /\ s.postponeTaskCounter = 0 /\ s.irqDisableCounter = 0
        /\ s.taskChangePostponedFlag = FALSE
    BY <1>1, <1>2 DEF Stable, Balanced, KernelType
  <1>4. /\ l \in KernelType /\ SameData(l, s) /\ l.intr = FALSE
        /\ l.postponeTaskCounter = 1 /\ l.irqDisableCounter = 1
        /\ l.taskChangePostponedFlag = FALSE
    <2>1. /\ l \in KernelType /\ SameData(l, s) /\ l.intr = FALSE
          /\ l.postponeTaskCounter = s.postponeTaskCounter + 1
          /\ l.irqDisableCounter = s.irqDisableCounter + 1
          /\ l.taskChangePostponedFlag = s.taskChangePostponedFlag
      BY <1>1, LockData, Zenon
    <2> HIDE DEF l
    <2> QED BY <1>3, <2>1
  <1> HIDE DEF l
  <1>5. KernelInv(l, live)
    BY <1>1, <1>4, KernelInvFrame DEF SameData
  <1>6. Mid(l, live)
    BY <1>2, <1>4, <1>5 DEF Mid, SameData, Stable, PlaceInv
  <1> QED BY <1>1, <1>2, <1>4, <1>6 DEF l
(* BlockProcess from inside another lock marks the current task and postpones
   the task change to the outer unlock. *)
LEMMA BlockInner ==
    ASSUME NEW s \in KernelType, s.currentPCB \in Pcb, NEW reason \in State,
           s.postponeTaskCounter = 1, s.irqDisableCounter = 1, s.intr = FALSE
    PROVE  LET r == BlockProcess(s, reason) IN
           /\ r \in KernelType
           /\ r.state = [s.state EXCEPT ![s.currentPCB] = reason]
           /\ r.next = s.next /\ r.used = s.used /\ r.sleepingList = s.sleepingList
           /\ r.readyList = s.readyList /\ r.readyQ = s.readyQ
           /\ r.terminatedList = s.terminatedList /\ r.terminatedQ = s.terminatedQ
           /\ r.currentPCB = s.currentPCB /\ r.idle = s.idle
           /\ r.postponeTaskCounter = 1 /\ r.irqDisableCounter = 1 /\ r.intr = FALSE
           /\ r.taskChangePostponedFlag
  <1> DEFINE l == LockAndPostpone(s)
             st == [s.state EXCEPT ![s.currentPCB] = reason]
             b == [l EXCEPT !.state[l.currentPCB] = reason]
             f == [l EXCEPT !.state = st, !.taskChangePostponedFlag = TRUE]
             r == UnlockAndSchedule(f)
  <1>1. /\ l \in KernelType /\ SameData(l, s) /\ l.intr = FALSE
        /\ l.postponeTaskCounter = 2 /\ l.irqDisableCounter = 2
    <2>1. /\ l \in KernelType /\ SameData(l, s) /\ l.intr = FALSE
          /\ l.postponeTaskCounter = s.postponeTaskCounter + 1
          /\ l.irqDisableCounter = s.irqDisableCounter + 1
      BY LockData, Zenon
    <2> HIDE DEF l
    <2> QED BY <2>1
  <1> HIDE DEF l
  <1>2. st \in [Pcb -> State] /\ TRUE \in BOOLEAN
    BY DEF KernelType
  <1>3. l.currentPCB = s.currentPCB /\ l.state = s.state
    BY <1>1 DEF SameData
  <1>4. b = [l EXCEPT !.state = st]
    BY <1>1, <1>3 DEF KernelType
  <1> HIDE DEF st
  <1>5. b.postponeTaskCounter = 2
    BY <1>1, <1>4 DEF KernelType
  <1>6. Schedule(b) = [b EXCEPT !.taskChangePostponedFlag = TRUE]
    <2> HIDE DEF b
    <2> QED BY <1>5 DEF Schedule
  <1>7. Schedule(b) = f
    <2> HIDE DEF b
    <2> QED BY <1>1, <1>4, <1>6 DEF KernelType
  <1>8. BlockProcess(s, reason) = r
    BY <1>7 DEF BlockProcess, l, b
  <1>9. f \in KernelType
    BY <1>1, <1>2, Zenon DEF KernelType
  <1>10. /\ f.state = st /\ f.next = l.next /\ f.used = l.used
         /\ f.sleepingList = l.sleepingList /\ f.readyList = l.readyList
         /\ f.readyQ = l.readyQ /\ f.terminatedList = l.terminatedList
         /\ f.terminatedQ = l.terminatedQ /\ f.currentPCB = l.currentPCB
         /\ f.idle = l.idle /\ f.postponeTaskCounter = 2 /\ f.irqDisableCounter = 2
         /\ f.intr = FALSE /\ f.taskChangePostponedFlag = TRUE
    BY <1>1 DEF KernelType
  <1> HIDE DEF f
  <1>11. f.postponeTaskCounter /= 1
    BY <1>10
  <1>12. /\ r \in KernelType /\ SameData(r, f)
         /\ r.postponeTaskCounter = f.postponeTaskCounter - 1
         /\ r.irqDisableCounter = f.irqDisableCounter - 1
         /\ r.intr = IF f.irqDisableCounter = 1 THEN TRUE ELSE f.intr
         /\ r.taskChangePostponedFlag = f.taskChangePostponedFlag
    BY <1>9, <1>11, PlainUnlock, Zenon
  <1> HIDE DEF r
  <1>13. /\ r.postponeTaskCounter = 1 /\ r.irqDisableCounter = 1 /\ r.intr = FALSE
         /\ r.taskChangePostponedFlag
    BY <1>10, <1>12
  <1>14. /\ r.state = st
         /\ r.next = s.next /\ r.used = s.used /\ r.sleepingList = s.sleepingList
         /\ r.readyList = s.readyList /\ r.readyQ = s.readyQ
         /\ r.terminatedList = s.terminatedList /\ r.terminatedQ = s.terminatedQ
         /\ r.currentPCB = s.currentPCB /\ r.idle = s.idle
    BY <1>1, <1>10, <1>12 DEF SameData
  <1> QED BY <1>8, <1>12, <1>13, <1>14, Zenon DEF st

(* UnblockProcess from inside another lock is AddReady. *)
LEMMA UnblockInner ==
    ASSUME NEW s, NEW live \in SUBSET Pcb, KernelInv(s, live), NEW t \in Pcb,
           s.used[t], \A i \in 1 .. Len(s.readyQ) : s.readyQ[i] /= t,
           \A i \in 1 .. Len(s.terminatedQ) : s.terminatedQ[i] /= t,
           s.postponeTaskCounter = 1, s.irqDisableCounter = 1, s.intr = FALSE
    PROVE  LET r == UnblockProcess(s, t) IN
           /\ KernelInv(r, live \cup {t})
           /\ r.readyQ = Append(s.readyQ, t)
           /\ r.state = [s.state EXCEPT ![t] = "READY"]
           /\ r.terminatedQ = s.terminatedQ
           /\ SameCpu(r, s)
  <1> DEFINE l == LockAndPostpone(s)
             a == AddReady(l, t)
             r == UnlockAndSchedule(a)
  <1>1. /\ l \in KernelType /\ SameData(l, s) /\ l.intr = FALSE
        /\ l.postponeTaskCounter = 2 /\ l.irqDisableCounter = 2
        /\ l.taskChangePostponedFlag = s.taskChangePostponedFlag
    <2>1. s \in KernelType
      BY DEF KernelInv
    <2>2. /\ l \in KernelType /\ SameData(l, s) /\ l.intr = FALSE
          /\ l.postponeTaskCounter = s.postponeTaskCounter + 1
          /\ l.irqDisableCounter = s.irqDisableCounter + 1
          /\ l.taskChangePostponedFlag = s.taskChangePostponedFlag
      BY <2>1, LockData, Zenon
    <2> HIDE DEF l
    <2> QED BY <2>2
  <1> HIDE DEF l
  <1>2. KernelInv(l, live)
    BY <1>1, KernelInvFrame DEF SameData
  <1>3. /\ l.used[t] /\ \A i \in 1 .. Len(l.readyQ) : l.readyQ[i] /= t
        /\ \A i \in 1 .. Len(l.terminatedQ) : l.terminatedQ[i] /= t
    BY <1>1 DEF SameData
  <1>4. /\ KernelInv(a, live \cup {t}) /\ a.readyQ = Append(l.readyQ, t)
        /\ a.state = [l.state EXCEPT ![t] = "READY"]
        /\ a.terminatedQ = l.terminatedQ /\ SameCpu(a, l)
    <2> HIDE DEF a
    <2>1. a = AddReady(l, t)
      BY DEF a
    <2> QED BY <1>2, <1>3, <2>1, AddReadyInv, ZenonT(40)
  <1> HIDE DEF a
  <1>5. /\ a \in KernelType /\ a.postponeTaskCounter = 2 /\ a.irqDisableCounter = 2
        /\ a.intr = FALSE /\ a.taskChangePostponedFlag = s.taskChangePostponedFlag
    BY <1>1, <1>4 DEF KernelInv, SameCpu
  <1>6. a.postponeTaskCounter /= 1
    BY <1>5
  <1>7. /\ r \in KernelType /\ SameData(r, a)
        /\ r.postponeTaskCounter = a.postponeTaskCounter - 1
        /\ r.irqDisableCounter = a.irqDisableCounter - 1
        /\ r.intr = IF a.irqDisableCounter = 1 THEN TRUE ELSE a.intr
        /\ r.taskChangePostponedFlag = a.taskChangePostponedFlag
    BY <1>5, <1>6, PlainUnlock, Zenon
  <1>8. r = UnblockProcess(s, t)
    BY DEF UnblockProcess, a, l
  <1> HIDE DEF r
  <1>9. KernelInv(r, live \cup {t})
    BY <1>4, <1>7, KernelInvFrame, Zenon DEF SameData
  <1>10. SameCpu(r, s)
    <2>1. r.postponeTaskCounter = 1 /\ r.irqDisableCounter = 1 /\ r.intr = FALSE
      BY <1>5, <1>7
    <2>2. r.currentPCB = s.currentPCB /\ r.idle = s.idle /\ r.used = s.used
      BY <1>1, <1>4, <1>7 DEF SameCpu, SameData
    <2>3. r.taskChangePostponedFlag = s.taskChangePostponedFlag
      BY <1>5, <1>7
    <2> QED BY <2>1, <2>2, <2>3, Zenon DEF SameCpu
  <1>11. /\ r.readyQ = Append(s.readyQ, t) /\ r.terminatedQ = s.terminatedQ
         /\ r.state = [s.state EXCEPT ![t] = "READY"]
    BY <1>1, <1>4, <1>7 DEF SameData
  <1> QED BY <1>8, <1>9, <1>10, <1>11, Zenon
(* The sleeping list is empty, so IrqTimerHandler only ages due and, when a task
   has the CPU, uses up its quantum and asks for a postponed task change. *)
LEMMA IrqTimerHandlerFacts ==
    ASSUME NEW s \in KernelType, s.sleepingList.head = NULL,
           s.currentPCB /= NULL => s.currentPCB \in Pcb, s.postponeTaskCounter = 1
    PROVE  LET r == IrqTimerHandler(s) IN
           /\ r \in KernelType /\ r.sleepingList.head = NULL
           /\ r.state = s.state /\ r.next = s.next /\ r.used = s.used
           /\ r.readyList = s.readyList /\ r.readyQ = s.readyQ
           /\ r.terminatedList = s.terminatedList /\ r.terminatedQ = s.terminatedQ
           /\ r.currentPCB = s.currentPCB /\ r.idle = s.idle /\ r.intr = s.intr
           /\ r.irqDisableCounter = s.irqDisableCounter
           /\ r.postponeTaskCounter = s.postponeTaskCounter
           /\ s.taskChangePostponedFlag => r.taskChangePostponedFlag
           /\ s.currentPCB = NULL => r.taskChangePostponedFlag = s.taskChangePostponedFlag
  <1> DEFINE du == [t \in Pcb |-> IF s.due[t] > TICK THEN s.due[t] - TICK ELSE 0]
             w == [s EXCEPT !.sleepingList = EmptyList, !.due = du]
             c == s.currentPCB
             left == IF w.quantumLeft[c] > 0 THEN w.quantumLeft[c] - 1 ELSE 0
             ql == [w.quantumLeft EXCEPT ![c] = left]
             q == [w EXCEPT !.quantumLeft = ql]
             r == IrqTimerHandler(s)
  <1>1. du \in [Pcb -> Nat] /\ EmptyList \in [head : PcbPtr, tail : PcbPtr]
        /\ EmptyList.head = NULL
    <2>1. s.due \in [Pcb -> Nat]
      BY DEF KernelType
    <2>2. du \in [Pcb -> Nat]
      BY <2>1 DEF TICK
    <2>3. EmptyList \in [head : PcbPtr, tail : PcbPtr] /\ EmptyList.head = NULL
      BY DEF EmptyList, PcbPtr
    <2> QED BY <2>2, <2>3
  <1>2. w = [s EXCEPT !.sleepingList = EmptyList,
                      !.due = [t \in Pcb |-> IF @[t] > TICK THEN @[t] - TICK ELSE 0]]
    BY DEF KernelType
  <1> HIDE DEF du
  <1>3. w.currentPCB = c
    BY DEF KernelType
  <1>4. w \in KernelType
    <2> HIDE DEF c
    <2> QED BY <1>1, Zenon DEF KernelType, EmptyList
  <1>5. /\ w.sleepingList.head = NULL
        /\ w.state = s.state /\ w.next = s.next /\ w.used = s.used
        /\ w.readyList = s.readyList /\ w.readyQ = s.readyQ
        /\ w.terminatedList = s.terminatedList /\ w.terminatedQ = s.terminatedQ
        /\ w.idle = s.idle /\ w.intr = s.intr
        /\ w.irqDisableCounter = s.irqDisableCounter
        /\ w.postponeTaskCounter = s.postponeTaskCounter
        /\ w.taskChangePostponedFlag = s.taskChangePostponedFlag
    BY <1>1 DEF KernelType
  <1>6. r = IF c = NULL THEN w
            ELSE LET z == [w EXCEPT !.quantumLeft[c] = left]
                 IN  IF left <= 0 THEN Schedule(z) ELSE z
    <2> HIDE DEF w
    <2> QED BY <1>2, <1>3 DEF IrqTimerHandler
  <1> HIDE DEF w, r
  <1>7. CASE c = NULL
    <2>1. r = w
      BY <1>6, <1>7
    <2> QED BY <1>3, <1>4, <1>5, <2>1 DEF r
  <1>8. CASE c /= NULL
    <2>1. c \in Pcb /\ w.quantumLeft \in [Pcb -> 0 .. 1]
      BY <1>4, <1>8 DEF KernelType, TIMESLICE
    <2>2. left \in 0 .. 1
      BY <2>1
    <2>3. ql \in [Pcb -> 0 .. 1]
      <3> HIDE DEF left
      <3> QED BY <2>1, <2>2
    <2>4. q = [w EXCEPT !.quantumLeft[c] = left]
      <3> HIDE DEF left
      <3> QED BY <1>4 DEF KernelType
    <2> HIDE DEF ql, left
    <2>5. q \in KernelType
      BY <1>4, <2>3, Zenon DEF KernelType, TIMESLICE
    <2>6. /\ SameData(q, w) /\ q.intr = w.intr
          /\ q.irqDisableCounter = w.irqDisableCounter
          /\ q.postponeTaskCounter = w.postponeTaskCounter
          /\ q.taskChangePostponedFlag = w.taskChangePostponedFlag
      BY <1>4 DEF KernelType, SameData
    <2> HIDE DEF q
    <2> DEFINE f == [q EXCEPT !.taskChangePostponedFlag = TRUE]
    <2>7. Schedule(q) = f
      <3>1. q.postponeTaskCounter /= 0
        BY <1>5, <2>6
      <3> QED BY <3>1 DEF Schedule
    <2>8. r = f \/ r = q
      BY <1>6, <1>8, <2>4, <2>7
    <2>9. /\ f \in KernelType /\ SameData(f, q) /\ f.intr = q.intr
          /\ f.irqDisableCounter = q.irqDisableCounter
          /\ f.postponeTaskCounter = q.postponeTaskCounter
          /\ f.taskChangePostponedFlag = TRUE
      BY <2>5, Zenon DEF KernelType, SameData
    <2> HIDE DEF f
    <2>10. /\ r \in KernelType /\ SameData(r, w) /\ r.intr = w.intr
           /\ r.irqDisableCounter = w.irqDisableCounter
           /\ r.postponeTaskCounter = w.postponeTaskCounter
           /\ w.taskChangePostponedFlag => r.taskChangePostponedFlag
      BY <2>5, <2>6, <2>8, <2>9 DEF SameData
    <2>11. /\ r \in KernelType /\ r.sleepingList.head = NULL
           /\ r.state = s.state /\ r.next = s.next /\ r.used = s.used
           /\ r.readyList = s.readyList /\ r.readyQ = s.readyQ
           /\ r.terminatedList = s.terminatedList /\ r.terminatedQ = s.terminatedQ
           /\ r.currentPCB = s.currentPCB /\ r.idle = s.idle /\ r.intr = s.intr
           /\ r.irqDisableCounter = s.irqDisableCounter
           /\ r.postponeTaskCounter = s.postponeTaskCounter
           /\ s.taskChangePostponedFlag => r.taskChangePostponedFlag
      BY <1>3, <1>5, <2>10 DEF SameData
    <2> QED BY <1>8, <2>11, Zenon DEF r
  <1> QED BY <1>7, <1>8
=============================================================================
