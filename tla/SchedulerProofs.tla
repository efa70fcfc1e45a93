-------------------------- MODULE SchedulerProofs --------------------------
(***************************************************************************)
(* Proofs about module Scheduler, for every number of tasks, when clients  *)
(* are patient and none of them sleeps.                                    *)
(***************************************************************************)
EXTENDS Scheduler, SchedulerKernelProofs

-----------------------------------------------------------------------------
(* The actions: each keeps SchedulerInv.                                   *)

Place == {"run", "probe", "take", "create", "gap", "butler", "dead"}

(* What one step of a task's program counter changes. *)
LEMMA GotoFacts ==
    ASSUME TypeOK, NEW t \in Pcb, NEW w \in Place, NEW i \in 0 .. MAX_TASKS,
           Goto(t, w, i)
    PROVE  /\ pc' \in [Pcb -> [at : Place, i : 0 .. MAX_TASKS]]
           /\ pc'[t].at = w /\ pc'[t].i = i
           /\ \A u \in Pcb \ {t} : pc'[u] = pc[u]
           /\ w /= "dead" /\ pc[t].at /= "dead" => Live' = Live
           /\ w = "dead" => Live' = Live \ {t}
  <1>1. At(w, i) \in [at : Place, i : 0 .. MAX_TASKS] /\ At(w, i).at = w /\ At(w, i).i = i
    BY DEF At
  <1>2. pc \in [Pcb -> [at : Place, i : 0 .. MAX_TASKS]]
    BY DEF TypeOK, Place
  <1>3. pc' = [pc EXCEPT ![t] = At(w, i)]
    BY DEF Goto
  <1>4. pc' \in [Pcb -> [at : Place, i : 0 .. MAX_TASKS]]
    BY <1>1, <1>2, <1>3
  <1>5. pc'[t] = At(w, i) /\ \A u \in Pcb \ {t} : pc'[u] = pc[u]
    BY <1>2, <1>3
  <1> QED BY <1>1, <1>4, <1>5 DEF Live, Alive

(* A stable kernel record and the program counters make the invariant. *)
LEMMA Establish ==
    ASSUME pc' \in [Pcb -> [at : Place, i : 0 .. MAX_TASKS]], Stable(k', Live'), CreateInv'
    PROVE  SchedulerInv'
  BY DEF SchedulerInv, TypeOK, Place, LocksBalanced, Stable, KernelInv

\* What the invariant says of the tasks' positions, and that the butler is a live PCB.
LEMMA InvFacts ==
    ASSUME SchedulerInv
    PROVE  /\ TypeOK /\ Stable(k, Live) /\ CreateInv
           /\ pc \in [Pcb -> [at : Place, i : 0 .. MAX_TASKS]]
           /\ Live \in SUBSET Pcb /\ butler \in Live /\ butler \in Pcb
           /\ NULL \notin Pcb /\ 0 \in 0 .. MAX_TASKS
  <1>1. butler \in Pcb /\ NULL \notin Pcb /\ 0 \in 0 .. MAX_TASKS
    BY KernelAssumption DEF butler, Pcb, NULL
  <1> QED BY <1>1 DEF SchedulerInv, TypeOK, Place, LocksBalanced, Stable, CreateInv, Live

(* PcbAlloc's search: only one task at a time is creating, and a PCB that it
   found free stays free until it is taken. *)
LEMMA ProbeInv ==
    ASSUME SchedulerInv, Patient, NEW t \in Pcb, PcbAllocProbe(t)
    PROVE  SchedulerInv'
  <1>1. /\ TypeOK /\ Stable(k, Live) /\ CreateInv /\ k' = k
        /\ 0 \in 0 .. MAX_TASKS /\ pc[t].i \in 0 .. MAX_TASKS
    BY InvFacts DEF PcbAllocProbe
  <1>2. SUFFICES ASSUME NEW w \in {"probe", "take", "run"}, NEW i \in 0 .. MAX_TASKS,
                        Goto(t, w, i), pc[t].at \in {"run", "probe"},
                        w = "probe" /\ pc[t].at = "run" => \A u \in Pcb : ~Creating(u),
                        w = "take" => pc[t].at = "probe" /\ i \in Pcb /\ ~k.used[i]
                 PROVE  SchedulerInv'
    <2>1. CASE Runs(t, "run") /\ (\A u \in Pcb : ~Creating(u)) /\ Goto(t, "probe", 0)
      BY <1>1, <1>2, <2>1 DEF Runs
    <2>2. CASE Runs(t, "probe") /\ pc[t].i < MAX_TASKS /\ k.used[pc[t].i]
               /\ Goto(t, "probe", pc[t].i + 1)
      <3>1. pc[t].i + 1 \in 0 .. MAX_TASKS
        BY <1>1, <2>2, KernelAssumption
      <3> QED BY <1>2, <2>2, <3>1 DEF Runs
    <2>3. CASE Runs(t, "probe") /\ pc[t].i < MAX_TASKS /\ ~k.used[pc[t].i]
               /\ Goto(t, "take", pc[t].i)
      <3>1. pc[t].i \in Pcb
        BY <1>1, <2>3, KernelAssumption DEF Pcb
      <3> QED BY <1>1, <1>2, <2>3, <3>1 DEF Runs
    <2>4. CASE Runs(t, "probe") /\ pc[t].i = MAX_TASKS /\ Goto(t, "run", 0)
      BY <1>1, <1>2, <2>4 DEF Runs
    <2> QED BY <2>1, <2>2, <2>3, <2>4 DEF PcbAllocProbe
  <1>3. w \in Place /\ w /= "dead" /\ pc[t].at /= "dead"
    BY <1>2 DEF Place
  <1>4. /\ pc' \in [Pcb -> [at : Place, i : 0 .. MAX_TASKS]]
        /\ pc'[t].at = w /\ pc'[t].i = i
        /\ \A u \in Pcb \ {t} : pc'[u] = pc[u]
        /\ Live' = Live
    BY <1>1, <1>2, <1>3, GotoFacts
  <1>5. \A u \in Pcb : Creating(u)' => Creating(u) \/ (u = t /\ \A v \in Pcb : ~Creating(v))
    BY <1>2, <1>4 DEF Creating
  <1>6. ASSUME NEW u \in Pcb, NEW v \in Pcb, Creating(u)', Creating(v)'
        PROVE  u = v
    BY <1>5, <1>6, <1>1 DEF CreateInv
  <1>7. ASSUME NEW u \in Pcb
        PROVE  HoldsPcb(u)'
    <2>1. CASE u = t
      BY <1>1, <1>2, <1>4, <2>1 DEF HoldsPcb
    <2>2. CASE u /= t
      BY <1>1, <1>4, <2>2 DEF CreateInv, HoldsPcb
    <2> QED BY <2>1, <2>2
  <1>8. CreateInv'
    BY <1>1, <1>4, <1>6, <1>7 DEF CreateInv
  <1> QED BY <1>1, <1>4, <1>8, Establish

(* kernel_main enters PerformButler. *)
LEMMA EnterButlerInv ==
    ASSUME SchedulerInv, EnterButler
    PROVE  SchedulerInv'
  <1>1. /\ TypeOK /\ Stable(k, Live) /\ CreateInv /\ k' = k /\ butler \in Pcb
        /\ 0 \in 0 .. MAX_TASKS /\ Goto(butler, "butler", 0) /\ pc[butler].at = "run"
        /\ "butler" \in Place
    BY InvFacts DEF EnterButler, Runs, Place
  <1>2. /\ pc' \in [Pcb -> [at : Place, i : 0 .. MAX_TASKS]]
        /\ pc'[butler].at = "butler" /\ pc'[butler].i = 0
        /\ \A u \in Pcb \ {butler} : pc'[u] = pc[u]
        /\ Live' = Live
    BY <1>1, GotoFacts
  <1>3. \A u \in Pcb : Creating(u)' => Creating(u)
    BY <1>2 DEF Creating
  <1>4. ASSUME NEW u \in Pcb
        PROVE  HoldsPcb(u)'
    <2>1. CASE u = butler
      BY <1>2, <2>1 DEF HoldsPcb
    <2>2. CASE u /= butler
      BY <1>1, <1>2, <2>2 DEF CreateInv, HoldsPcb
    <2> QED BY <2>1, <2>2
  <1>5. CreateInv'
    BY <1>1, <1>2, <1>3, <1>4 DEF CreateInv
  <1> QED BY <1>1, <1>2, <1>5, Establish

(* PcbAlloc takes the free PCB that it found; it is on no list. *)
LEMMA TakeInv ==
    ASSUME SchedulerInv, NEW t \in Pcb, PcbAllocTake(t)
    PROVE  SchedulerInv'
  <1> DEFINE x == pc[t].i
             us == [k.used EXCEPT ![x] = TRUE]
  <1>1. /\ TypeOK /\ Stable(k, Live) /\ CreateInv /\ pc[t].at = "take"
        /\ Goto(t, "create", x) /\ "create" \in Place /\ x \in 0 .. MAX_TASKS
        /\ k' = [k EXCEPT !.used = us] /\ k \in KernelType
        /\ pc \in [Pcb -> [at : Place, i : 0 .. MAX_TASKS]]
    BY InvFacts, Zenon DEF PcbAllocTake, Runs, Place, TypeOK, KernelType
  <1>2. HoldsPcb(t)
    BY <1>1 DEF CreateInv
  <1>3. x \in Pcb /\ ~k.used[x]
    BY <1>1, <1>2 DEF HoldsPcb
  <1>4. /\ pc' \in [Pcb -> [at : Place, i : 0 .. MAX_TASKS]]
        /\ pc'[t].at = "create" /\ pc'[t].i = x
        /\ \A u \in Pcb \ {t} : pc'[u] = pc[u]
        /\ Live' = Live
    BY <1>1, GotoFacts
  <1>5. us \in [Pcb -> BOOLEAN] /\ us[x] /\ \A u \in Pcb \ {x} : us[u] = k.used[u]
    BY <1>1, <1>3, Zenon DEF KernelType
  <1> HIDE DEF us
  <1>6. /\ k' \in KernelType /\ k'.used = us
        /\ k'.state = k.state /\ k'.next = k.next
        /\ k'.sleepingList = k.sleepingList /\ k'.readyList = k.readyList
        /\ k'.readyQ = k.readyQ /\ k'.terminatedList = k.terminatedList
        /\ k'.terminatedQ = k.terminatedQ /\ k'.currentPCB = k.currentPCB
        /\ k'.idle = k.idle /\ k'.intr = k.intr
        /\ k'.irqDisableCounter = k.irqDisableCounter
        /\ k'.postponeTaskCounter = k.postponeTaskCounter
        /\ k'.taskChangePostponedFlag = k.taskChangePostponedFlag
    BY <1>1, <1>5, Zenon DEF KernelType
  <1>7. \A i \in 1 .. Len(k.terminatedQ) : k.terminatedQ[i] \in Pcb /\ k.used[k.terminatedQ[i]]
    BY <1>1 DEF Stable, KernelInv, KernelType
  <1>8. KernelInv(k', Live')
    <2>1. \A u \in Pcb : k.used[u] => us[u]
      BY <1>3, <1>5
    <2>2. Live \subseteq Pcb
      BY DEF Live
    <2>3. KernelInv(k, Live)
      BY <1>1 DEF Stable
    <2>4. /\ \A i \in 1 .. Len(k.terminatedQ) : us[k.terminatedQ[i]]
          /\ \A u \in Live : us[u]
      BY <1>7, <2>1, <2>2, <2>3 DEF KernelInv
    <2> HIDE DEF x
    <2> QED BY <1>4, <1>6, <2>3, <2>4 DEF KernelInv
  <1>9. Stable(k', Live')
    BY <1>1, <1>4, <1>6, <1>8 DEF Stable, PlaceInv, Balanced
  <1>10. x \notin Live /\ \A i \in 1 .. Len(k.terminatedQ) : k.terminatedQ[i] /= x
    BY <1>1, <1>3, <1>7 DEF Stable, KernelInv
  <1>11. ASSUME NEW u \in Pcb
         PROVE  HoldsPcb(u)'
    <2>1. CASE u = t
      BY <1>3, <1>4, <1>5, <1>6, <1>10, <2>1 DEF HoldsPcb
    <2>2. CASE u /= t
      <3>1. Creating(t) /\ ~Creating(u)
        BY <1>1, <2>2 DEF CreateInv, Creating
      <3>2. pc'[u].at \notin {"take", "create"} /\ pc'[u] = pc[u]
        BY <1>4, <2>2, <3>1 DEF Creating
      <3>3. HoldsPcb(u)
        BY <1>1 DEF CreateInv
      <3> QED BY <3>2, <3>3 DEF HoldsPcb
    <2> QED BY <2>1, <2>2
  <1>12. \A u \in Pcb : Creating(u)' => Creating(u)
    BY <1>1, <1>4 DEF Creating
  <1>13. CreateInv'
    BY <1>1, <1>4, <1>11, <1>12 DEF CreateInv
  <1> QED BY <1>4, <1>9, <1>13, Establish
(* CreateProcess puts the PCB that it took on the ready list. *)
LEMMA CreateProcessInv ==
    ASSUME SchedulerInv, NEW t \in Pcb, CreateProcess(t)
    PROVE  /\ SchedulerInv'
           /\ k'.readyQ = Append(k.readyQ, pc[t].i) /\ k'.currentPCB = k.currentPCB
  <1> DEFINE new == pc[t].i
             du == [k.due EXCEPT ![new] = MAX_SLEEP]
             ql == [k.quantumLeft EXCEPT ![new] = 0]
             k0 == [k EXCEPT !.due = du, !.quantumLeft = ql]
             l == LockAndPostpone(k0)
             a == AddReady(l, new)
             live == Live \cup {new}
  <1>1. /\ TypeOK /\ Stable(k, Live) /\ CreateInv /\ pc[t].at = "create"
        /\ k.currentPCB = t /\ k \in KernelType /\ HoldsPcb(t)
        /\ pc \in [Pcb -> [at : Place, i : 0 .. MAX_TASKS]]
        /\ Live \in SUBSET Pcb /\ butler \in Live /\ NULL \notin Pcb
    BY InvFacts DEF CreateProcess, Runs, TypeOK, CreateInv
  <1>2. /\ new \in Pcb /\ k.used[new] /\ new \notin Live
        /\ \A i \in 1 .. Len(k.terminatedQ) : k.terminatedQ[i] /= new
    BY <1>1 DEF HoldsPcb
  <1>3. /\ pc' = [pc EXCEPT ![t] = At("run", 0), ![new] = At("run", 0)]
        /\ k' = UnlockAndSchedule(a)
    <2>1. k0 = [k EXCEPT !.due[new] = MAX_SLEEP, !.quantumLeft[new] = 0]
      BY <1>1, <1>2 DEF KernelType
    <2> HIDE DEF k0
    <2> QED BY <2>1 DEF CreateProcess
  <1>4. du \in [Pcb -> Nat] /\ ql \in [Pcb -> 0 .. TIMESLICE]
    BY <1>1, <1>2, SchedulerAssumption DEF KernelType, TIMESLICE
  <1> HIDE DEF du, ql
  <1>5. /\ k0 \in KernelType /\ SameData(k0, k) /\ k0.intr = k.intr
        /\ k0.irqDisableCounter = k.irqDisableCounter
        /\ k0.postponeTaskCounter = k.postponeTaskCounter
        /\ k0.taskChangePostponedFlag = k.taskChangePostponedFlag
    BY <1>1, <1>4, Zenon DEF KernelType, SameData
  <1> HIDE DEF k0
  <1>6. Stable(k0, Live)
    <2>1. KernelInv(k0, Live)
      BY <1>1, <1>5, KernelInvFrame, Zenon DEF SameData, Stable
    <2> QED BY <1>1, <1>5, <2>1 DEF SameData, Stable, PlaceInv, Balanced
  <1>7. k0.currentPCB = t /\ t /= NULL
    BY <1>1, <1>5 DEF SameData
  <1>8. /\ Mid(l, Live) /\ k0.state[k0.currentPCB] = "RUNNING" /\ k0.idle = NULL
        /\ k0.currentPCB \in Live
        /\ SameData(l, k0) /\ l \in KernelType
        /\ l.postponeTaskCounter = 1 /\ l.irqDisableCounter = 1
        /\ l.intr = FALSE /\ l.taskChangePostponedFlag = FALSE
    BY <1>1, <1>6, <1>7, LockMid, Zenon
  <1> HIDE DEF l
  <1>9. /\ KernelInv(l, Live) /\ l.used[new]
        /\ \A i \in 1 .. Len(l.readyQ) : l.readyQ[i] /= new
        /\ \A i \in 1 .. Len(l.terminatedQ) : l.terminatedQ[i] /= new
    <2>1. KernelInv(l, Live)
      BY <1>8, Zenon DEF Mid
    <2>2. l.used = k.used /\ l.readyQ = k.readyQ /\ l.terminatedQ = k.terminatedQ
      BY <1>5, <1>8, Zenon DEF SameData
    <2> QED BY <1>1, <1>2, <2>1, <2>2 DEF KernelInv
  <1>10. /\ KernelInv(a, live) /\ a.readyQ = Append(l.readyQ, new)
         /\ a.state = [l.state EXCEPT ![new] = "READY"]
         /\ a.terminatedQ = l.terminatedQ /\ SameCpu(a, l)
    BY <1>1, <1>2, <1>9, AddReadyInv, ZenonT(40)
  <1> HIDE DEF a
  <1>11. /\ a.postponeTaskCounter = 1 /\ a.irqDisableCounter = 1 /\ a.intr = FALSE
         /\ a.idle = NULL /\ a.currentPCB = t /\ a.used = k.used
         /\ l.state[t] = "RUNNING" /\ a.terminatedQ = k.terminatedQ
    BY <1>5, <1>7, <1>8, <1>10 DEF SameCpu, SameData
  <1>12. /\ l.state \in [Pcb -> State] /\ l.readyQ \in Seq(Pcb)
         /\ t \in Live /\ t /= new
    BY <1>2, <1>7, <1>8 DEF KernelType
  <1>13. /\ a.state[t] = "RUNNING" /\ a.state[new] = "READY"
         /\ \A u \in Live : a.state[u] = l.state[u]
         /\ \E i \in 1 .. Len(a.readyQ) : a.readyQ[i] = new
         /\ \A i \in 1 .. Len(l.readyQ) : i \in 1 .. Len(a.readyQ) /\ a.readyQ[i] = l.readyQ[i]
    <2>1. /\ Len(a.readyQ) = Len(l.readyQ) + 1 /\ a.readyQ[Len(a.readyQ)] = new
          /\ \A i \in 1 .. Len(l.readyQ) : a.readyQ[i] = l.readyQ[i]
      BY <1>2, <1>10, <1>12
    <2>2. Len(l.readyQ) \in Nat /\ Len(a.readyQ) \in 1 .. Len(a.readyQ)
      BY <2>1, <1>12
    <2>3. a.state[new] = "READY" /\ \A u \in Live : a.state[u] = l.state[u]
      BY <1>1, <1>2, <1>10, <1>12
    <2> QED BY <1>11, <1>12, <2>1, <2>2, <2>3
  <1>14. Mid(a, live)
    <2>1. ASSUME NEW u \in live, u /= t
          PROVE  \/ \E i \in 1 .. Len(a.readyQ) : a.readyQ[i] = u
                 \/ u = butler /\ a.state[u] = "PAUSED"
      <3>1. CASE u = new
        BY <3>1, <1>13
      <3>2. CASE u \in Live
        <4>1. \/ \E i \in 1 .. Len(l.readyQ) : l.readyQ[i] = u
              \/ u = butler /\ l.state[u] = "PAUSED"
          BY <1>5, <1>7, <1>8, <2>1, <3>2 DEF Mid, SameData
        <4> QED BY <4>1, <3>2, <1>13
      <3> QED BY <3>1, <3>2
    <2>2. a.state[butler] = "PAUSED" => Len(a.terminatedQ) = 0
      BY <1>1, <1>8, <1>10, <1>13 DEF Mid
    <2> QED BY <1>1, <1>10, <1>11, <1>12, <1>13, <2>1, <2>2 DEF Mid
  <1>15. live \in SUBSET Pcb
    BY <1>1, <1>2
  <1>16. /\ Stable(k', live) /\ k'.used = k.used /\ k'.terminatedQ = k.terminatedQ
         /\ Handover(a, k')
    BY <1>3, <1>11, <1>14, <1>15, UnlockAndScheduleStable, Zenon
  <1>17. /\ pc' \in [Pcb -> [at : Place, i : 0 .. MAX_TASKS]]
         /\ pc'[t].at = "run" /\ pc'[new].at = "run"
         /\ \A u \in Pcb \ {t, new} : pc'[u] = pc[u]
    <2>1. At("run", 0) \in [at : Place, i : 0 .. MAX_TASKS] /\ At("run", 0).at = "run"
      BY KernelAssumption DEF At, Place
    <2> HIDE DEF new
    <2>2. pc'[t] = At("run", 0) /\ pc'[new] = At("run", 0)
      BY <1>1, <1>2, <1>3
    <2>3. \A u \in Pcb \ {t, new} : pc'[u] = pc[u]
      BY <1>1, <1>3
    <2>4. pc' \in [Pcb -> [at : Place, i : 0 .. MAX_TASKS]]
      BY <1>1, <1>3, <2>1, Zenon
    <2> QED BY <2>1, <2>2, <2>3, <2>4
  <1>18. Live' = live
    <2> HIDE DEF new
    <2>1. \A u \in Pcb : u \in Live' <=> pc'[u].at /= "dead"
      BY DEF Live, Alive
    <2>2. \A u \in Pcb : u \in Live <=> pc[u].at /= "dead"
      BY DEF Live, Alive
    <2>3. \A u \in Pcb : u \in Live' <=> u \in live
      BY <1>12, <1>17, <2>1, <2>2
    <2>4. Live' \subseteq Pcb
      BY DEF Live
    <2> QED BY <1>15, <2>3, <2>4
  <1>19. \A u \in Pcb : Creating(u)' => Creating(u) /\ u /= t /\ u /= new
    BY <1>17 DEF Creating
  <1>20. \A u \in Pcb : ~Creating(u)'
    BY <1>1, <1>19 DEF CreateInv, Creating
  <1>21. ASSUME NEW u \in Pcb
         PROVE  HoldsPcb(u)'
    <2>1. pc'[u].at \notin {"take", "create"}
      BY <1>20 DEF Creating
    <2>2. CASE u \in {t, new}
      BY <1>17, <2>1, <2>2 DEF HoldsPcb
    <2>3. CASE u \notin {t, new}
      BY <1>1, <1>17, <2>1, <2>3 DEF HoldsPcb, CreateInv
    <2> QED BY <2>2, <2>3
  <1>22. CreateInv'
    BY <1>1, <1>18, <1>20, <1>21 DEF CreateInv
  <1>23. k'.readyQ = Append(k.readyQ, new) /\ k'.currentPCB = k.currentPCB
    <2>1. ~a.taskChangePostponedFlag /\ a.readyQ = Append(k.readyQ, new) /\ a.currentPCB = k.currentPCB
      BY <1>5, <1>8, <1>10 DEF SameCpu, SameData
    <2> HIDE DEF new
    <2> QED BY <1>16, <2>1 DEF Handover
  <1> QED BY <1>16, <1>17, <1>18, <1>22, <1>23, Establish
(* TerminateProcess puts the task on the terminated list and the parked butler on
   the ready list before it gives the CPU away for good. *)
LEMMA TerminateProcessInv ==
    ASSUME SchedulerInv, Patient, NEW t \in Pcb, TerminateProcess(t)
    PROVE  /\ SchedulerInv'
           /\ k'.currentPCB = Head(Append(k.readyQ, butler))
           /\ k'.readyQ = Tail(Append(k.readyQ, butler))
  <1> DEFINE l == LockAndPostpone(k)
             a == AddTerminated(l, t)
             b == BlockProcess(a, "TERMINATED")
             r == UnblockProcess(b, butler)
             live == Live \ {t}
  <1>1. /\ TypeOK /\ Stable(k, Live) /\ CreateInv /\ k \in KernelType
        /\ Live \in SUBSET Pcb /\ butler \in Live /\ butler \in Pcb /\ NULL \notin Pcb
        /\ 0 \in 0 .. MAX_TASKS /\ "dead" \in Place
    BY InvFacts DEF TypeOK, Place
  <1>2. /\ k.currentPCB = t /\ pc[t].at = "run" /\ t /= butler
        /\ k.state[butler] = "PAUSED" /\ Goto(t, "dead", 0)
        /\ k' = UnlockAndSchedule(r)
    BY SchedulerAssumption DEF TerminateProcess, Runs
  <1>3. k.currentPCB /= NULL
    BY <1>1, <1>2
  <1>4. /\ Mid(l, Live) /\ k.state[k.currentPCB] = "RUNNING" /\ k.idle = NULL
        /\ k.currentPCB \in Live
        /\ SameData(l, k) /\ l \in KernelType
        /\ l.postponeTaskCounter = 1 /\ l.irqDisableCounter = 1
        /\ l.intr = FALSE /\ l.taskChangePostponedFlag = FALSE
    BY <1>1, <1>3, LockMid, Zenon
  <1> HIDE DEF l
  <1>5. t \in Live /\ KernelInv(l, Live) /\ \A i \in 1 .. Len(l.readyQ) : l.readyQ[i] /= t
    BY <1>1, <1>2, <1>4, MidFacts DEF SameData
  <1>6. /\ KernelInv(a, live)
        /\ a.terminatedQ = Append(l.terminatedQ, t)
        /\ a.state = [l.state EXCEPT ![t] = "SLEEPING"]
        /\ a.readyQ = l.readyQ /\ SameCpu(a, l)
    BY <1>1, <1>5, AddTerminatedInv, Zenon
  <1> HIDE DEF a
  <1>7. /\ a \in KernelType /\ a.currentPCB = t /\ a.currentPCB \in Pcb
        /\ a.postponeTaskCounter = 1 /\ a.irqDisableCounter = 1 /\ a.intr = FALSE
        /\ a.idle = NULL /\ a.used = k.used /\ "TERMINATED" \in State
    <2>1. /\ l.currentPCB = k.currentPCB /\ l.idle = k.idle /\ l.used = k.used
      BY <1>4, Zenon DEF SameData
    <2>2. /\ a.currentPCB = l.currentPCB /\ a.idle = l.idle /\ a.used = l.used
          /\ a.postponeTaskCounter = l.postponeTaskCounter /\ a.intr = l.intr
          /\ a.irqDisableCounter = l.irqDisableCounter
      BY <1>6, Zenon DEF SameCpu
    <2>3. a \in KernelType /\ "TERMINATED" \in State
      BY <1>6, KernelInvIsTyped, Zenon DEF State
    <2> QED BY <1>2, <1>4, <2>1, <2>2, <2>3, Zenon
  <1>8. /\ b \in KernelType
        /\ b.state = [a.state EXCEPT ![a.currentPCB] = "TERMINATED"]
        /\ b.next = a.next /\ b.used = a.used /\ b.sleepingList = a.sleepingList
        /\ b.readyList = a.readyList /\ b.readyQ = a.readyQ
        /\ b.terminatedList = a.terminatedList /\ b.terminatedQ = a.terminatedQ
        /\ b.currentPCB = a.currentPCB /\ b.idle = a.idle
        /\ b.postponeTaskCounter = 1 /\ b.irqDisableCounter = 1 /\ b.intr = FALSE
        /\ b.taskChangePostponedFlag
    BY <1>7, BlockInner, Zenon
  <1> HIDE DEF b
  <1>9. /\ l.state \in [Pcb -> State] /\ b.state[t] = "TERMINATED"
        /\ \A u \in Pcb \ {t} : b.state[u] = k.state[u] /\ a.state[u] = k.state[u]
    <2>1. l.state \in [Pcb -> State] /\ a.state \in [Pcb -> State] /\ l.state = k.state
      BY <1>4, <1>7 DEF KernelType, SameData
    <2> QED BY <1>6, <1>7, <1>8, <2>1
  <1>10. live \in SUBSET Pcb /\ butler \in live
    BY <1>1, <1>2
  <1>11. KernelInv(b, live)
    <2>1. \A i \in 1 .. Len(a.readyQ) : a.readyQ[i] \in Pcb /\ a.readyQ[i] /= t
      BY <1>6, <1>10 DEF KernelInv
    <2>2. \A i \in 1 .. Len(a.readyQ) : b.state[a.readyQ[i]] = a.state[a.readyQ[i]]
      BY <1>9, <2>1
    <2> QED BY <1>6, <1>8, <1>10, <2>2, KernelInvFrame, Zenon
  <1>12. /\ b.used[butler]
         /\ \A i \in 1 .. Len(b.readyQ) : b.readyQ[i] /= butler
         /\ \A i \in 1 .. Len(b.terminatedQ) : b.terminatedQ[i] /= butler
    <2>1. b.state[butler] = "PAUSED"
      BY <1>1, <1>2, <1>9
    <2> QED BY <1>10, <1>11, <2>1 DEF KernelInv
  <1>13. /\ KernelInv(r, live \cup {butler})
         /\ r.readyQ = Append(b.readyQ, butler)
         /\ r.state = [b.state EXCEPT ![butler] = "READY"]
         /\ r.terminatedQ = b.terminatedQ /\ SameCpu(r, b)
    BY <1>1, <1>8, <1>10, <1>11, <1>12, UnblockInner, Zenon
  <1> HIDE DEF r
  <1>14. live \cup {butler} = live
    BY <1>10
  <1>15. /\ r.postponeTaskCounter = 1 /\ r.irqDisableCounter = 1 /\ r.intr = FALSE
         /\ r.taskChangePostponedFlag /\ r.currentPCB = t /\ r.idle = NULL
         /\ r.used = k.used
    BY <1>7, <1>8, <1>13 DEF SameCpu
  <1>16. /\ r.state[butler] = "READY" /\ r.state[t] = "TERMINATED"
         /\ b.readyQ = k.readyQ /\ b.readyQ \in Seq(Pcb)
    <2>1. b.state \in [Pcb -> State] /\ b.readyQ \in Seq(Pcb)
      BY <1>8, Zenon DEF KernelType
    <2>2. b.readyQ = k.readyQ
      BY <1>4, <1>6, <1>8, Zenon DEF SameData
    <2>3. r.state = [b.state EXCEPT ![butler] = "READY"] /\ b.state[t] = "TERMINATED"
      BY <1>9, <1>13, Zenon
    <2> QED BY <1>1, <1>2, <2>1, <2>2, <2>3
  <1>17. /\ Len(r.readyQ) = Len(k.readyQ) + 1 /\ Len(k.readyQ) \in Nat
         /\ r.readyQ[Len(r.readyQ)] = butler
         /\ \A i \in 1 .. Len(k.readyQ) : i \in 1 .. Len(r.readyQ) /\ r.readyQ[i] = k.readyQ[i]
    <2>1. /\ Len(r.readyQ) = Len(k.readyQ) + 1 /\ Len(k.readyQ) \in Nat
          /\ r.readyQ[Len(r.readyQ)] = butler
          /\ \A i \in 1 .. Len(k.readyQ) : r.readyQ[i] = k.readyQ[i]
      BY <1>1, <1>13, <1>16
    <2> QED BY <2>1
  <1>18. Mid(r, live)
    <2>1. ASSUME NEW u \in live, u /= t
          PROVE  \E i \in 1 .. Len(r.readyQ) : r.readyQ[i] = u
      <3>1. CASE u = butler
        <4>1. Len(r.readyQ) \in 1 .. Len(r.readyQ)
          BY <1>17
        <4> QED BY <3>1, <4>1, <1>17
      <3>2. CASE u /= butler
        <4>1. PICK i \in 1 .. Len(k.readyQ) : k.readyQ[i] = u
          BY <1>1, <1>2, <2>1, <3>2 DEF Stable, PlaceInv
        <4> QED BY <4>1, <1>17
      <3> QED BY <3>1, <3>2
    <2>2. Len(r.readyQ) /= 0 /\ t \notin live
      BY <1>17
    <2> QED BY <1>2, <1>10, <1>13, <1>14, <1>15, <1>16, <2>1, <2>2, Zenon DEF Mid
  <1>19. /\ Stable(k', live) /\ k'.used = k.used /\ k'.terminatedQ = r.terminatedQ
         /\ Handover(r, k')
    BY <1>2, <1>10, <1>15, <1>18, UnlockAndScheduleStable, Zenon
  <1>20. k'.terminatedQ = Append(k.terminatedQ, t) /\ k.terminatedQ \in Seq(Pcb)
    <2>1. k.terminatedQ \in Seq(Pcb)
      BY <1>1, Zenon DEF KernelType
    <2>2. l.terminatedQ = k.terminatedQ
      BY <1>4, Zenon DEF SameData
    <2>3. /\ k'.terminatedQ = r.terminatedQ /\ r.terminatedQ = b.terminatedQ
          /\ b.terminatedQ = a.terminatedQ
      BY <1>8, <1>13, <1>19
    <2>4. a.terminatedQ = Append(l.terminatedQ, t)
      BY <1>6
    <2> QED BY <2>1, <2>2, <2>3, <2>4
  <1>21. /\ pc' \in [Pcb -> [at : Place, i : 0 .. MAX_TASKS]]
         /\ pc'[t].at = "dead" /\ \A u \in Pcb \ {t} : pc'[u] = pc[u]
         /\ Live' = live
    BY <1>1, <1>2, GotoFacts
  <1>22. \A u \in Pcb : Creating(u)' => Creating(u)
    BY <1>21 DEF Creating
  <1>23. ASSUME NEW u \in Pcb
         PROVE  HoldsPcb(u)'
    <2>1. CASE u = t
      BY <1>21, <2>1 DEF HoldsPcb
    <2>2. CASE u /= t
      <3>1. HoldsPcb(u) /\ pc'[u] = pc[u]
        BY <1>1, <1>21, <2>2 DEF CreateInv
      <3>2. ASSUME pc[u].at = "create"
            PROVE  \A i \in 1 .. Len(k'.terminatedQ) : k'.terminatedQ[i] /= pc[u].i
        <4>1. pc[u].i /= t /\ \A i \in 1 .. Len(k.terminatedQ) : k.terminatedQ[i] /= pc[u].i
          BY <1>5, <3>1, <3>2 DEF HoldsPcb
        <4>2. \A i \in 1 .. Len(k'.terminatedQ) :
                 k'.terminatedQ[i] = t \/ (i \in 1 .. Len(k.terminatedQ)
                                            /\ k'.terminatedQ[i] = k.terminatedQ[i])
          BY <1>20
        <4> QED BY <4>1, <4>2
      <3> QED BY <1>19, <1>21, <3>1, <3>2 DEF HoldsPcb
    <2> QED BY <2>1, <2>2
  <1>24. CreateInv'
    BY <1>1, <1>10, <1>21, <1>22, <1>23 DEF CreateInv
  <1>25. /\ k'.currentPCB = Head(Append(k.readyQ, butler))
         /\ k'.readyQ = Tail(Append(k.readyQ, butler))
    <2>1. /\ r.readyQ = Append(k.readyQ, butler) /\ r.readyQ /= <<>>
          /\ r.taskChangePostponedFlag /\ r.state[r.currentPCB] /= "RUNNING"
      BY <1>13, <1>15, <1>16, <1>17
    <2> QED BY <1>19, <2>1 DEF Handover
  <1> QED BY <1>19, <1>21, <1>24, <1>25, Establish
(* The frame of an API call of the butler: PerformButler changes no program
   counter, and its PCBs stay with whoever creates a task. *)
LEMMA SamePcInv ==
    ASSUME SchedulerInv, pc' = pc, Stable(k', Live),
           \A x \in Pcb : ~k.used[x] => ~k'.used[x],
           \A x \in Pcb : k.used[x] /\ ~k'.used[x] =>
               \E i \in 1 .. Len(k.terminatedQ) : k.terminatedQ[i] = x,
           \A i \in 1 .. Len(k'.terminatedQ) :
               \E j \in 1 .. Len(k.terminatedQ) : k.terminatedQ[j] = k'.terminatedQ[i]
    PROVE  SchedulerInv'
  <1>1. /\ CreateInv /\ Live' = Live
        /\ pc' \in [Pcb -> [at : Place, i : 0 .. MAX_TASKS]]
    BY InvFacts DEF Live, Alive
  <1>2. \A u \in Pcb : Creating(u)' <=> Creating(u)
    BY DEF Creating
  <1>3. ASSUME NEW u \in Pcb
        PROVE  HoldsPcb(u)'
    <2>1. HoldsPcb(u)
      BY <1>1, Zenon DEF CreateInv
    <2> QED BY <1>1, <2>1, SMTT(30) DEF HoldsPcb
  <1>4. CreateInv'
    BY <1>1, <1>2, <1>3 DEF CreateInv
  <1> QED BY <1>1, <1>4, Establish

(* PerformButler frees the first terminated task, or parks when there is none. *)
LEMMA PerformButlerInv ==
    ASSUME SchedulerInv, PerformButler
    PROVE  /\ SchedulerInv'
           /\ \/ k'.readyQ = k.readyQ /\ k'.currentPCB = k.currentPCB
              \/ k.readyQ = <<>> /\ k'.readyQ = <<>> /\ k'.currentPCB = NULL
              \/ /\ k.readyQ /= <<>> /\ k'.readyQ = Tail(k.readyQ)
                 /\ k'.currentPCB = Head(k.readyQ)
  <1> DEFINE l == LockAndPostpone(k)
             work == l.terminatedList.head
  <1>1. /\ TypeOK /\ Stable(k, Live) /\ CreateInv /\ k \in KernelType /\ pc' = pc
        /\ Live \in SUBSET Pcb /\ butler \in Live /\ butler \in Pcb /\ NULL \notin Pcb
        /\ k.currentPCB = butler /\ k.currentPCB /= NULL
    BY InvFacts DEF TypeOK, PerformButler, Runs
  <1>2. /\ Mid(l, Live) /\ k.state[k.currentPCB] = "RUNNING" /\ k.idle = NULL
        /\ SameData(l, k) /\ l \in KernelType
        /\ l.postponeTaskCounter = 1 /\ l.irqDisableCounter = 1
        /\ l.intr = FALSE /\ l.taskChangePostponedFlag = FALSE
    BY <1>1, LockMid, Zenon
  <1>3. KernelInv(l, Live) /\ l.currentPCB = butler /\ l.idle = NULL
    BY <1>1, <1>2 DEF Mid, SameData
  <1>4. CASE work = NULL
    <2> DEFINE b == BlockProcess(l, "PAUSED")
    <2>1. k' = UnlockAndSchedule(b)
      BY <1>4 DEF PerformButler
    <2> HIDE DEF l
    <2>2. l.currentPCB \in Pcb /\ "PAUSED" \in State
      BY <1>1, <1>3 DEF State
    <2>3. /\ b \in KernelType
          /\ b.state = [l.state EXCEPT ![l.currentPCB] = "PAUSED"]
          /\ b.next = l.next /\ b.used = l.used /\ b.sleepingList = l.sleepingList
          /\ b.readyList = l.readyList /\ b.readyQ = l.readyQ
          /\ b.terminatedList = l.terminatedList /\ b.terminatedQ = l.terminatedQ
          /\ b.currentPCB = l.currentPCB /\ b.idle = l.idle
          /\ b.postponeTaskCounter = 1 /\ b.irqDisableCounter = 1 /\ b.intr = FALSE
          /\ b.taskChangePostponedFlag
      BY <1>2, <2>2, BlockInner, Zenon
    <2> HIDE DEF b
    <2>4. /\ l.state \in [Pcb -> State] /\ b.state[butler] = "PAUSED"
          /\ \A u \in Pcb \ {butler} : b.state[u] = l.state[u]
      BY <1>1, <1>2, <1>3, <2>3 DEF KernelType
    <2>5. \A i \in 1 .. Len(l.readyQ) : l.readyQ[i] \in Pcb /\ l.readyQ[i] /= butler
      <3>1. \A i \in 1 .. Len(l.readyQ) : l.readyQ[i] /= butler
        BY <1>1, <1>2, <1>3, MidFacts, Zenon
      <3>2. \A i \in 1 .. Len(l.readyQ) : l.readyQ[i] \in Pcb
        BY <1>1, <1>3, Zenon DEF KernelInv
      <3> QED BY <3>1, <3>2, Zenon
    <2>6. KernelInv(b, Live)
      BY <1>1, <1>3, <2>3, <2>4, <2>5, KernelInvFrame, SMTT(30)
    <2>7. Len(b.terminatedQ) = 0
      <3>1. l.terminatedQ \in Seq(Pcb)
        BY <1>2 DEF KernelType
      <3>2. Len(l.terminatedQ) /= 0 => l.terminatedQ[1] \in Pcb
        BY <3>1
      <3> QED BY <1>1, <1>3, <1>4, <2>3, <3>2, SMTT(30) DEF KernelInv, Represents
    <2>8. \A u \in Live : u /= butler => \E i \in 1 .. Len(b.readyQ) : b.readyQ[i] = u
      BY <1>2, <1>3, <2>3 DEF Mid
    <2>9. Mid(b, Live)
      BY <1>1, <1>3, <2>3, <2>4, <2>6, <2>7, <2>8 DEF Mid
    <2>10. /\ Stable(k', Live) /\ k'.used = b.used /\ k'.terminatedQ = b.terminatedQ
           /\ Handover(b, k')
      BY <1>1, <2>1, <2>3, <2>9, UnlockAndScheduleStable, Zenon
    <2>11. k'.used = k.used /\ k'.terminatedQ = k.terminatedQ
      BY <1>2, <2>3, <2>10 DEF SameData
    <2>12. b.readyQ = k.readyQ /\ b.state[b.currentPCB] /= "RUNNING" /\ b.taskChangePostponedFlag
      BY <1>2, <1>3, <2>3, <2>4 DEF SameData
    <2>13. \/ k.readyQ = <<>> /\ k'.readyQ = <<>> /\ k'.currentPCB = NULL
           \/ /\ k.readyQ /= <<>> /\ k'.readyQ = Tail(k.readyQ)
              /\ k'.currentPCB = Head(k.readyQ)
      BY <2>10, <2>12 DEF Handover
    <2> QED BY <1>1, <2>10, <2>11, <2>13, SamePcInv
  <1>5. CASE work /= NULL
    <2> DEFINE list == Unlink(l.next, l.terminatedList)
               q == Tail(l.terminatedQ)
               us == [l.used EXCEPT ![work] = FALSE]
               f == [l EXCEPT !.terminatedList = list, !.terminatedQ = q, !.used = us]
    <2>1. work \in Pcb
      BY <1>2, <1>5 DEF KernelType, PcbPtr
    <2>2. k' = UnlockAndSchedule(f)
      <3>1. PcbFree([l EXCEPT !.terminatedList = list, !.terminatedQ = q], work) = f
        <4> HIDE DEF l, list, q
        <4> QED BY <1>2, <2>1 DEF KernelType, PcbFree
      <3>2. k' = UnlockAndSchedule(PcbFree([l EXCEPT !.terminatedList = list,
                                                     !.terminatedQ = q], work))
        BY <1>5 DEF PerformButler
      <3> QED BY <3>1, <3>2
    <2> HIDE DEF l
    <2>3. /\ l.next \in [Pcb -> PcbPtr] /\ l.terminatedList \in ListType
          /\ l.terminatedQ \in Seq(Pcb) /\ l.used \in [Pcb -> BOOLEAN]
      BY <1>2 DEF KernelType, ListType
    <2>4. Represents(l.terminatedList, l.next, l.terminatedQ)
      BY <1>3 DEF KernelInv
    <2>5. /\ Len(l.terminatedQ) \in Nat \ {0} /\ work = l.terminatedQ[1]
          /\ list \in ListType /\ q \in Seq(Pcb)
          /\ Represents(list, l.next, q) /\ Len(q) = Len(l.terminatedQ) - 1
          /\ \A i \in 1 .. Len(q) : q[i] = l.terminatedQ[i + 1] /\ q[i] /= l.terminatedQ[1]
      BY <1>5, <2>3, <2>4, UnlinkRepresents
    <2>6. \A i \in 1 .. Len(q) : i + 1 \in 1 .. Len(l.terminatedQ)
      BY <2>5
    <2>7. /\ us \in [Pcb -> BOOLEAN] /\ ~us[work]
          /\ \A x \in Pcb \ {work} : us[x] = l.used[x]
      BY <2>1, <2>3, Zenon
    <2>8. 1 \in 1 .. Len(l.terminatedQ)
      BY <2>5
    <2>9. work \notin Live
      BY <1>3, <2>5, <2>8 DEF KernelInv
    <2> HIDE DEF list, q, us
    <2>10. f \in KernelType
      BY <1>2, <2>5, <2>7, Zenon DEF KernelType, ListType
    <2>11. /\ f.state = l.state /\ f.next = l.next /\ f.used = us
           /\ f.sleepingList = l.sleepingList /\ f.readyList = l.readyList
           /\ f.readyQ = l.readyQ /\ f.terminatedList = list /\ f.terminatedQ = q
           /\ f.currentPCB = l.currentPCB /\ f.idle = l.idle
           /\ f.postponeTaskCounter = 1 /\ f.irqDisableCounter = 1 /\ f.intr = FALSE
           /\ f.taskChangePostponedFlag = FALSE
      BY <1>2 DEF KernelType
    <2> HIDE DEF f
    <2>12. \A i \in 1 .. Len(q) : q[i] \notin Live /\ us[q[i]]
      <3>1. ASSUME NEW i \in 1 .. Len(q)
            PROVE  q[i] \notin Live /\ us[q[i]]
        <4>1. q[i] = l.terminatedQ[i + 1] /\ i + 1 \in 1 .. Len(l.terminatedQ)
              /\ q[i] \in Pcb /\ q[i] /= work
          BY <2>5, <2>6
        <4>2. l.terminatedQ[i + 1] \notin Live /\ l.used[l.terminatedQ[i + 1]]
          BY <1>3, <4>1 DEF KernelInv
        <4> QED BY <2>7, <4>1, <4>2
      <3> QED BY <3>1
    <2>13. \A u \in Live : us[u] = l.used[u]
      BY <1>1, <2>7, <2>9
    <2>14. KernelInv(f, Live)
      <3>1. Represents(f.terminatedList, f.next, f.terminatedQ)
        BY <2>5, <2>11
      <3>2. \A i \in 1 .. Len(f.terminatedQ) :
               f.terminatedQ[i] \notin Live /\ f.used[f.terminatedQ[i]]
        BY <2>11, <2>12
      <3>3. \A u \in Live : f.used[u]
        BY <1>3, <2>11, <2>13 DEF KernelInv
      <3> QED BY <1>3, <2>10, <2>11, <3>1, <3>2, <3>3 DEF KernelInv
    <2>15. l.state[butler] = "RUNNING"
      BY <1>1, <1>2 DEF SameData
    <2>16. Mid(f, Live)
      BY <1>1, <1>2, <1>3, <2>11, <2>14, <2>15 DEF Mid
    <2>17. Stable(k', Live) /\ k'.used = us /\ k'.terminatedQ = q
      BY <1>1, <2>2, <2>11, <2>16, UnlockAndScheduleStable, Zenon
    <2>18. k.used = l.used /\ k.terminatedQ = l.terminatedQ
      BY <1>2 DEF SameData
    <2>19. \A x \in Pcb : ~k.used[x] => ~k'.used[x]
      BY <2>7, <2>17, <2>18
    <2>20. \A x \in Pcb : k.used[x] /\ ~k'.used[x] =>
               \E i \in 1 .. Len(k.terminatedQ) : k.terminatedQ[i] = x
      BY <2>5, <2>7, <2>8, <2>17, <2>18
    <2>21. \A i \in 1 .. Len(k'.terminatedQ) :
               \E j \in 1 .. Len(k.terminatedQ) : k.terminatedQ[j] = k'.terminatedQ[i]
      BY <2>5, <2>6, <2>17, <2>18
    <2>22. k'.readyQ = k.readyQ /\ k'.currentPCB = k.currentPCB
      <3>1. /\ f.readyQ = k.readyQ /\ f.currentPCB = k.currentPCB
            /\ ~f.taskChangePostponedFlag
        BY <1>2, <2>11 DEF SameData
      <3>2. k'.readyQ = f.readyQ /\ k'.currentPCB = f.currentPCB
        <4>1. Handover(f, k')
          BY <1>1, <2>2, <2>11, <2>16, UnlockAndScheduleStable, Zenon
        <4> QED BY <3>1, <4>1 DEF Handover
      <3> QED BY <3>1, <3>2
    <2> QED BY <1>1, <2>17, <2>19, <2>20, <2>21, <2>22, SamePcInv
  <1> QED BY <1>4, <1>5
(* The timer interrupt: a full API call of whoever has the CPU, or nothing at all
   for the lists when the CPU idles. *)
LEMMA TimerInterruptInv ==
    ASSUME SchedulerInv, TimerInterrupt
    PROVE  /\ SchedulerInv'
           /\ \/ k'.readyQ = k.readyQ /\ k'.currentPCB = k.currentPCB
              \/ /\ k.currentPCB /= NULL /\ k.readyQ /= <<>>
                 /\ k'.currentPCB = Head(k.readyQ)
                 /\ k'.readyQ = Append(Tail(k.readyQ), k.currentPCB)
  <1> DEFINE l == LockAndPostpone(k)
             h == IrqTimerHandler(l)
             r == UnlockAndSchedule(h)
  <1>1. /\ TypeOK /\ Stable(k, Live) /\ CreateInv /\ k \in KernelType /\ pc' = pc
        /\ Live \in SUBSET Pcb /\ butler \in Live /\ butler \in Pcb /\ NULL \notin Pcb
        /\ k.sleepingList.head = NULL
    BY InvFacts, Zenon DEF TypeOK, TimerInterrupt, Stable, KernelInv
  <1>2. k' = [r EXCEPT !.intr = @ \/ k.idle /= NULL]
    <2>1. LockAndPostpone([k EXCEPT !.intr = FALSE]) = l
      BY <1>1, Zenon DEF LockAndPostpone, LockScheduler, KernelType
    <2> QED BY <2>1, Zenon DEF TimerInterrupt, timer_handler
  <1>3. /\ k.postponeTaskCounter = 0 /\ k.intr /\ ~k.taskChangePostponedFlag
        /\ k.irqDisableCounter = IF k.idle = NULL THEN 0 ELSE 1
    BY <1>1 DEF Stable, Balanced
  <1>4. /\ l \in KernelType /\ SameData(l, k) /\ l.intr = FALSE
        /\ l.postponeTaskCounter = 1 /\ l.irqDisableCounter = k.irqDisableCounter + 1
        /\ l.taskChangePostponedFlag = k.taskChangePostponedFlag
    <2>1. /\ l \in KernelType /\ SameData(l, k) /\ l.intr = FALSE
          /\ l.postponeTaskCounter = k.postponeTaskCounter + 1
          /\ l.irqDisableCounter = k.irqDisableCounter + 1
          /\ l.taskChangePostponedFlag = k.taskChangePostponedFlag
      BY <1>1, LockData, Zenon
    <2> HIDE DEF l
    <2> QED BY <1>3, <2>1
  <1> HIDE DEF l
  <1>5. /\ l.sleepingList.head = NULL /\ l.currentPCB = k.currentPCB
        /\ l.currentPCB /= NULL => l.currentPCB \in Pcb
    BY <1>1, <1>4 DEF SameData, KernelType, PcbPtr
  <1>6. /\ h \in KernelType /\ h.sleepingList.head = NULL
        /\ h.state = l.state /\ h.next = l.next /\ h.used = l.used
        /\ h.readyList = l.readyList /\ h.readyQ = l.readyQ
        /\ h.terminatedList = l.terminatedList /\ h.terminatedQ = l.terminatedQ
        /\ h.currentPCB = l.currentPCB /\ h.idle = l.idle /\ h.intr = l.intr
        /\ h.irqDisableCounter = l.irqDisableCounter
        /\ h.postponeTaskCounter = l.postponeTaskCounter
        /\ l.taskChangePostponedFlag => h.taskChangePostponedFlag
        /\ l.currentPCB = NULL => h.taskChangePostponedFlag = l.taskChangePostponedFlag
    BY <1>4, <1>5, IrqTimerHandlerFacts, Zenon
  <1> HIDE DEF h
  <1>7. KernelInv(h, Live)
    <2>1. KernelInv(k, Live)
      BY <1>1, Zenon DEF Stable
    <2>2. KernelInv(l, Live)
      BY <1>1, <1>4, <2>1, KernelInvFrame, Zenon DEF SameData
    <2>3. /\ h.next = l.next /\ h.used = l.used /\ h.state = l.state
          /\ h.readyList = l.readyList /\ h.readyQ = l.readyQ
          /\ h.terminatedList = l.terminatedList /\ h.terminatedQ = l.terminatedQ
          /\ h.sleepingList.head = NULL /\ h \in KernelType
      BY <1>6, Zenon
    <2> QED BY <1>1, <2>2, <2>3, KernelInvNoSleeper, Zenon
  <1>8. /\ h.state = k.state /\ h.readyQ = k.readyQ /\ h.used = k.used
        /\ h.terminatedQ = k.terminatedQ
        /\ h.currentPCB = k.currentPCB /\ h.idle = k.idle
    BY <1>4, <1>6 DEF SameData
  <1>9. CASE k.currentPCB /= NULL
    <2>1. /\ k.idle = NULL /\ k.currentPCB \in Live
          /\ k.state[k.currentPCB] = "RUNNING"
      BY <1>1, <1>9 DEF Stable, PlaceInv
    <2>2. Mid(h, Live)
      BY <1>1, <1>7, <1>8, <2>1 DEF Mid, Stable, PlaceInv
    <2>3. h.postponeTaskCounter = 1 /\ h.irqDisableCounter = 1 /\ h.intr = FALSE
      BY <1>3, <1>4, <1>6, <2>1
    <2>4. /\ Stable(r, Live) /\ r.used = h.used /\ r.terminatedQ = h.terminatedQ
          /\ Handover(h, r)
      BY <1>1, <2>2, <2>3, UnlockAndScheduleStable, Zenon
    <2> HIDE DEF r
    <2>5. r \in KernelType /\ r.intr = TRUE
      BY <2>4, Zenon DEF Stable, KernelInv, Balanced, KernelType
    <2>6. k' = r
      BY <1>2, <2>5 DEF KernelType
    <2>7. \/ k'.readyQ = k.readyQ /\ k'.currentPCB = k.currentPCB
          \/ /\ k.currentPCB /= NULL /\ k.readyQ /= <<>>
             /\ k'.currentPCB = Head(k.readyQ)
             /\ k'.readyQ = Append(Tail(k.readyQ), k.currentPCB)
      BY <1>8, <1>9, <2>1, <2>4, <2>6 DEF Handover
    <2> QED BY <1>1, <1>8, <2>4, <2>6, <2>7, SamePcInv
  <1>10. CASE k.currentPCB = NULL
    <2>1. k.idle = butler /\ k.idle /= NULL /\ Len(k.readyQ) = 0
      BY <1>1, <1>10 DEF Stable, PlaceInv
    <2>2. /\ h.postponeTaskCounter = 1 /\ h.irqDisableCounter = 2 /\ h.intr = FALSE
          /\ ~h.taskChangePostponedFlag
      BY <1>3, <1>4, <1>5, <1>6, <1>10, <2>1
    <2>3. /\ r \in KernelType /\ SameData(r, h)
          /\ r.postponeTaskCounter = h.postponeTaskCounter - 1
          /\ r.irqDisableCounter = h.irqDisableCounter - 1
          /\ r.intr = IF h.irqDisableCounter = 1 THEN TRUE ELSE h.intr
          /\ r.taskChangePostponedFlag = h.taskChangePostponedFlag
      BY <1>6, <2>2, PlainUnlock, Zenon
    <2> HIDE DEF r
    <2>4. k' = [r EXCEPT !.intr = TRUE]
      <3>1. (r.intr \/ k.idle /= NULL) = TRUE
        BY <2>1, Zenon
      <3>2. k' = [r EXCEPT !.intr = (r.intr \/ k.idle /= NULL)]
        BY <1>2
      <3> QED BY <3>1, <3>2, Zenon
    <2>5. /\ k' \in KernelType /\ SameData(k', r) /\ k'.intr = TRUE
          /\ k'.postponeTaskCounter = r.postponeTaskCounter
          /\ k'.irqDisableCounter = r.irqDisableCounter
          /\ k'.taskChangePostponedFlag = r.taskChangePostponedFlag
      BY <2>3, <2>4, Zenon DEF KernelType, SameData
    <2>6. KernelInv(k', Live)
      <3>1. SameData(k', h)
        BY <2>3, <2>5 DEF SameData
      <3> QED BY <1>1, <1>7, <2>5, <3>1, KernelInvFrame DEF SameData
    <2>7. /\ k'.state = k.state /\ k'.readyQ = k.readyQ /\ k'.used = k.used
          /\ k'.terminatedQ = k.terminatedQ
          /\ k'.currentPCB = k.currentPCB /\ k'.idle = k.idle
      BY <1>8, <2>3, <2>5 DEF SameData
    <2>8. /\ k'.postponeTaskCounter = 0 /\ k'.irqDisableCounter = 1
          /\ ~k'.taskChangePostponedFlag
      BY <2>2, <2>3, <2>5
    <2>9. Stable(k', Live)
      <3>1. PlaceInv(k', Live)
        <4>1. PlaceInv(k, Live)
          BY <1>1, Zenon DEF Stable
        <4> QED BY <2>7, <4>1 DEF PlaceInv
      <3>2. Balanced(k')
        BY <2>1, <2>5, <2>7, <2>8 DEF Balanced
      <3> QED BY <2>6, <3>1, <3>2 DEF Stable
    <2> QED BY <1>1, <2>7, <2>9, SamePcInv
  <1> QED BY <1>9, <1>10
(* The idle loop finds nothing: with no task asleep only the butler can idle, and
   then no task is left that could put one on the ready list. *)
LEMMA IdleCheckInv ==
    ASSUME SchedulerInv, IdleCheck
    PROVE  SchedulerInv'
  <1>1. Stable(k, Live) /\ k.idle /= NULL /\ k.readyList.head /= NULL
    BY InvFacts DEF IdleCheck
  <1>2. Len(k.readyQ) = 0
    BY <1>1 DEF Stable, PlaceInv
  <1>3. k.readyList.head = NULL
    BY <1>1, <1>2 DEF Stable, KernelInv, Represents
  <1> QED BY <1>1, <1>3

(* InitScheduler establishes the invariant. *)
LEMMA InitInv ==
    ASSUME InitScheduler
    PROVE  SchedulerInv
  <1>1. butler \in Pcb /\ NULL \notin Pcb /\ 0 \in 0 .. MAX_TASKS
    BY KernelAssumption DEF butler, Pcb, NULL
  <1>2. /\ pc = [t \in Pcb |-> IF t = butler THEN At("run", 0) ELSE At("dead", 0)]
        /\ k.state = [t \in Pcb |-> "RUNNING"] /\ k.next = [t \in Pcb |-> NULL]
        /\ k.used = [t \in Pcb |-> t = butler] /\ k.readyList = EmptyList
        /\ k.sleepingList = EmptyList /\ k.terminatedList = EmptyList
        /\ k.readyQ = <<>> /\ k.terminatedQ = <<>> /\ k.currentPCB = butler
        /\ k.idle = NULL /\ k.intr = TRUE /\ k.irqDisableCounter = 0
        /\ k.postponeTaskCounter = 0 /\ k.taskChangePostponedFlag = FALSE
    BY DEF InitScheduler
  <1>3. k \in KernelType
    <2>1. EmptyList \in [head : PcbPtr, tail : PcbPtr]
      BY DEF EmptyList, PcbPtr
    <2>2. [t \in Pcb |-> t = butler] \in [Pcb -> BOOLEAN]
      OBVIOUS
    <2>3. /\ [t \in Pcb |-> "RUNNING"] \in [Pcb -> State]
          /\ [t \in Pcb |-> NULL] \in [Pcb -> PcbPtr]
          /\ [t \in Pcb |-> 0] \in [Pcb -> Nat]
          /\ [t \in Pcb |-> 0] \in [Pcb -> 0 .. TIMESLICE]
          /\ <<>> \in Seq(Pcb) /\ butler \in PcbPtr /\ NULL \in PcbPtr
          /\ TRUE \in BOOLEAN /\ FALSE \in BOOLEAN /\ 0 \in Int
      BY <1>1 DEF State, PcbPtr, TIMESLICE
    <2> QED BY <2>1, <2>2, <2>3, Zenon DEF InitScheduler, KernelType
  <1>4. /\ \A t \in Pcb : pc[t] = IF t = butler THEN At("run", 0) ELSE At("dead", 0)
        /\ At("run", 0) = [at |-> "run", i |-> 0] /\ At("dead", 0) = [at |-> "dead", i |-> 0]
    BY <1>2 DEF At
  <1>5. pc \in [Pcb -> [at : Place, i : 0 .. MAX_TASKS]]
    <2>1. /\ At("run", 0) \in [at : Place, i : 0 .. MAX_TASKS]
          /\ At("dead", 0) \in [at : Place, i : 0 .. MAX_TASKS]
      BY <1>1 DEF At, Place
    <2> QED BY <1>2, <2>1
  <1>6. Live = {butler} /\ pc[butler].at = "run"
    BY <1>1, <1>4 DEF Live, Alive
  <1>7. Len(k.readyQ) = 0 /\ Len(k.terminatedQ) = 0
    BY <1>2
  <1>8. KernelInv(k, Live)
    <2>1. k.used[butler]
      BY <1>1, <1>2, Zenon
    <2>2. k.next[butler] = NULL
      BY <1>1, <1>2
    <2>3. EmptyList.head = NULL /\ EmptyList.tail = NULL
      BY DEF EmptyList
    <2> QED BY <1>2, <1>3, <1>6, <1>7, <2>1, <2>2, <2>3 DEF KernelInv, Represents
  <1>9. PlaceInv(k, Live)
    BY <1>1, <1>2, <1>6, <1>7 DEF PlaceInv
  <1>10. LocksBalanced
    BY <1>2 DEF LocksBalanced, Balanced
  <1>11. CreateInv
    <2>1. \A t \in Pcb : pc[t].at \in {"run", "dead"}
      BY <1>4
    <2> QED BY <1>6, <2>1 DEF CreateInv, HoldsPcb, Creating
  <1> QED BY <1>3, <1>5, <1>8, <1>9, <1>10, <1>11 DEF SchedulerInv, TypeOK, Place

(* Every step of patient clients that never sleep keeps the invariant. *)
LEMMA NextInv ==
    ASSUME SchedulerInv, Patient, Sleepers = {}, [Next]_vars
    PROVE  SchedulerInv'
  <1>1. ASSUME NEW t \in Pcb, TaskStep(t)
        PROVE  SchedulerInv'
    <2>1. CASE PcbAllocProbe(t)
      BY <2>1, ProbeInv
    <2>2. CASE PcbAllocTake(t)
      BY <2>2, TakeInv
    <2>3. CASE CreateProcess(t)
      BY <2>3, CreateProcessInv
    <2>4. CASE \E d \in -1 .. MAX_SLEEP : SleepUntil(t, d)
      BY <2>4 DEF SleepUntil
    <2>5. CASE SleepBlock(t)
      <3>1. HoldsPcb(t) /\ pc[t].at = "gap"
        BY <2>5 DEF SchedulerInv, CreateInv, SleepBlock, Runs
      <3> QED BY <3>1 DEF HoldsPcb
    <2>6. CASE TerminateProcess(t)
      BY <2>6, TerminateProcessInv
    <2> QED BY <1>1, <2>1, <2>2, <2>3, <2>4, <2>5, <2>6 DEF TaskStep
  <1>2. CASE EnterButler
    BY <1>2, EnterButlerInv
  <1>3. CASE PerformButler
    BY <1>3, PerformButlerInv
  <1>4. CASE TimerInterrupt
    BY <1>4, TimerInterruptInv
  <1>5. CASE IdleCheck
    BY <1>5, IdleCheckInv
  <1>6. CASE UNCHANGED vars
    BY <1>6, Zenon DEF vars, SchedulerInv, TypeOK, LocksBalanced, CreateInv, HoldsPcb, Live,
                Alive, Creating
  <1> QED BY <1>1, <1>2, <1>3, <1>4, <1>5, <1>6 DEF Next

-----------------------------------------------------------------------------
(* Theorems.                                                               *)

(* The inductive invariant of the scheduler holds for every number of PCBs, as
   long as one task at a time creates, tasks terminate while the butler is
   parked and nobody calls SleepUntil, as in the repository. *)
THEOREM SchedulerInvariant ==
    ASSUME Patient, Sleepers = {}
    PROVE  Spec => []SchedulerInv
  <1>1. InitScheduler => SchedulerInv
    BY InitInv
  <1>2. SchedulerInv /\ [Next]_vars => SchedulerInv'
    BY NextInv
  <1> QED BY <1>1, <1>2, PTL DEF Spec

(* The scheduler's globals and the tasks' positions keep their types. *)
THEOREM TypeCorrect ==
    ASSUME Patient, Sleepers = {}
    PROVE  Spec => []TypeOK
  <1>1. SchedulerInv => TypeOK
    BY DEF SchedulerInv
  <1> QED BY <1>1, SchedulerInvariant, PTL

(* Whenever interrupts are on, LockScheduler, LockAndPostpone and their unlocks
   are balanced, across every task switch. *)
THEOREM LocksAreBalanced ==
    ASSUME Patient, Sleepers = {}
    PROVE  Spec => []LocksBalanced
  <1>1. SchedulerInv => LocksBalanced
    BY DEF SchedulerInv
  <1> QED BY <1>1, SchedulerInvariant, PTL

(* The pointers of the ready and the terminated list hold exactly the PCBs that
   were added and not yet taken, in order, although they share PCB_t.next. *)
THEOREM ListsRepresentQueues ==
    ASSUME Patient, Sleepers = {}
    PROVE  Spec => []ListsAreQueues
  <1>1. SchedulerInv => ListsAreQueues
    BY DEF SchedulerInv, KernelInv, ListsAreQueues
  <1> QED BY <1>1, SchedulerInvariant, PTL

(* No switch, creation, termination or timer interrupt loses a live task or puts
   it in two places: each one has the CPU, waits in the ready list, or is the
   parked butler. *)
THEOREM NoLiveTaskIsLost ==
    ASSUME Patient, Sleepers = {}
    PROVE  Spec => []NoTaskLost
  <1>1. ASSUME SchedulerInv, NEW t \in Pcb, Alive(t)
        PROVE  \/ t = k.currentPCB /\ k.state[t] = "RUNNING" /\ t \notin Range(k.readyQ)
               \/ t /= k.currentPCB /\ k.state[t] = "READY" /\ t \in Range(k.readyQ)
               \/ /\ t /= k.currentPCB /\ k.state[t] = "PAUSED" /\ t \notin Range(k.readyQ)
                  /\ t = butler /\ k.terminatedList.head = NULL
    <2>1. t \in Live /\ KernelInv(k, Live) /\ PlaceInv(k, Live) /\ t /= NULL
      BY <1>1, InvFacts DEF SchedulerInv, Live
    <2>2. Range(k.readyQ) = {k.readyQ[i] : i \in 1 .. Len(k.readyQ)}
      <3>1. k.readyQ \in Seq(Pcb)
        BY <2>1 DEF KernelInv, KernelType
      <3> QED BY <3>1 DEF Range
    <2>3. \A x \in Range(k.readyQ) : k.state[x] = "READY"
      <3>1. \A i \in 1 .. Len(k.readyQ) : k.state[k.readyQ[i]] = "READY"
        BY <2>1, Zenon DEF KernelInv
      <3> QED BY <2>2, <3>1
    <2>4. CASE t = k.currentPCB
      BY <2>1, <2>3, <2>4 DEF PlaceInv
    <2>5. CASE t /= k.currentPCB /\ \E i \in 1 .. Len(k.readyQ) : k.readyQ[i] = t
      BY <2>2, <2>3, <2>5, SMTT(30)
    <2>6. CASE t /= k.currentPCB /\ t = butler /\ k.state[t] = "PAUSED"
      BY <2>1, <2>3, <2>6, ZenonT(30) DEF PlaceInv, KernelInv, Represents
    <2> QED BY <2>1, <2>4, <2>5, <2>6, ZenonT(30) DEF PlaceInv
  <1>2. SchedulerInv => NoTaskLost
    BY <1>1 DEF NoTaskLost
  <1> QED BY <1>2, SchedulerInvariant, PTL

(* What walks along the three lists meet: the two queues, and nobody asleep. *)
LEMMA Walks ==
    ASSUME SchedulerInv
    PROVE  /\ Range(Chain(k.next, k.readyList.head)) = {k.readyQ[i] : i \in 1 .. Len(k.readyQ)}
           /\ Range(Chain(k.next, k.sleepingList.head)) = {}
           /\ Range(Chain(k.next, k.terminatedList.head)) =
                 {k.terminatedQ[i] : i \in 1 .. Len(k.terminatedQ)}
  <1>1. KernelInv(k, Live)
    BY DEF SchedulerInv
  <1>2. /\ k.next \in [Pcb -> PcbPtr] /\ k.readyList \in ListType /\ k.terminatedList \in ListType
        /\ k.readyQ \in Seq(Pcb) /\ k.terminatedQ \in Seq(Pcb) /\ k.sleepingList.head = NULL
    BY <1>1 DEF KernelInv, KernelType, ListType
  <1>3. /\ Chain(k.next, k.readyList.head) = k.readyQ
        /\ Chain(k.next, k.terminatedList.head) = k.terminatedQ
    BY <1>1, <1>2, ChainIsQueue DEF KernelInv
  <1>4. Chain(k.next, NULL) = <<>>
    <2>1. EmptyList \in ListType /\ <<>> \in Seq(Pcb) /\ EmptyList.head = NULL
      BY DEF EmptyList, ListType, PcbPtr
    <2>2. Represents(EmptyList, k.next, <<>>)
      BY DEF EmptyList, Represents
    <2> QED BY <1>2, <2>1, <2>2, ChainIsQueue, Zenon
  <1>5. \A q \in Seq(Pcb) : Range(q) = {q[i] : i \in 1 .. Len(q)}
    BY DEF Range
  <1>6. Range(<<>>) = {}
    BY DEF Range
  <1> QED BY <1>2, <1>3, <1>4, <1>5, <1>6

(* A PCB that the butler freed, or that was never taken, cannot get the CPU: it
   is not current, does not idle and is on none of the lists. *)
THEOREM FreedPcbsAreUnreachable ==
    ASSUME Patient, Sleepers = {}
    PROVE  Spec => []FreedIsUnreachable
  <1>1. ASSUME SchedulerInv, NEW t \in Pcb, ~k.used[t]
        PROVE  /\ t /= k.currentPCB /\ t /= k.idle
               /\ t \notin Range(Chain(k.next, k.readyList.head))
               /\ t \notin Range(Chain(k.next, k.sleepingList.head))
               /\ t \notin Range(Chain(k.next, k.terminatedList.head))
    <2>1. KernelInv(k, Live) /\ PlaceInv(k, Live) /\ butler \in Live /\ NULL \notin Pcb
      BY <1>1, InvFacts DEF SchedulerInv
    <2>2. t \notin Live
      BY <1>1, <2>1 DEF KernelInv
    <2>3. t /= k.currentPCB /\ t /= k.idle
      BY <2>1, <2>2 DEF PlaceInv
    <2>4. /\ \A i \in 1 .. Len(k.readyQ) : k.readyQ[i] /= t
          /\ \A i \in 1 .. Len(k.terminatedQ) : k.terminatedQ[i] /= t
      BY <1>1, <2>1, <2>2 DEF KernelInv
    <2> QED BY <1>1, <2>3, <2>4, Walks
  <1>2. SchedulerInv => FreedIsUnreachable
    BY <1>1 DEF FreedIsUnreachable
  <1> QED BY <1>2, SchedulerInvariant, PTL

(* Walks along the ready, the sleeping and the terminated list, which share the
   next field, never meet the same PCB. *)
THEOREM ListsAreDisjoint ==
    ASSUME Patient, Sleepers = {}
    PROVE  Spec => []ListsDisjoint
  <1>1. ASSUME SchedulerInv
        PROVE  ListsDisjoint
    <2>1. KernelInv(k, Live)
      BY <1>1 DEF SchedulerInv
    <2>2. \A i \in 1 .. Len(k.readyQ), j \in 1 .. Len(k.terminatedQ) : k.readyQ[i] /= k.terminatedQ[j]
      BY <2>1, Zenon DEF KernelInv
    <2> QED BY <1>1, <2>2, Walks DEF ListsDisjoint
  <1> QED BY <1>1, SchedulerInvariant, PTL
=============================================================================
