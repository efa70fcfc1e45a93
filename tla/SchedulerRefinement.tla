------------------------ MODULE SchedulerRefinement ------------------------
(***************************************************************************)
(* The scheduler seen through its ready queue and its current task is the  *)
(* round-robin queue of module RoundRobin: the mapping, and the proof for  *)
(* every number of tasks when clients are patient and none of them sleeps. *)
(***************************************************************************)
EXTENDS SchedulerProofs

\* Waiting are the tasks of the ready list; the idle CPU is a null currentPCB.
RR == INSTANCE RoundRobin WITH
        Task <- Pcb, Idle <- NULL, waiting <- k.readyQ, onCpu <- k.currentPCB

(* The scheduler implements the round-robin queue of module RoundRobin: the task
   that gets the CPU is the one at the head of the ready list, a task that gives it
   up goes to the end, and no call reorders those who wait. *)
ImplementsRoundRobin == RR!RoundRobinSpec

-----------------------------------------------------------------------------
(* The refinement: every step is a step of the round-robin queue.          *)

(* The members of a sequence of PCBs. *)
LEMMA Members ==
    ASSUME NEW q \in Seq(Pcb)
    PROVE  RR!ToSet(q) = {q[i] : i \in 1 .. Len(q)}
  BY DEF RR!ToSet

(* The CPU and the ready list as the queue sees them. *)
LEMMA Queue ==
    ASSUME SchedulerInv
    PROVE  /\ k.readyQ \in Seq(Pcb) /\ butler \in Pcb /\ NULL \notin Pcb
           /\ \A i \in 1 .. Len(k.readyQ) : k.readyQ[i] \in Live
           /\ k.currentPCB /= NULL => k.currentPCB \in Live /\ k.currentPCB \in Pcb
  <1>1. KernelInv(k, Live) /\ PlaceInv(k, Live) /\ Live \in SUBSET Pcb
    BY InvFacts DEF SchedulerInv
  <1> QED BY <1>1, InvFacts DEF KernelInv, KernelType, PlaceInv

(* CreateProcess admits the new task, which neither waits nor runs. *)
LEMMA CreateAdmits ==
    ASSUME SchedulerInv, NEW t \in Pcb, CreateProcess(t)
    PROVE  RR!NextRR
  <1> DEFINE new == pc[t].i
  <1>1. k'.readyQ = Append(k.readyQ, new) /\ k'.currentPCB = k.currentPCB
    BY CreateProcessInv
  <1>2. new \in Pcb /\ new \notin Live
    BY DEF SchedulerInv, CreateInv, HoldsPcb, CreateProcess, Runs
  <1>3. new /= k.currentPCB /\ new \notin RR!ToSet(k.readyQ)
    BY <1>2, Queue, Members, SMTT(30)
  <1>4. RR!Admit(new)
    BY <1>1, <1>3 DEF RR!Admit
  <1> QED BY <1>2, <1>4 DEF RR!NextRR

(* TerminateProcess retires the running task and wakes the butler by that. *)
LEMMA TerminateRetires ==
    ASSUME SchedulerInv, Patient, NEW t \in Pcb, TerminateProcess(t)
    PROVE  RR!NextRR
  <1> DEFINE w == <<butler>>
             q == Append(k.readyQ, butler)
  <1>1. /\ k'.currentPCB = Head(q) /\ k'.readyQ = Tail(q)
    BY TerminateProcessInv
  <1>2. /\ k.currentPCB = t /\ t /= butler /\ k.state[butler] = "PAUSED" /\ t /= NULL
    BY SchedulerAssumption, Queue, SMTT(30) DEF TerminateProcess, Runs
  <1>3. \A i \in 1 .. Len(k.readyQ) : k.readyQ[i] /= butler
    BY <1>2 DEF SchedulerInv, KernelInv
  <1>4. k.readyQ \o w = q /\ q /= <<>>
    BY Queue
  <1>5. butler \in Pcb \ RR!ToSet(k.readyQ)
    BY <1>3, Queue, Members, SMTT(30)
  <1>6. RR!Retire(w)
    BY <1>1, <1>2, <1>4, <1>5, SMTT(30) DEF RR!Retire
  <1> QED BY <1>5, <1>6, SMTT(30) DEF RR!NextRR

(* PerformButler retires the butler when it finds nothing to free. *)
LEMMA ButlerRetires ==
    ASSUME SchedulerInv, PerformButler
    PROVE  RR!NextRR \/ UNCHANGED <<k.readyQ, k.currentPCB>>
  <1>1. k.currentPCB /= NULL
    BY Queue DEF PerformButler, Runs
  <1>2. k.readyQ \o <<>> = k.readyQ
    BY Queue
  <1>3. \/ k'.readyQ = k.readyQ /\ k'.currentPCB = k.currentPCB
        \/ RR!Retire(<<>>)
    BY <1>1, <1>2, PerformButlerInv, SMTT(30) DEF RR!Retire
  <1> QED BY <1>3 DEF RR!NextRR

(* The timer interrupt passes the CPU on, or leaves everything as it is. *)
LEMMA TimerRotates ==
    ASSUME SchedulerInv, TimerInterrupt
    PROVE  RR!NextRR \/ UNCHANGED <<k.readyQ, k.currentPCB>>
  BY TimerInterruptInv DEF RR!Rotate, RR!NextRR

(* Every step of the scheduler is a step of the queue or leaves it alone. *)
LEMMA StepImplements ==
    ASSUME SchedulerInv, Patient, Sleepers = {}, [Next]_vars
    PROVE  RR!NextRR \/ UNCHANGED <<k.readyQ, k.currentPCB>>
  <1>1. ASSUME NEW t \in Pcb, TaskStep(t)
        PROVE  RR!NextRR \/ UNCHANGED <<k.readyQ, k.currentPCB>>
    <2>1. CASE PcbAllocProbe(t)
      BY <2>1 DEF PcbAllocProbe
    <2>2. CASE PcbAllocTake(t)
      <3>1. k \in KernelType /\ k' = [k EXCEPT !.used[pc[t].i] = TRUE]
        BY <2>2 DEF PcbAllocTake, SchedulerInv, TypeOK
      <3> QED BY <3>1 DEF KernelType
    <2>3. CASE CreateProcess(t)
      BY <2>3, CreateAdmits, SMTT(30)
    <2>4. CASE \E d \in -1 .. MAX_SLEEP : SleepUntil(t, d)
      BY <2>4 DEF SleepUntil
    <2>5. CASE SleepBlock(t)
      <3>1. HoldsPcb(t) /\ pc[t].at = "gap"
        BY <2>5 DEF SchedulerInv, CreateInv, SleepBlock, Runs
      <3> QED BY <3>1 DEF HoldsPcb
    <2>6. CASE TerminateProcess(t)
      BY <2>6, TerminateRetires, SMTT(30)
    <2> QED BY <1>1, <2>1, <2>2, <2>3, <2>4, <2>5, <2>6, SMTT(30) DEF TaskStep
  <1>2. CASE EnterButler
    BY <1>2 DEF EnterButler
  <1>3. CASE PerformButler
    BY <1>3, ButlerRetires, SMTT(30)
  <1>4. CASE TimerInterrupt
    BY <1>4, TimerRotates, SMTT(30)
  <1>5. CASE IdleCheck
    <2>1. Len(k.readyQ) = 0
      BY <1>5 DEF IdleCheck, SchedulerInv, PlaceInv
    <2> QED BY <1>5, <2>1, SMTT(30) DEF IdleCheck, SchedulerInv, KernelInv, Represents
  <1>6. CASE UNCHANGED vars
    BY <1>6 DEF vars
  <1> QED BY <1>1, <1>2, <1>3, <1>4, <1>5, <1>6, SMTT(30) DEF Next

(* The scheduler implements the round-robin queue: seen as the ready list and the
   running task, whatever API calls and timer interrupts happen, the CPU goes to
   the task that has waited longest, and a task that gives it up waits behind all
   the others. *)
THEOREM SchedulerIsRoundRobin ==
    ASSUME Patient, Sleepers = {}
    PROVE  Spec => ImplementsRoundRobin
  <1>1. InitScheduler => RR!InitRR
    <2>1. butler \in Pcb
      BY KernelAssumption DEF butler, Pcb
    <2> QED BY <2>1 DEF InitScheduler, RR!InitRR
  <1>2. SchedulerInv /\ [Next]_vars => [RR!NextRR]_<<k.readyQ, k.currentPCB>>
    BY StepImplements
  <1> QED BY <1>1, <1>2, SchedulerInvariant, PTL DEF Spec, ImplementsRoundRobin, RR!RoundRobinSpec
=============================================================================
