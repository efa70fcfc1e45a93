-------------------------- MODULE SchedulerKernel --------------------------
(***************************************************************************)
(* The functions of the preemptive scheduler, kernel/multitasking/         *)
(* scheduler.c, with SwitchToTask (asm/scheduler/scheduler.asm) and the    *)
(* timer interrupt handler (drivers/time/timer.c).                         *)
(*                                                                         *)
(* The scheduler's data is one record s, and every C function that changes *)
(* it is an operator from records to records, composed as the C calls are. *)
(* A task that is switched out stands inside Schedule, called from         *)
(* UnlockAndSchedule, and a new one at ProcessStartup: whoever is switched *)
(* in runs UnlockScheduler next.                                           *)
(*                                                                         *)
(* Time is relative: due[t] stands for sleepUntil - counter, used[t] for   *)
(* used /= 0, and quantumLeft stops at 0, as only its sign is tested.      *)
(***************************************************************************)
EXTENDS Integers, Sequences, FiniteSets

CONSTANT MAX_TASKS   \* entries of pcbArray

ASSUME KernelAssumption == MAX_TASKS \in Nat \ {0}

Pcb == 0 .. MAX_TASKS - 1
NULL == -1
PcbPtr == Pcb \cup {NULL}
butler == 0
TIMESLICE == 1

State == {"RUNNING", "READY", "PAUSED", "SLEEPING", "TERMINATED"}

\* Counter units per timer interrupt: timer_handler and IrqTimerHandler both
\* increment counter.
TICK == 2

-----------------------------------------------------------------------------
(* The lists: a head and a tail pointer, chained through PCB_t.next.       *)

EmptyList == [head |-> NULL, tail |-> NULL]

\* The list's head and tail after t is put at its end ...
Extend(list, t) == [head |-> IF list.head = NULL THEN t ELSE list.head, tail |-> t]

\* ... and the next pointers.
Link(next, list, t) ==
    IF list.head = NULL THEN next ELSE [next EXCEPT ![list.tail] = t]

\* Mutant: the tail pointer outlives the last PCB.
UnlinkKeepTail(next, list) == [head |-> next[list.head], tail |-> list.tail]

\* The list's head and tail after its first PCB is taken off.
Unlink(next, list) ==
    LET h == next[list.head]
    IN  [head |-> h, tail |-> IF h = NULL THEN NULL ELSE list.tail]

\* What a walk along next from PCB h meets, cut at MAX_TASKS steps.
Chain(next, h) ==
    LET node[i \in 0 .. MAX_TASKS] ==
            IF i = 0 THEN h
            ELSE IF node[i - 1] = NULL THEN NULL ELSE next[node[i - 1]]
        len == Cardinality({i \in 0 .. MAX_TASKS - 1 : node[i] /= NULL})
    IN  [i \in 1 .. len |-> node[i - 1]]

-----------------------------------------------------------------------------
(* The functions of scheduler.c.                                           *)

LockScheduler(s) == [s EXCEPT !.intr = FALSE, !.irqDisableCounter = @ + 1]

UnlockScheduler(s) ==
    [s EXCEPT !.irqDisableCounter = @ - 1,
              !.intr = IF s.irqDisableCounter - 1 = 0 THEN TRUE ELSE @]

LockAndPostpone(s) ==
    [LockScheduler(s) EXCEPT !.postponeTaskCounter = @ + 1]

\* Mutant: AddReady puts the PCB at the head of the list.
AddReadyFirst(s, t) ==
    IF t = NULL THEN s
    ELSE [s EXCEPT !.state[t] = "READY",
                   !.next[t] = s.readyList.head,
                   !.readyList = [head |-> t,
                                  tail |-> IF s.readyList.head = NULL THEN t ELSE @.tail],
                   !.readyQ = <<t>> \o @]

\* readyQ and terminatedQ are auxiliary: the PCBs added to the list and not
\* yet taken off it, in order.
AddReady(s, t) ==
    IF t = NULL THEN s
    ELSE [s EXCEPT !.state[t] = "READY",
                   !.next = Link([@ EXCEPT ![t] = NULL], s.readyList, t),
                   !.readyList = Extend(@, t),
                   !.readyQ = Append(@, t)]

\* NextReady returns s.readyList.head; this is what it leaves behind.
NextReady(s) ==
    IF s.readyList.head = NULL THEN s
    ELSE [s EXCEPT !.readyList = Unlink(s.next, @),
                   !.next[s.readyList.head] = NULL,
                   !.readyQ = Tail(@)]

\* Mutant: the task that is switched out is not put back on the ready list.
SwitchToTaskNoAdd(s, t) ==
    IF s.postponeTaskCounter /= 0
    THEN [s EXCEPT !.taskChangePostponedFlag = TRUE]
    ELSE [s EXCEPT !.currentPCB = t, !.state[t] = "RUNNING"]

\* The switch itself.  UpdateTimeUsed adds to a used count that is not 0.
SwitchToTask(s, t) ==
    IF s.postponeTaskCounter /= 0
    THEN [s EXCEPT !.taskChangePostponedFlag = TRUE]
    ELSE LET r == IF s.state[s.currentPCB] = "RUNNING"
                  THEN AddReady(s, s.currentPCB) ELSE s
         IN  [r EXCEPT !.currentPCB = t, !.state[t] = "RUNNING"]

Dispatch(s, t) == SwitchToTask([s EXCEPT !.quantumLeft[t] = TIMESLICE], t)

\* With nothing to run the CPU idles inside Schedule, interrupts on, with
\* currentPCB null; idle is the local variable task.
Schedule(s) ==
    IF s.postponeTaskCounter /= 0
    THEN [s EXCEPT !.taskChangePostponedFlag = TRUE]
    ELSE IF s.readyList.head /= NULL
    THEN Dispatch(NextReady(s), s.readyList.head)
    ELSE IF s.state[s.currentPCB] = "RUNNING" THEN s
    ELSE [s EXCEPT !.idle = s.currentPCB, !.currentPCB = NULL, !.intr = TRUE]

\* Mutant: the postponed task change is forgotten.
UnlockAndForget(s) == UnlockScheduler([s EXCEPT !.postponeTaskCounter = @ - 1])

UnlockAndSchedule(s) ==
    LET p    == [s EXCEPT !.postponeTaskCounter = @ - 1]
        swap == p.postponeTaskCounter = 0 /\ p.taskChangePostponedFlag
        r    == IF swap THEN Schedule([p EXCEPT !.taskChangePostponedFlag = FALSE])
                ELSE p
    IN  IF swap /\ r.idle /= NULL THEN r ELSE UnlockScheduler(r)

\* Mutant: BlockProcess never unlocks.
BlockProcessNoUnlock(s, reason) ==
    LET l == LockAndPostpone(s)
    IN  Schedule([l EXCEPT !.state[l.currentPCB] = reason])

BlockProcess(s, reason) ==
    LET l == LockAndPostpone(s)
    IN  UnlockAndSchedule(Schedule([l EXCEPT !.state[l.currentPCB] = reason]))

UnblockProcess(s, t) == UnlockAndSchedule(AddReady(LockAndPostpone(s), t))

AddSleeping(s, t) ==
    IF t = NULL THEN s
    ELSE [s EXCEPT !.state[t] = "SLEEPING",
                   !.next = Link(@, s.sleepingList, t),
                   !.sleepingList = Extend(@, t)]

AddTerminated(s, t) ==
    IF t = NULL THEN s
    ELSE [s EXCEPT !.state[t] = "SLEEPING",
                   !.next = Link(@, s.terminatedList, t),
                   !.terminatedList = Extend(@, t),
                   !.terminatedQ = Append(@, t)]

PcbFree(s, t) == [s EXCEPT !.used[t] = FALSE]

\* Mutant: the PCB keeps its place in the old list.
WakeOrKeepLinked(s, work) ==
    IF s.due[work] <= 0 THEN UnblockProcess(s, work) ELSE AddSleeping(s, work)

\* One turn of IrqTimerHandler's loop over the PCBs that were asleep.
WakeOrKeep(s, work) ==
    LET w == [s EXCEPT !.next[work] = NULL]
    IN  IF w.due[work] <= 0 THEN UnblockProcess(w, work) ELSE AddSleeping(w, work)

WakeAll(s, asleep) ==
    LET pass[i \in 0 .. Len(asleep)] ==
            IF i = 0 THEN s ELSE WakeOrKeep(pass[i - 1], asleep[i])
    IN  pass[Len(asleep)]

IrqTimerHandler(s) ==
    LET detached == [s EXCEPT !.sleepingList = EmptyList,
                              !.due = [t \in Pcb |->
                                         IF @[t] > TICK THEN @[t] - TICK ELSE 0]]
        woken == IF s.sleepingList.head = NULL THEN detached
                 ELSE WakeAll(detached, Chain(s.next, s.sleepingList.head))
        cur   == woken.currentPCB
        left  == IF woken.quantumLeft[cur] > 0 THEN woken.quantumLeft[cur] - 1 ELSE 0
    IN  IF cur = NULL THEN woken
        ELSE LET q == [woken EXCEPT !.quantumLeft[cur] = left]
             IN  IF left <= 0 THEN Schedule(q) ELSE q

\* timer_handler, entered with interrupts off; iret gives them back to an
\* idle loop that it interrupted.
timer_handler(s) ==
    LET r == UnlockAndSchedule(IrqTimerHandler(
                 LockAndPostpone([s EXCEPT !.intr = FALSE])))
    IN  [r EXCEPT !.intr = @ \/ s.idle /= NULL]

-----------------------------------------------------------------------------
(* What the properties and the invariant of module Scheduler say of s.     *)

KernelType ==
    [state : [Pcb -> State], next : [Pcb -> PcbPtr], used : [Pcb -> BOOLEAN],
     due : [Pcb -> Nat], quantumLeft : [Pcb -> 0 .. TIMESLICE],
     readyList : [head : PcbPtr, tail : PcbPtr],
     sleepingList : [head : PcbPtr, tail : PcbPtr],
     terminatedList : [head : PcbPtr, tail : PcbPtr],
     readyQ : Seq(Pcb), terminatedQ : Seq(Pcb), currentPCB : PcbPtr, idle : PcbPtr, intr : BOOLEAN,
     irqDisableCounter : Int, postponeTaskCounter : Int,
     taskChangePostponedFlag : BOOLEAN]

\* Every lock has been given back; the idle loop of Schedule holds one.
Balanced(s) ==
    /\ s.intr
    /\ s.irqDisableCounter = IF s.idle = NULL THEN 0 ELSE 1
    /\ s.postponeTaskCounter = 0
    /\ ~s.taskChangePostponedFlag

\* The pointers represent the sequence q: no PCB twice, null at the end.
Represents(list, next, q) ==
    /\ \A i, j \in 1 .. Len(q) : q[i] = q[j] => i = j
    /\ list.head = IF Len(q) = 0 THEN NULL ELSE q[1]
    /\ list.tail = IF Len(q) = 0 THEN NULL ELSE q[Len(q)]
    /\ \A i \in 1 .. Len(q) : next[q[i]] = IF i = Len(q) THEN NULL ELSE q[i + 1]

\* The kernel record between two C calls, live being the set of live tasks.
KernelInv(s, live) ==
    /\ s \in KernelType
    /\ s.sleepingList.head = NULL
    /\ Represents(s.readyList, s.next, s.readyQ)
    /\ Represents(s.terminatedList, s.next, s.terminatedQ)
    /\ \A i \in 1 .. Len(s.readyQ) :
           s.readyQ[i] \in live /\ s.state[s.readyQ[i]] = "READY"
    /\ \A i \in 1 .. Len(s.terminatedQ) :
           s.terminatedQ[i] \notin live /\ s.used[s.terminatedQ[i]]
    /\ \A t \in live :
           /\ s.used[t]
           /\ (\A i \in 1 .. Len(s.readyQ) : s.readyQ[i] /= t) => s.next[t] = NULL

\* Where each live task is, with interrupts on.
PlaceInv(s, live) ==
    /\ (s.currentPCB = NULL) /= (s.idle = NULL)
    /\ s.idle /= NULL => s.idle = butler /\ Len(s.readyQ) = 0
    /\ s.currentPCB /= NULL =>
          s.currentPCB \in live /\ s.state[s.currentPCB] = "RUNNING"
    /\ \A t \in live : t /= s.currentPCB =>
          \/ \E i \in 1 .. Len(s.readyQ) : s.readyQ[i] = t
          \/ t = butler /\ s.state[t] = "PAUSED"
    /\ s.state[butler] = "PAUSED" => Len(s.terminatedQ) = 0
=============================================================================
