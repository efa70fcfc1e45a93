----------------------------- MODULE Scheduler -----------------------------
(***************************************************************************)
(* The tasks and the timer interrupt, on one CPU, as they call the         *)
(* functions of module SchedulerKernel.                                    *)
(*                                                                         *)
(* An API call runs from its CLI to the STI that ends it (or to the idle   *)
(* loop) with interrupts off, so it is one action; CreateProcess and       *)
(* SleepUntil, which run partly with interrupts on, take several actions   *)
(* and pc says how far a task has come.                                    *)
(***************************************************************************)
EXTENDS SchedulerKernel, Functions

CONSTANTS
    Creators,    \* PCBs whose task may call CreateProcess
    Sleepers,    \* PCBs whose task may call SleepUntil
    Terminators, \* PCBs whose task may call TerminateProcess
    Patient,     \* TRUE: one task at a time creates, and tasks terminate only
                 \* while the butler is parked; FALSE: any time
    MAX_SLEEP    \* the longest sleep asked for, in counter units

ASSUME SchedulerAssumption ==
    /\ MAX_SLEEP \in Nat
    /\ Patient \in BOOLEAN
    /\ butler \notin Terminators

VARIABLES
    k,    \* the scheduler's globals and the PCBs
    pc    \* where each task is in its own code

vars == <<k, pc>>

-----------------------------------------------------------------------------
(* What tasks do.                                                          *)

At(where, i) == [at |-> where, i |-> i]

\* Task t has the CPU and interrupts are on.
Runs(t, where) == k.intr /\ k.currentPCB = t /\ pc[t].at = where

Goto(t, where, i) == pc' = [pc EXCEPT ![t] = At(where, i)]

Creating(t) == pc[t].at \in {"probe", "take", "create"}

\* PcbAlloc runs with interrupts on: it probes one PCB after the other ...
PcbAllocProbe(t) ==
    /\ UNCHANGED k
    /\ \/ /\ Runs(t, "run") /\ t \in Creators
          /\ Patient => \A u \in Pcb : ~Creating(u)
          /\ Goto(t, "probe", 0)
       \/ /\ Runs(t, "probe") /\ pc[t].i < MAX_TASKS
          /\ IF k.used[pc[t].i] THEN Goto(t, "probe", pc[t].i + 1)
             ELSE Goto(t, "take", pc[t].i)
       \/ /\ Runs(t, "probe") /\ pc[t].i = MAX_TASKS
          /\ Goto(t, "run", 0)

\* Mutant: the PCB is not marked.
PcbAllocTakeFree(t) ==
    Runs(t, "take") /\ Goto(t, "create", pc[t].i) /\ UNCHANGED k

\* ... and marks the one it found.
PcbAllocTake(t) ==
    /\ Runs(t, "take")
    /\ k' = [k EXCEPT !.used[pc[t].i] = TRUE]
    /\ Goto(t, "create", pc[t].i)

\* The rest of CreateProcess: the new task's stack, and the ready list.
CreateProcess(t) ==
    /\ Runs(t, "create")
    /\ LET new == pc[t].i IN
       /\ k' = UnlockAndSchedule(AddReady(LockAndPostpone(
                   [k EXCEPT !.due[new] = MAX_SLEEP, !.quantumLeft[new] = 0]), new))
       /\ pc' = [pc EXCEPT ![t] = At("run", 0), ![new] = At("run", 0)]

\* Mutant: the check that the time lies ahead is missing.
SleepUntilPast(t, d) ==
    /\ Runs(t, "run") /\ t \in Sleepers
    /\ k' = UnlockAndSchedule(AddSleeping([LockAndPostpone(k) EXCEPT !.due[t] = d], t))
    /\ Goto(t, "gap", 0)

\* SleepUntil(when), d being when - counter, up to its own unlock ...
SleepUntil(t, d) ==
    /\ Runs(t, "run") /\ t \in Sleepers
    /\ LET l == LockAndPostpone(k) IN
       IF d < 0 THEN k' = UnlockAndSchedule(l) /\ UNCHANGED pc
       ELSE /\ k' = UnlockAndSchedule(AddSleeping([l EXCEPT !.due[t] = d], t))
            /\ Goto(t, "gap", 0)

\* ... and the BlockProcess after it.
SleepBlock(t) ==
    /\ Runs(t, "gap")
    /\ k' = BlockProcess(k, "SLEEPING")
    /\ Goto(t, "run", 0)

\* Mutant: nobody wakes the butler.
TerminateProcessQuietly(t) ==
    /\ Runs(t, "run") /\ t \in Terminators
    /\ Patient => k.state[butler] = "PAUSED"
    /\ k' = UnlockAndSchedule(
               BlockProcess(AddTerminated(LockAndPostpone(k), t), "TERMINATED"))
    /\ Goto(t, "dead", 0)

TerminateProcess(t) ==
    /\ Runs(t, "run") /\ t \in Terminators
    /\ Patient => k.state[butler] = "PAUSED"
    /\ k' = UnlockAndSchedule(
               UnblockProcess(
                 BlockProcess(AddTerminated(LockAndPostpone(k), t), "TERMINATED"),
                 butler))
    /\ Goto(t, "dead", 0)

\* kernel_main calls PerformButler once it has created its tasks.
EnterButler == Runs(butler, "run") /\ Goto(butler, "butler", 0) /\ UNCHANGED k

\* Mutant: the freed PCB stays on the terminated list.
PerformButlerNoUnlink ==
    /\ Runs(butler, "butler")
    /\ LET l == LockAndPostpone(k)
           work == l.terminatedList.head
       IN  k' = UnlockAndSchedule(IF work = NULL THEN BlockProcess(l, "PAUSED")
                                  ELSE PcbFree(l, work))
    /\ UNCHANGED pc

PerformButler ==
    /\ Runs(butler, "butler")
    /\ LET l == LockAndPostpone(k)
           work == l.terminatedList.head
       IN  k' = UnlockAndSchedule(
                  IF work = NULL THEN BlockProcess(l, "PAUSED")
                  ELSE PcbFree([l EXCEPT !.terminatedList = Unlink(l.next, @),
                                         !.terminatedQ = Tail(@)], work))
    /\ UNCHANGED pc

TimerInterrupt == k.intr /\ k' = timer_handler(k) /\ UNCHANGED pc

\* The idle loop after an interrupt: CLI, and another look at the ready list.
IdleCheck ==
    /\ k.intr /\ k.idle /= NULL
    /\ k.readyList.head /= NULL
    /\ LET n == k.readyList.head
           r == [NextReady([k EXCEPT !.intr = FALSE])
                    EXCEPT !.currentPCB = k.idle, !.idle = NULL]
       IN  k' = UnlockScheduler(IF n /= k.idle THEN Dispatch(r, n)
                                ELSE [r EXCEPT !.quantumLeft[n] = TIMESLICE])
    /\ UNCHANGED pc

InitScheduler ==
    /\ k = [state |-> [t \in Pcb |-> "RUNNING"], next |-> [t \in Pcb |-> NULL],
            used |-> [t \in Pcb |-> t = butler], due |-> [t \in Pcb |-> 0],
            quantumLeft |-> [t \in Pcb |-> 0],
            readyList |-> EmptyList, sleepingList |-> EmptyList,
            terminatedList |-> EmptyList, readyQ |-> <<>>, terminatedQ |-> <<>>,
            currentPCB |-> butler, idle |-> NULL, intr |-> TRUE,
            irqDisableCounter |-> 0, postponeTaskCounter |-> 0,
            taskChangePostponedFlag |-> FALSE]
    /\ pc = [t \in Pcb |-> IF t = butler THEN At("run", 0) ELSE At("dead", 0)]

TaskStep(t) ==
    \/ PcbAllocProbe(t) \/ PcbAllocTake(t) \/ CreateProcess(t)
    \/ \E d \in -1 .. MAX_SLEEP : SleepUntil(t, d)
    \/ SleepBlock(t) \/ TerminateProcess(t)

Next ==
    \/ \E t \in Pcb : TaskStep(t)
    \/ EnterButler \/ PerformButler
    \/ TimerInterrupt \/ IdleCheck

Spec == InitScheduler /\ [][Next]_vars

(* The timer keeps firing, and between two of its interrupts, 10 ms apart, a
   task that was given the CPU gets to execute. *)
Fairness ==
    /\ WF_vars(TimerInterrupt) /\ WF_vars(IdleCheck)
    /\ SF_vars(PerformButler) /\ SF_vars(EnterButler)
    /\ \A t \in Pcb : SF_vars(SleepBlock(t))

FairSpec == Spec /\ Fairness

-----------------------------------------------------------------------------
(* Properties.                                                             *)

(* The types of the scheduler's globals and of the tasks' positions in
   CreateProcess, SleepUntil and PerformButler. *)
TypeOK ==
    /\ k \in KernelType
    /\ pc \in [Pcb -> [at : {"run", "probe", "take", "create", "gap", "butler", "dead"},
                       i : 0 .. MAX_TASKS]]

(* Whenever interrupts are on, every lock has been given back: LockScheduler,
   LockAndPostpone and their unlocks balance on every path through a switch,
   and no postponed task change is left over; only the idle loop inside
   Schedule runs with one lock held. *)
LocksBalanced == Balanced(k)

(* The head, tail and next pointers of the ready list hold exactly the PCBs that
   AddReady put there and NextReady has not taken yet, those of the terminated
   list the PCBs that TerminateProcess left and PerformButler has not freed
   yet, in that order and each of them once, although one next field serves
   both lists. *)
ListsAreQueues ==
    /\ Represents(k.readyList, k.next, k.readyQ)
    /\ Represents(k.terminatedList, k.next, k.terminatedQ)

Alive(t) == pc[t].at /= "dead"

(* Every live task is in exactly one place: it has the CPU (or idles in
   Schedule), or it is READY and in the ready list, or it is the butler, parked
   by PerformButler until a task terminates. *)
NoTaskLost ==
    \A t \in Pcb : Alive(t) =>
        \/ t = k.currentPCB /\ k.state[t] = "RUNNING" /\ t \notin Range(k.readyQ)
        \/ t /= k.currentPCB /\ k.state[t] = "READY" /\ t \in Range(k.readyQ)
        \/ /\ t /= k.currentPCB /\ k.state[t] = "PAUSED" /\ t \notin Range(k.readyQ)
           /\ t = butler /\ k.terminatedList.head = NULL

(* PcbFree never gives away a PCB that can still get the CPU: a free PCB is not
   the current task, does not idle in Schedule and is on no list. *)
FreedIsUnreachable ==
    \A t \in Pcb : ~k.used[t] =>
        /\ t /= k.currentPCB /\ t /= k.idle
        /\ t \notin Range(Chain(k.next, k.readyList.head))
        /\ t \notin Range(Chain(k.next, k.sleepingList.head))
        /\ t \notin Range(Chain(k.next, k.terminatedList.head))

(* The three lists share the next field of the PCBs and still never share a PCB
   nor run into one another. *)
ListsDisjoint ==
    LET ready == Range(Chain(k.next, k.readyList.head))
        asleep == Range(Chain(k.next, k.sleepingList.head))
        dead == Range(Chain(k.next, k.terminatedList.head))
    IN  ready \cap asleep = {} /\ ready \cap dead = {} /\ asleep \cap dead = {}

(* A READY task gets the CPU: Schedule starves none of the tasks in the ready
   list as long as the timer ticks. *)
ReadyTasksRun ==
    \A t \in Pcb : (t \in Range(k.readyQ)) ~> (k.currentPCB = t)

(* The butler gives back the PCB of every task that called TerminateProcess. *)
TerminatedAreReaped ==
    \A t \in Pcb :
        (t \in Range(Chain(k.next, k.terminatedList.head))) ~> ~k.used[t]

-----------------------------------------------------------------------------
(* The inductive invariant, for clients that are patient and do not sleep. *)

Live == {t \in Pcb : Alive(t)}

\* What a task inside CreateProcess holds.
HoldsPcb(t) ==
    /\ pc[t].at = "butler" => t = butler
    /\ pc[t].at /= "gap"
    /\ pc[t].at \in {"take", "create"} => pc[t].i \in Pcb
    /\ pc[t].at = "take" => ~k.used[pc[t].i]
    /\ pc[t].at = "create" =>
          /\ k.used[pc[t].i] /\ pc[t].i \notin Live
          /\ \A i \in 1 .. Len(k.terminatedQ) : k.terminatedQ[i] /= pc[t].i

CreateInv ==
    /\ butler \in Live
    /\ \A t \in Pcb : HoldsPcb(t)
    /\ \A t, u \in Pcb : Creating(t) /\ Creating(u) => t = u

(* The conjunction that every step of patient clients that never sleep keeps:
   the lists, the place of every task and the PCB of a task being created. *)
SchedulerInv ==
    /\ TypeOK /\ LocksBalanced
    /\ KernelInv(k, Live) /\ PlaceInv(k, Live) /\ CreateInv

(* SleepUntil unlocks before it blocks, and its comment says "worst case is a
   task change to itself": a task that has stopped in SLEEPING is on the
   sleeping list, where the timer finds it. *)
SleepersAreListed ==
    \A t \in Pcb :
        k.state[t] = "SLEEPING" /\ Alive(t) /\ t /= k.currentPCB =>
            t \in Range(Chain(k.next, k.sleepingList.head))

(* AddReady's comment says of task->next that it "should already be null": the
   butler, which TerminateProcess adds to the ready list, is not linked there
   already. *)
AddedIsUnlinked ==
    [][\A t \in Pcb : TerminateProcess(t) => k.next[butler] = NULL]_vars
=============================================================================
