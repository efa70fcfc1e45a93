---------------------------- MODULE RoundRobin -----------------------------
(***************************************************************************)
(* What the scheduler promises its tasks: the tasks that can run wait in   *)
(* one queue, the CPU goes to the one that has waited longest, and a task  *)
(* that gives up the CPU waits behind all the others.                      *)
(***************************************************************************)
EXTENDS Naturals, Sequences, SequencesExt

CONSTANTS Task, Idle

VARIABLES
    waiting,    \* the tasks that wait for the CPU, first come first
    onCpu       \* the task that has it, or Idle

InitRR == waiting = <<>> /\ onCpu \in Task

\* A task that neither waits nor runs becomes runnable.
Admit(t) ==
    /\ t /= onCpu /\ t \notin ToSet(waiting)
    /\ waiting' = Append(waiting, t)
    /\ UNCHANGED onCpu

\* The CPU passes on; its last task waits at the end.
Rotate ==
    /\ onCpu /= Idle /\ waiting /= <<>>
    /\ onCpu' = Head(waiting)
    /\ waiting' = Append(Tail(waiting), onCpu)

\* The task on the CPU stops being runnable; up to one task it wakes by that
\* queues before the CPU passes on.
Retire(woken) ==
    /\ onCpu /= Idle
    /\ woken = <<>> \/ \E t \in Task \ ToSet(waiting) : t /= onCpu /\ woken = <<t>>
    /\ LET q == waiting \o woken IN
       \/ q = <<>> /\ onCpu' = Idle /\ waiting' = <<>>
       \/ q /= <<>> /\ onCpu' = Head(q) /\ waiting' = Tail(q)

NextRR ==
    \/ \E t \in Task : Admit(t)
    \/ Rotate
    \/ \E woken \in {<<>>} \cup {<<t>> : t \in Task} : Retire(woken)

RoundRobinSpec == InitRR /\ [][NextRR]_<<waiting, onCpu>>
=============================================================================
