----------------------------- MODULE Interrupts -----------------------------
(***************************************************************************)
(* Hardware interrupts, from the two 8259 controllers to the handlers and  *)
(* back (arch/i686/isr.c, 8259_pic.c, idt.c, irq.asm, timer.c, and the     *)
(* handler of the network card).                                           *)
(*                                                                         *)
(* A controller delivers nothing of the priority of a line in service, or  *)
(* of a lower one, until it is told that the service has ended; and what   *)
(* it is told does not say which line's.  The timer's handler tells it     *)
(* twice: once itself, and once through isr_irq_handler, which it returns  *)
(* to only when the task that it interrupted runs again.  The handlers of  *)
(* the timer and of the card also turn interrupts on before they return,   *)
(* by unlocking the scheduler.                                             *)
(*                                                                         *)
(* Lines are numbered from 0; int_no is 32 more.  A task is where its      *)
(* interrupt frames are, the innermost last.                               *)
(***************************************************************************)
EXTENDS Integers, Sequences, FiniteSets, FiniteSetsExt

CONSTANTS
    Lines,             \* lines that devices raise; not 10, whose gate is that of system calls
    Card,              \* the line of the network card
    Tasks,
    MAX_EXCEPTIONS,
    MaxFrames          \* bound on the frames of a task

NULL == "none"
VARIABLES
    g_interrupt_handlers,   \* for every line, the handler
    service,                \* lines in service: 0 to 7 of the master, 8 to 15 of the slave
    frames,                 \* for every task, its interrupt frames
    running,                \* the task that has the CPU
    ifl,                    \* interrupts are on
    irqDisableCounter,
    exception_count
vars == <<g_interrupt_handlers, service, frames, running, ifl, irqDisableCounter, exception_count>>

Master == 0 .. 7
Slave == 8 .. 15
WithoutFirst(S) == IF S = {} THEN S ELSE S \ {Min(S)}

\* Mutant: the slave is not told.
pic8259_eoi_master_only(line, s) == WithoutFirst(s \cap Master) \cup (s \cap Slave)

\* pic8259_eoi ends the service of the line with the highest priority, whichever that is.
pic8259_eoi(line, s) ==
    WithoutFirst(s \cap Master) \cup (IF line >= 8 THEN WithoutFirst(s \cap Slave) ELSE s \cap Slave)

\* The controllers in fully nested mode, with the slave at line 2 of the master.
Deliverable(line) ==
    IF line \in Master THEN \A l \in service \cap Master : line < l
    ELSE (\A l \in service \cap Master : 2 < l) /\ (\A l \in service \cap Slave : line < l)

\* idt_init: the controllers are set up, all lines enabled, and interrupts go on.
InitInterrupts ==
    /\ g_interrupt_handlers = [l \in 0 .. 15 |-> NULL]
    /\ service = {}
    /\ frames = [t \in Tasks |-> <<>>]
    /\ running \in Tasks
    /\ ifl = TRUE /\ irqDisableCounter = 0 /\ exception_count = 0

\* The first handler of a line stays.
WithHandler(table, line, handler) == IF table[line] = NULL THEN [table EXCEPT ![line] = handler] ELSE table

AtTask == frames[running] = <<>>
isr_register_interrupt_handler ==
    /\ AtTask
    /\ \E lh \in {<<0, "timer_handler">>, <<1, "keyboard_handler">>, <<Card, "e1000_callback">>} :
          g_interrupt_handlers' = WithHandler(g_interrupt_handlers, lh[1], lh[2])
    /\ UNCHANGED <<service, frames, running, ifl, irqDisableCounter, exception_count>>

\* Code of a task between LockScheduler and UnlockScheduler.
LockScheduler ==
    /\ AtTask /\ irqDisableCounter = 0
    /\ irqDisableCounter' = 1 /\ ifl' = FALSE
    /\ UNCHANGED <<g_interrupt_handlers, service, frames, running, exception_count>>
UnlockScheduler ==
    /\ AtTask /\ irqDisableCounter > 0
    /\ irqDisableCounter' = irqDisableCounter - 1
    /\ ifl' = (ifl \/ irqDisableCounter' = 0)
    /\ UNCHANGED <<g_interrupt_handlers, service, frames, running, exception_count>>

Room == Len(frames[running]) < MaxFrames

\* The CPU takes an interrupt of a line that a device has raised by then; the gate turns
\* interrupts off.
Deliver ==
    /\ ifl /\ Room
    /\ \E l \in Lines :
          /\ Deliverable(l)
          /\ service' = service \cup {l} \cup (IF l \in Slave THEN {2} ELSE {})
          /\ frames' = [frames EXCEPT ![running] = Append(@, [line |-> l, at |-> "handler"])]
    /\ ifl' = FALSE
    /\ UNCHANGED <<g_interrupt_handlers, running, irqDisableCounter, exception_count>>

Top == frames[running][Len(frames[running])]
InFrame(at) == frames[running] # <<>> /\ Top.at = at
TopAt(at) == [frames EXCEPT ![running][Len(frames[running])].at = at]

\* The handlers, up to their return to isr_irq_handler.
NoHandler ==
    /\ InFrame("handler") /\ g_interrupt_handlers[Top.line] \in {NULL, "keyboard_handler", "test_int_rec"}
    /\ frames' = TopAt("handled")
    /\ UNCHANGED <<g_interrupt_handlers, service, running, ifl, irqDisableCounter, exception_count>>

\* timer_handler; UnlockAndSchedule may give the CPU to another task, which goes on where it
\* lost it: in its own timer_handler, or in code of its own.  Unlocking turns interrupts on.
timer_handler ==
    /\ InFrame("handler") /\ g_interrupt_handlers[Top.line] = "timer_handler"
    /\ service' = pic8259_eoi(Top.line, service)
    /\ frames' = TopAt("handled")
    /\ running' \in {t \in Tasks : t = running \/ frames[t] = <<>> \/ frames[t][Len(frames[t])].at \in {"handled", "debug"}}
    /\ ifl' = (irqDisableCounter = 0)
    /\ UNCHANGED <<g_interrupt_handlers, irqDisableCounter, exception_count>>

e1000_callback ==
    /\ InFrame("handler") /\ g_interrupt_handlers[Top.line] = "e1000_callback"
    /\ frames' = TopAt("handled")
    /\ ifl' = (irqDisableCounter = 0)
    /\ UNCHANGED <<g_interrupt_handlers, service, running, irqDisableCounter, exception_count>>

\* The end of isr_irq_handler, and of irq.asm.
isr_irq_handler ==
    /\ InFrame("handled")
    /\ service' = pic8259_eoi(Top.line, service)
    /\ frames' = TopAt("return")
    /\ UNCHANGED <<g_interrupt_handlers, running, ifl, irqDisableCounter, exception_count>>
Iret ==
    /\ InFrame("return")
    /\ frames' = [frames EXCEPT ![running] = SubSeq(@, 1, Len(@) - 1)]
    /\ ifl' = TRUE
    /\ UNCHANGED <<g_interrupt_handlers, service, running, irqDisableCounter, exception_count>>

\* isr_exception_handler, which ends in the debug terminal and never returns.  For an error code
\* of 14 it turns interrupts on with the scheduler still locked, and has int 47 call isr_irq_handler.
isr_exception_handler ==
    /\ exception_count < MAX_EXCEPTIONS /\ Room /\ ~InFrame("return")
    /\ exception_count' = exception_count + 1
    /\ frames' = [frames EXCEPT ![running] = Append(@, [line |-> 16, at |-> "debug"])]
    /\ \/ /\ ifl' = (irqDisableCounter = 0)
          /\ UNCHANGED <<g_interrupt_handlers, service, irqDisableCounter>>
       \/ /\ ifl' = TRUE
          /\ irqDisableCounter' = irqDisableCounter + 1
          /\ g_interrupt_handlers' = WithHandler(g_interrupt_handlers, 15, "test_int_rec")
          /\ service' = pic8259_eoi(15, service)
    /\ UNCHANGED running

Next ==
    \/ isr_register_interrupt_handler \/ LockScheduler \/ UnlockScheduler
    \/ Deliver \/ NoHandler \/ timer_handler \/ e1000_callback \/ isr_irq_handler \/ Iret
    \/ isr_exception_handler

SpecInterrupts == InitInterrupts /\ [][Next]_vars
-----------------------------------------------------------------------------
\* The frames whose handler is yet to end the interrupt.
Unended == {f \in UNION {{frames[t][i] : i \in DOMAIN frames[t]} : t \in Tasks} : f.at \in {"handler", "handled"}}

\* A line is in service only while its handler is on some task's stack: the end of one
\* interrupt is never taken for that of another so that a line stays blocked, however tasks
\* are switched inside handlers and although the timer's interrupt is ended twice, as long as
\* no exception has cut a handler short.  A task
\* that waits in the debug terminal can be interrupted, unless the exception hit code that
\* had the scheduler locked or another handler is at work.
InterruptsEnd ==
    /\ exception_count = 0 =>
          service \subseteq UNION {{f.line} \cup (IF f.line \in Slave THEN {2} ELSE {}) : f \in Unended}
    /\ InFrame("debug") => ifl \/ irqDisableCounter > 0
=============================================================================
