------------------------------- MODULE HalIrq -------------------------------
(***************************************************************************)
(* Interrupts: the processor's PIE bit and ienable register, the table     *)
(* alt_irq with its registration (alt_iic_isr_register), the dispatcher    *)
(* alt_irq_handler, and handlers that let themselves be interrupted        *)
(* (alt_irq_interruptible).                                                *)
(*                                                                         *)
(* The program registers handlers; a handler registers none, because       *)
(* alt_irq_enable writes ienable without alt_priority_mask.  A request     *)
(* stays until its handler answers it; one that does not is called again.  *)
(***************************************************************************)
EXTENDS Integers, Sequences

CONSTANTS
    NIRQ,       \* ALT_NIRQ, 32
    Isrs,       \* handlers; each is registered with a context of its own
    NoIsr       \* the null pointer

ASSUME IrqAssumption == NIRQ \in Nat \ {0} /\ NoIsr \notin Isrs

VARIABLES
    pie,                \* status.PIE
    ienable,            \* the interrupts the processor listens to
    alt_irq_active,     \* those that are enabled by the program
    alt_priority_mask,  \* those that the running handler lets through
    handler, context,   \* alt_irq[..]; a context is named after its handler
    lines,              \* the interrupts that devices request
    call,               \* where the program is in alt_iic_isr_register
    nest                \* the invocations of alt_irq_handler, the last running

cpuVars == <<pie, ienable>>
tableVars == <<handler, context>>
irqVars == <<cpuVars, alt_irq_active, alt_priority_mask, tableVars, lines, call, nest>>

Irqs == 0..(NIRQ - 1)
NotCalled == [step |-> "none", id |-> 0, isr |-> NoIsr, status |-> FALSE]

\* alt_irq_init: nothing is enabled, interrupts are on.
IrqInit ==
    /\ pie = TRUE /\ ienable = {}
    /\ alt_irq_active = {} /\ alt_priority_mask = Irqs
    /\ handler = [i \in Irqs |-> NoIsr] /\ context = [i \in Irqs |-> NoIsr]
    /\ lines = {} /\ call = NotCalled /\ nest = <<>>

\* A device requests an interrupt, enabled or not.
Request(i) ==
    /\ i \notin lines /\ lines' = lines \cup {i}
    /\ UNCHANGED <<cpuVars, alt_irq_active, alt_priority_mask, tableVars, call, nest>>

-----------------------------------------------------------------------------
(* alt_iic_isr_register, called by the program. *)

InProgram == nest = <<>>

\* alt_irq_disable_all
PieOff == FALSE

\* alt_irq_enable_all
PieRestored(status) == status

RegisterEnter(i, isr) ==
    /\ InProgram /\ call.step = "none"
    /\ call' = [step |-> "handler", id |-> i, isr |-> isr, status |-> pie]
    /\ pie' = PieOff
    /\ UNCHANGED <<ienable, alt_irq_active, alt_priority_mask, tableVars, lines, nest>>

RegisterHandler ==
    /\ InProgram /\ call.step = "handler"
    /\ handler' = [handler EXCEPT ![call.id] = call.isr]
    /\ call' = [call EXCEPT !.step = "context"]
    /\ UNCHANGED <<cpuVars, alt_irq_active, alt_priority_mask, context, lines, nest>>

RegisterContext ==
    /\ InProgram /\ call.step = "context"
    /\ context' = [context EXCEPT ![call.id] = call.isr]
    /\ call' = [call EXCEPT !.step = "enable"]
    /\ UNCHANGED <<cpuVars, alt_irq_active, alt_priority_mask, handler, lines, nest>>

\* alt_irq_enable or alt_irq_disable, a section within the section.
RegisterEnable ==
    /\ InProgram /\ call.step = "enable"
    /\ alt_irq_active' = IF call.isr = NoIsr THEN alt_irq_active \ {call.id}
                         ELSE alt_irq_active \cup {call.id}
    /\ ienable' = alt_irq_active'
    /\ pie' = PieRestored(pie)
    /\ call' = [call EXCEPT !.step = "leave"]
    /\ UNCHANGED <<alt_priority_mask, tableVars, lines, nest>>

RegisterLeave ==
    /\ InProgram /\ call.step = "leave"
    /\ pie' = PieRestored(call.status)
    /\ call' = NotCalled
    /\ UNCHANGED <<ienable, alt_irq_active, alt_priority_mask, tableVars, lines, nest>>

-----------------------------------------------------------------------------
(* alt_irq_entry and alt_irq_handler. *)

ipending == lines \cap ienable

Top == nest[Len(nest)]
At(place) == nest # <<>> /\ Top.at = place
Goto(frame) == nest' = [nest EXCEPT ![Len(nest)] = frame]

\* An invocation: irq is the interrupt it serves (NIRQ: none yet), mask what
\* alt_irq_interruptible has returned to its handler.
Entry == [at |-> "entry", active |-> {}, irq |-> NIRQ, mask |-> {}]

Interrupt ==
    /\ pie /\ ipending # {}
    /\ pie' = FALSE
    /\ nest' = Append(nest, Entry)
    /\ UNCHANGED <<ienable, alt_irq_active, alt_priority_mask, tableVars, lines, call>>

ReadPending ==
    /\ At("entry")
    /\ Goto([Top EXCEPT !.at = "scan", !.active = ipending])
    /\ UNCHANGED <<cpuVars, alt_irq_active, alt_priority_mask, tableVars, lines, call>>

\* The scan ends at the lowest bit.  It does not end if there is none.
Scanned(i) == i \in Top.active /\ \A j \in Top.active : i <= j

Dispatch(i) ==
    /\ At("scan") /\ Scanned(i)
    /\ Goto([Top EXCEPT !.at = "run", !.irq = i])
    /\ UNCHANGED <<cpuVars, alt_irq_active, alt_priority_mask, tableVars, lines, call>>

\* The handler answers the device, then or later lets others in, and returns.
Serve ==
    /\ At("run") /\ Top.irq \in lines
    /\ lines' = lines \ {Top.irq}
    /\ UNCHANGED <<cpuVars, alt_irq_active, alt_priority_mask, tableVars, call, nest>>

\* (A mutated form, a fault: the handler's own interrupt is let in.)
LetThroughOwn(i) == 0..i

LetThrough(i) == 0..(i - 1)

Interruptible ==
    /\ At("run")
    /\ Goto([Top EXCEPT !.at = "open", !.mask = alt_priority_mask])
    /\ alt_priority_mask' = LetThrough(Top.irq)
    /\ ienable' = alt_irq_active \cap alt_priority_mask'
    /\ pie' = TRUE
    /\ UNCHANGED <<alt_irq_active, tableVars, lines, call>>

NonInterruptible ==
    /\ At("open")
    /\ Goto([Top EXCEPT !.at = "run"])
    /\ alt_priority_mask' = Top.mask
    /\ ienable' = alt_irq_active \cap alt_priority_mask'
    /\ pie' = FALSE
    /\ UNCHANGED <<alt_irq_active, tableVars, lines, call>>

\* Whatever is pending now is served by the same invocation.
Again ==
    /\ At("run") /\ ipending # {}
    /\ Goto([Top EXCEPT !.at = "scan", !.active = ipending])
    /\ UNCHANGED <<cpuVars, alt_irq_active, alt_priority_mask, tableVars, lines, call>>

\* eret brings back a PIE that was on.
Return ==
    /\ At("run") /\ ipending = {}
    /\ nest' = SubSeq(nest, 1, Len(nest) - 1)
    /\ pie' = TRUE
    /\ UNCHANGED <<ienable, alt_irq_active, alt_priority_mask, tableVars, lines, call>>

Cpu ==
    \/ RegisterHandler \/ RegisterContext \/ RegisterEnable \/ RegisterLeave
    \/ Interrupt \/ ReadPending \/ Serve
    \/ Interruptible \/ NonInterruptible \/ Again \/ Return
    \/ \E i \in Irqs : Dispatch(i)

IrqNext ==
    \/ Cpu
    \/ \E i \in Irqs : Request(i) \/ \E isr \in Isrs \cup {NoIsr} : RegisterEnter(i, isr)

IrqSpec == IrqInit /\ [][IrqNext]_irqVars
-----------------------------------------------------------------------------
Frames ==
    [at : {"entry", "scan", "run", "open"}, active : SUBSET Irqs,
     irq : Irqs \cup {NIRQ}, mask : SUBSET Irqs]

IrqTypeOK ==
    /\ pie \in BOOLEAN
    /\ ienable \subseteq Irqs /\ alt_irq_active \subseteq Irqs
    /\ alt_priority_mask \subseteq Irqs /\ lines \subseteq Irqs
    /\ handler \in [Irqs -> Isrs \cup {NoIsr}] /\ context \in [Irqs -> Isrs \cup {NoIsr}]
    /\ call \in [step : {"none", "handler", "context", "enable", "leave"}, id : Irqs,
                 isr : Isrs \cup {NoIsr}, status : BOOLEAN]
    /\ nest \in Seq(Frames)

(* The dispatcher never looks for a pending interrupt that is not there,   *)
(* where it would loop for ever, and calls a handler with the context it   *)
(* was registered with, never the null pointer; alt_irq_handler.c:120-152, *)
(* alt_iic_isr_register.c:84-99.                                           *)
CallsRegistered ==
    At("scan") =>
       /\ Top.active # {}
       /\ \A i \in Top.active : handler[i] # NoIsr /\ context[i] = handler[i]

(* The program's section is not interrupted, although alt_irq_enable       *)
(* within it ends a section of its own; alt_irq.h:118-160.                 *)
SectionHolds == call.step # "none" => ~pie /\ nest = <<>>

(* A handler is interrupted by interrupts of higher priority only; ienable *)
(* is what is enabled and let through whenever interrupts are on, and      *)
(* everything is let through again in the program;                         *)
(* alt_legacy_irq.h:100-143.                                               *)
NestsByPriority ==
    /\ \A p, q \in 1..Len(nest) :
          p < q /\ nest[q].irq # NIRQ => nest[q].irq < nest[p].irq
    /\ pie => ienable = alt_irq_active \cap alt_priority_mask
    /\ nest = <<>> => alt_priority_mask = Irqs

\* However requests, registrations and nested handlers interleave, the dispatcher
\* finds what it looks for, a half-registered handler is never called, and
\* priorities hold (alt_irq_handler.c:119-156, alt_iic_isr_register.c:90-102,
\* alt_legacy_irq.h:100-143).
IrqSafe == CallsRegistered /\ SectionHolds /\ NestsByPriority
=============================================================================
