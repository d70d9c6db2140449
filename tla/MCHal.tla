------------------------------- MODULE MCHal -------------------------------
(* Four parts of the HAL, checked one at a time: they share no variable,   *)
(* so that interleaving their steps would show nothing more.               *)
EXTENDS HalFiles, HalClock, HalIrq, HalHeap

VARIABLE part

MCTimes == {<<0, 0>>, <<1, 5>>}

Init ==
    /\ part \in {"files", "clock", "irq", "heap"}
    /\ FilesInit /\ ClockInit /\ IrqInit /\ HeapInit

Next ==
    /\ UNCHANGED part
    /\ \/ /\ part = "files" /\ FilesNext
          /\ UNCHANGED <<clockVars, irqVars, heapVars>>
       \/ /\ part = "clock" /\ ClockNext
          /\ UNCHANGED <<filesVars, irqVars, heapVars>>
       \/ /\ part = "irq" /\ IrqNext
          /\ UNCHANGED <<filesVars, clockVars, heapVars>>
       \/ /\ part = "heap" /\ HeapNext
          /\ UNCHANGED <<filesVars, clockVars, irqVars>>

Spec == Init /\ [][Next]_<<part, filesVars, clockVars, irqVars, heapVars>>

\* The states of all four are of their types.
HalTypeOK == FilesTypeOK /\ ClockTypeOK /\ IrqTypeOK /\ HeapTypeOK
=============================================================================
