------------------------------ MODULE HalHeap ------------------------------
(***************************************************************************)
(* The heap: sbrk of the program and of interrupt routines ("must be safe  *)
(* if called from an interrupt context", alt_sbrk.c:52-53).  An interrupt  *)
(* routine runs to its end, the program's call can be interrupted wherever *)
(* interrupts are on.                                                      *)
(***************************************************************************)
EXTENDS Integers, Sequences

CONSTANTS
    HeapStart, HeapLimit,   \* __alt_heap_start, __alt_heap_limit
    Sizes                   \* the increments asked for, in bytes

\* Negative increments, with which malloc gives memory back, are left out:
\* nothing but malloc's own care keeps them within the heap.
ASSUME HeapAssumption ==
    HeapStart \in Nat /\ HeapLimit \in Nat /\ Sizes \subseteq Nat

VARIABLES
    heap_end,
    heap_pie,   \* interrupts are on
    pc, incr, prev_heap_end,    \* the program's call
    granted     \* the blocks sbrk has returned, as <<first byte, size>>

heapVars == <<heap_end, heap_pie, pc, incr, prev_heap_end, granted>>

HeapInit ==
    /\ heap_end = HeapStart /\ heap_pie = TRUE
    /\ pc = "out" /\ incr = 0 /\ prev_heap_end = HeapStart
    /\ granted = <<>>

\* (p + 3) & ~3
Aligned(p) == ((p + 3) \div 4) * 4

TooLong(end, n) == end + n > HeapLimit

\* (A mutated form, a fault: the call does not disable interrupts.)
HeapPieStays == heap_pie

\* alt_irq_disable_all
HeapPieOff == FALSE

Enter(n) ==
    /\ pc = "out" /\ pc' = "align"
    /\ incr' = n /\ heap_pie' = HeapPieOff
    /\ UNCHANGED <<heap_end, prev_heap_end, granted>>

Align ==
    /\ pc = "align" /\ pc' = "test"
    /\ heap_end' = Aligned(heap_end)
    /\ UNCHANGED <<heap_pie, incr, prev_heap_end, granted>>

Refuse ==
    /\ pc = "test" /\ TooLong(heap_end, incr)
    /\ pc' = "out" /\ heap_pie' = TRUE
    /\ UNCHANGED <<heap_end, incr, prev_heap_end, granted>>

Accept ==
    /\ pc = "test" /\ ~TooLong(heap_end, incr)
    /\ pc' = "extend" /\ prev_heap_end' = heap_end
    /\ UNCHANGED <<heap_end, heap_pie, incr, granted>>

Extend ==
    /\ pc = "extend" /\ pc' = "leave"
    /\ heap_end' = heap_end + incr
    /\ UNCHANGED <<heap_pie, incr, prev_heap_end, granted>>

Leave ==
    /\ pc = "leave" /\ pc' = "out" /\ heap_pie' = TRUE
    /\ granted' = Append(granted, <<prev_heap_end, incr>>)
    /\ UNCHANGED <<heap_end, incr, prev_heap_end>>

\* The call of an interrupt routine.
IsrSbrk(n) ==
    LET end == Aligned(heap_end) IN
    /\ heap_pie
    /\ IF TooLong(end, n)
       THEN heap_end' = end /\ UNCHANGED granted
       ELSE heap_end' = end + n /\ granted' = Append(granted, <<end, n>>)
    /\ UNCHANGED <<heap_pie, pc, incr, prev_heap_end>>

HeapNext ==
    \/ Align \/ Refuse \/ Accept \/ Extend \/ Leave
    \/ \E n \in Sizes : Enter(n) \/ IsrSbrk(n)

HeapSpec == HeapInit /\ [][HeapNext]_heapVars
-----------------------------------------------------------------------------
HeapTypeOK ==
    /\ heap_end \in Nat /\ heap_pie \in BOOLEAN
    /\ pc \in {"out", "align", "test", "extend", "leave"}
    /\ incr \in Sizes \cup {0} /\ prev_heap_end \in Nat
    /\ granted \in Seq(Nat \X Sizes)

(* No byte is given out twice, to the program or to an interrupt routine.  *)
BlocksDisjoint ==
    \A p, q \in 1..Len(granted) :
       LET b == granted[p]
           c == granted[q]
       IN p # q => b[1] + b[2] <= c[1] \/ c[1] + c[2] <= b[1]

(* Every block starts on a word boundary and ends within the heap.  The    *)
(* comment at alt_sbrk.c:46-48 denies the latter ("does not perform any    *)
(* bounds checking", memory "will be allocated, even if the request region *)
(* ... overflows the available physical memory"), and is out of date: the  *)
(* code refuses what ends above __alt_heap_limit (lines 88-91).            *)
BlocksInHeap ==
    \A p \in 1..Len(granted) :
       granted[p][1] % 4 = 0 /\ granted[p][1] + granted[p][2] <= HeapLimit

\* What sbrk hands out is sound although an interrupt routine's call may come
\* before and after every step of the program's own (alt_sbrk.c:76-133).
BlocksSound == BlocksDisjoint /\ BlocksInHeap
=============================================================================
