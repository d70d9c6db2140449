------------------------------ MODULE CharFifo ------------------------------
(***************************************************************************)
(* What one direction of the JTAG UART promises: characters come out in    *)
(* the order in which they went in, none is lost, made up or repeated.     *)
(* The characters are numbered in the order in which they go in, modulo a  *)
(* number that is greater than the number of characters on their way.      *)
(***************************************************************************)
EXTENDS Integers, Sequences

CONSTANTS
    Capacity,   \* the most characters that can be on their way, at least 1
    Numbers     \* the modulus of the numbers, greater than Capacity

VARIABLES
    queue,      \* the numbers of the characters on their way
    next,       \* the number of the next character that goes in
    done        \* the number of the next character that comes out

vars == <<queue, next, done>>

Init == queue = <<>> /\ next = 0 /\ done = 0

Put(n) ==
    /\ Len(queue) + n <= Capacity
    /\ queue' = queue \o [i \in 1..n |-> (next + i - 1) % Numbers]
    /\ next' = (next + n) % Numbers
    /\ UNCHANGED done

Get(n) ==
    /\ n <= Len(queue)
    /\ queue' = SubSeq(queue, n + 1, Len(queue))
    /\ done' = (done + n) % Numbers
    /\ UNCHANGED next

Next == \E n \in 1..Capacity : Put(n) \/ Get(n)

Spec == Init /\ [][Next]_vars
=============================================================================
