------------------------------ MODULE Registers ------------------------------
(***************************************************************************)
(* The arithmetic of the "logic [9:0]" registers that cannon.sv and        *)
(* laser.sv keep positions and motions in: words of a fixed width, whose   *)
(* sums lose their carry and whose negative numbers are two's complements. *)
(***************************************************************************)
EXTENDS Integers

CONSTANT Modulus             \* number of values of a register: 1024

ASSUME ModulusAssumption == Modulus \in Nat \ {0}

Word == 0 .. Modulus - 1

\* A sum that keeps its carry, as if the register were wider.
AddUntruncated(a, b) == a + b

\* The sum of two words, truncated to the width of a word.
Add(a, b) == IF a + b < Modulus THEN a + b ELSE a + b - Modulus

\* (~n) without the + 1'b1: a wrong two's complement.
NegateNoIncrement(n) == Modulus - 1 - n

\* (~n + 1'b1): the two's complement of a non-zero word.
Negate(n) == Modulus - n
=============================================================================
