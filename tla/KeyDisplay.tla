----------------------------- MODULE KeyDisplay -----------------------------
(***************************************************************************)
(* The four hex displays of final_project.sv:154-158 that show the keycode *)
(* PIO, and their decoder HexDriver.sv.  The PIO is the only state;        *)
(* everything else is combinational.                                       *)
(***************************************************************************)
EXTENDS Keys, Sequences

CONSTANT KeyBytes        \* the keycodes a keyboard reports, with NoKey

VARIABLE keycode

\* The bit slice word[high:low].
Slice(word, high, low) == (word \div 2 ^ low) % 2 ^ (high - low + 1)

\* HexDriver's port In0 has four bits; the top ones of a wider slice are lost.
In0(bits) == bits % 16

\* The seven segments, active low, as the number 7'b... the code assigns.
Segments ==
    << 64, 121, 36, 48, 25, 18, 2, 120, 0, 16, 8, 3, 70, 33, 6, 14 >>

HexDriver(bits) == Segments[In0(bits) + 1]

HEX0 == HexDriver(Slice(keycode, 3, 0))
HEX1 == HexDriver(Slice(keycode, 7, 4))
HEX2 == HexDriver(Slice(keycode, 11, 8))
HEX3 == HexDriver(Slice(keycode, 15, 11))

Init == keycode = 0

\* main.c:556
Publish == \E high, low \in KeyBytes : keycode' = Keycode(high, low)

Next == Publish

Spec == Init /\ [][Next]_keycode

-----------------------------------------------------------------------------
(* The digit a reader sees in a display. *)
Digit(hex) == CHOOSE d \in 0 .. 15 : Segments[d + 1] = hex

(* final_project.sv:154, "Display keycode on hex display": the four        *)
(* displays together read back as the keycode.  HEX3 is wired to           *)
(* keycode[15:11], of which the port keeps bits 14 to 11.                  *)
KeycodeReadsBack ==
    Digit(HEX0) + 16 * Digit(HEX1) + 256 * Digit(HEX2) + 4096 * Digit(HEX3)
        = keycode
=============================================================================
