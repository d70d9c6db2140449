--------------------------------- MODULE Keys ---------------------------------
(***************************************************************************)
(* The decoding of the 16-bit keycode PIO in final_project.sv:165-169: the *)
(* software stores the first two keycodes of the keyboard's report in it,  *)
(* and a game key counts in either byte.                                   *)
(***************************************************************************)
EXTENDS Integers

NoKey    == 0
SpaceKey == 44      \* 8'h2c
RightKey == 79      \* 8'h4f
LeftKey  == 80      \* 8'h50

Keycode(high, low) == high * 256 + low

HighByte(keycode) == keycode \div 256
LowByte(keycode)  == keycode % 256

Pressed(keycode, key) == HighByte(keycode) = key \/ LowByte(keycode) = key

space(keycode) == Pressed(keycode, SpaceKey)
left(keycode)  == Pressed(keycode, LeftKey)
right(keycode) == Pressed(keycode, RightKey)
=============================================================================
