------------------------------- MODULE Cannon -------------------------------
(***************************************************************************)
(* cannon.sv at the granularity of the game: one step per frame.           *)
(*                                                                         *)
(* The registers are clocked at 50 MHz but only change at the Clk edge at  *)
(* which frame_clk_rising_edge is high (see FrameClock) or while Reset is  *)
(* high, so a behaviour is a sequence of Frame and Reset steps.  The new   *)
(* position is computed from the OLD motion register (cannon.sv:109): a    *)
(* key takes effect one frame late, and so does the stop at an edge.       *)
(***************************************************************************)
EXTENDS Registers

CONSTANTS
    Cannon_X_Center,
    Cannon_Y_Reset_pos,
    Cannon_X_Min,
    Cannon_X_Max,
    Cannon_X_Step,
    Cannon_Size

(***************************************************************************)
(* The parameters at cannon.sv:15-24 satisfy these facts.  The last four   *)
(* are what the edge tests silently rely on: no comparison overflows, a    *)
(* step and its two's complement differ, the margin Size absorbs the two   *)
(* steps the cannon still makes past the point where the test first holds, *)
(* and the column 0 the registers power up with is inside the range.       *)
(***************************************************************************)
ASSUME CannonAssumption ==
    /\ Cannon_X_Center \in Word /\ Cannon_Y_Reset_pos \in Word
    /\ Cannon_X_Min \in Word /\ Cannon_X_Max \in Word
    /\ Cannon_X_Step \in Word \ {0} /\ Cannon_Size \in Word
    /\ Cannon_X_Min <= Cannon_X_Center /\ Cannon_X_Center <= Cannon_X_Max
    /\ Cannon_X_Max + Cannon_Size < Modulus
    /\ 2 * Cannon_X_Step < Modulus
    /\ 2 * Cannon_X_Step <= Cannon_Size + 1
    /\ Cannon_X_Min = 0

VARIABLES
    Cannon_X_Pos,
    Cannon_Y_Pos,
    Cannon_X_Motion,
    Cannon_Y_Motion

cannonVars == <<Cannon_X_Pos, Cannon_Y_Pos, Cannon_X_Motion, Cannon_Y_Motion>>

-----------------------------------------------------------------------------
(* The edge tests, with the faults that are easy to make in them. *)

AtLeftEdgeNoMargin == Cannon_X_Pos <= Cannon_X_Min

AtLeftEdge == Cannon_X_Pos <= Add(Cannon_X_Min, Cannon_Size)

AtRightEdge == Add(Cannon_X_Pos, Cannon_Size) >= Cannon_X_Max

\* The output wire: the column the cannon has from the next frame on.
Cannon_X_Pos_in == Add(Cannon_X_Pos, Cannon_X_Motion)

-----------------------------------------------------------------------------
(* The power-up contents of the registers. *)
CannonInit ==
    /\ Cannon_X_Pos = 0 /\ Cannon_Y_Pos = 0
    /\ Cannon_X_Motion = 0 /\ Cannon_Y_Motion = 0

SteerLeft ==
    /\ Cannon_X_Motion' = IF AtLeftEdge THEN 0 ELSE Negate(Cannon_X_Step)
    /\ Cannon_Y_Motion' = 0

SteerRight ==
    /\ Cannon_X_Motion' = IF AtRightEdge THEN 0 ELSE Cannon_X_Step
    /\ Cannon_Y_Motion' = 0

Release ==
    /\ Cannon_X_Motion' = 0
    /\ UNCHANGED Cannon_Y_Motion

\* A fault: right wins over left.
FrameRightFirst(left, right) ==
    /\ \/ right /\ SteerRight
       \/ ~right /\ left /\ SteerLeft
       \/ ~right /\ ~left /\ Release
    /\ Cannon_X_Pos' = Cannon_X_Pos_in
    /\ Cannon_Y_Pos' = Add(Cannon_Y_Pos, Cannon_Y_Motion)

\* One frame with the decoded keys left and right; left wins over right.
CannonFrame(left, right) ==
    /\ \/ left /\ SteerLeft
       \/ ~left /\ right /\ SteerRight
       \/ ~left /\ ~right /\ Release
    /\ Cannon_X_Pos' = Cannon_X_Pos_in
    /\ Cannon_Y_Pos' = Add(Cannon_Y_Pos, Cannon_Y_Motion)

CannonReset ==
    /\ Cannon_X_Pos' = Cannon_X_Center
    /\ Cannon_Y_Pos' = Cannon_Y_Reset_pos
    /\ Cannon_X_Motion' = 0
    /\ Cannon_Y_Motion' = 0

CannonNext ==
    \/ \E left, right \in BOOLEAN : CannonFrame(left, right)
    \/ CannonReset

CannonSpec == CannonInit /\ [][CannonNext]_cannonVars

-----------------------------------------------------------------------------
(* Properties. *)

(* Every register holds a word, and the motion registers hold only the     *)
(* values the always_comb block of cannon.sv:59-114 can assign to them.    *)
CannonTypeOK ==
    /\ Cannon_X_Pos \in Word
    /\ Cannon_Y_Pos \in {0, Cannon_Y_Reset_pos}
    /\ Cannon_X_Motion \in {0, Cannon_X_Step, Negate(Cannon_X_Step)}
    /\ Cannon_Y_Motion = 0

(* cannon.sv:81-96: although the stop at an edge comes one frame late, no  *)
(* sequence of keys and resets takes the cannon's centre out of the range  *)
(* X_Min..X_Max; in particular the 10-bit column never wraps around.       *)
CannonOnScreen == Cannon_X_Min <= Cannon_X_Pos /\ Cannon_X_Pos <= Cannon_X_Max

(* What makes CannonOnScreen inductive: a motion that is still pending was *)
(* decided one step further from the edge.                                 *)
PendingMotionSafe ==
    /\ Cannon_X_Motion = Negate(Cannon_X_Step)
          => Cannon_X_Pos + Cannon_X_Step > Cannon_X_Min + Cannon_Size
    /\ Cannon_X_Motion = Cannon_X_Step
          => Cannon_X_Pos + Cannon_Size < Cannon_X_Max + Cannon_X_Step

(* cannon.sv:109: a frame moves the cannon by nothing or by exactly one    *)
(* step in true (not modular) arithmetic: no jump across the screen.       *)
MovesByOneStep ==
    [][\/ CannonReset
       \/ Cannon_X_Pos' \in {Cannon_X_Pos - Cannon_X_Step, Cannon_X_Pos,
                             Cannon_X_Pos + Cannon_X_Step}]_cannonVars
=============================================================================
