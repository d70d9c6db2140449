--------------------------------- MODULE Game ---------------------------------
(***************************************************************************)
(* final_project.sv: the keycode PIO, the cannon, the laser and the colour *)
(* mapper wired together.  The software writes the PIO whenever it has     *)
(* polled the keyboard (final_app/main.c:556), at no fixed time with       *)
(* respect to the frames; the Reset button reaches the cannon and the      *)
(* laser, and neither the Nios processor nor its PIO (line 79).            *)
(***************************************************************************)
EXTENDS Keys

CONSTANTS
    Modulus,
    Cannon_X_Center, Cannon_Y_Reset_pos, Cannon_X_Min, Cannon_X_Max,
    Cannon_X_Step, Cannon_Size,
    laser_X_Center, laser_Y_Reset_pos, laser_Y_Min, laser_Y_Step, laser_Size,
    H_Visible, V_Visible,     \* the visible screen: 640 x 480
    Keycodes                  \* the words the software writes to the PIO

VARIABLES
    keycode,
    Cannon_X_Pos, Cannon_Y_Pos, Cannon_X_Motion, Cannon_Y_Motion,
    laser_X_Pos, laser_Y_Pos, laser_X_Motion, laser_Y_Motion, laser_on,
    Reset_h              \* history: was Reset_h high at the last edge?

C == INSTANCE Cannon

L == INSTANCE Laser WITH Columns <- 0 .. Cannon_X_Max, Reset <- Reset_h

ASSUME GameAssumption ==
    /\ C!ModulusAssumption /\ C!CannonAssumption /\ L!LaserAssumption
    /\ H_Visible \in Nat /\ V_Visible \in Nat
    /\ Cannon_X_Max < H_Visible /\ laser_Y_Reset_pos < V_Visible
    /\ laser_Y_Reset_pos <= Cannon_Y_Reset_pos /\ Cannon_Size < laser_Y_Step
    /\ 0 \in Keycodes

cannonVars == <<Cannon_X_Pos, Cannon_Y_Pos, Cannon_X_Motion, Cannon_Y_Motion>>

laserVars ==
    <<laser_X_Pos, laser_Y_Pos, laser_X_Motion, laser_Y_Motion, laser_on, Reset_h>>

vars == <<keycode, cannonVars, laserVars>>

-----------------------------------------------------------------------------
Init == keycode = 0 /\ C!CannonInit /\ L!LaserInit

\* main.c:552-556, seen from the hardware.
Publish ==
    /\ \E word \in Keycodes : keycode' = word
    /\ UNCHANGED <<cannonVars, laserVars>>

\* A fault: the laser is wired to the column the cannon is drawn in.
FrameOldColumn ==
    /\ UNCHANGED keycode
    /\ C!CannonFrame(left(keycode), right(keycode))
    /\ L!LaserFrame(space(keycode), Cannon_X_Pos)

\* The rising edge of VGA_VS: both components step, on the same Clk edge.
Frame ==
    /\ UNCHANGED keycode
    /\ C!CannonFrame(left(keycode), right(keycode))
    /\ L!LaserFrame(space(keycode), C!Cannon_X_Pos_in)

\* KEY[0] is down.
Reset ==
    /\ UNCHANGED keycode
    /\ C!CannonReset /\ L!LaserReset

Next == Publish \/ Frame \/ Reset

SafeSpec == Init /\ [][Next]_vars

(* VGA_VS comes from free-running counters, so frames never stop.  Nothing *)
(* is assumed of the software or of the player.                            *)
Spec == SafeSpec /\ WF_vars(Frame)

-----------------------------------------------------------------------------
(* The picture: cannon.sv:116-131, laser.sv:137-152, Color_Mapper.sv:55-81. *)

Disc(x, y, centerX, centerY, size) ==
    (x - centerX) * (x - centerX) + (y - centerY) * (y - centerY)
        <= size * size

is_cannon(x, y) == Disc(x, y, Cannon_X_Pos, Cannon_Y_Pos, Cannon_Size)

is_laser(x, y) ==
    laser_on /\ Disc(x, y, laser_X_Pos, laser_Y_Pos, laser_Size)

Colour(x, y) == IF is_cannon(x, y) THEN "green"
                ELSE IF is_laser(x, y) THEN "white" ELSE "black"

-----------------------------------------------------------------------------
(* Properties. *)

(* The registers hold words and the PIO a word the software writes.        *)
TypeOK == keycode \in Keycodes /\ C!CannonTypeOK /\ L!LaserTypeOK

(* final_project.sv:140 and laser.sv:99: a shot is fired in the column the *)
(* cannon has from that frame on, not the one it is just leaving.          *)
FiredFromTheCannon ==
    [][(laser_on' /\ laser_Y_Pos' = laser_Y_Reset_pos /\ ~UNCHANGED laserVars)
          => laser_X_Motion' = Cannon_X_Pos']_vars

(* laser.sv:121-126: while there is no shot the laser's column register    *)
(* follows the cannon, so that the first frame of the next shot is drawn   *)
(* at most one step away; only a reset leaves column 0 in it.              *)
RestingLaserFollows == ~laser_on => laser_X_Motion \in {0, Cannon_X_Pos}

(* laser.sv:137-152, cannon.sv:116-131, Color_Mapper.sv:55-81: a shot is   *)
(* drawn on the visible screen, and the cannon, which is drawn over it,    *)
(* hides the centre of it only in its first frame, when both are in the    *)
(* same row.  That takes a cannon in its own row: it powers up in row 0,   *)
(* among the shots that arrive, and only a reset puts it in row 470.       *)
ShotIsVisible ==
    laser_on =>
        /\ laser_X_Pos \in 0 .. H_Visible - 1
        /\ laser_Y_Pos \in 0 .. V_Visible - 1
        /\ (laser_Y_Pos # laser_Y_Reset_pos /\ Cannon_Y_Pos = Cannon_Y_Reset_pos)
              => Colour(laser_X_Pos, laser_Y_Pos) = "white"

NoMoreResets == <>[][~Reset]_vars

(* cannon.sv:75-109: a player who holds the left key gets the cannon to    *)
(* the left edge and keeps it there, whatever else is pressed.             *)
HoldLeftReachesEdge ==
    (NoMoreResets /\ <>[]left(keycode))
        => <>[](Cannon_X_Pos <= Cannon_X_Min + Cannon_Size)

(* laser.sv:85-104: a player who holds the space key fires again and       *)
(* again: the refire at the top of the screen needs no new key press.      *)
HoldSpaceKeepsFiring ==
    (NoMoreResets /\ <>[]space(keycode))
        => []<>(laser_on /\ laser_Y_Pos = laser_Y_Reset_pos)

(* laser.sv:106-127: once the space key is released for good the shot in   *)
(* the air is the last one, and it goes away.                              *)
ReleaseSpaceFallsSilent == <>[]~space(keycode) => <>[]~laser_on
=============================================================================
