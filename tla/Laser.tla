-------------------------------- MODULE Laser --------------------------------
(***************************************************************************)
(* laser.sv at the granularity of the game: one step per frame.  The wires *)
(* it reads at a frame, the decoded space key and the cannon's next        *)
(* column, are the parameters of Frame.                                    *)
(*                                                                         *)
(* laser_X_Motion is not a motion: it holds the column of the shot, which  *)
(* the position register copies one frame later (laser.sv:131).  The       *)
(* registers key_press_in and key_press are written but never read and     *)
(* have no variable.                                                       *)
(***************************************************************************)
EXTENDS Registers

CONSTANTS
    laser_X_Center,
    laser_Y_Reset_pos,
    laser_Y_Min,
    laser_Y_Step,
    laser_Size,
    Columns              \* the values the wire Cannon_X_Pos_in takes

(* k steps above the row a shot starts in. *)
Row(k) == laser_Y_Reset_pos - k * laser_Y_Step

(***************************************************************************)
(* The parameters at laser.sv:15-24 satisfy these facts.  The last one is  *)
(* what the test for the top of the screen silently relies on: the row of  *)
(* a shot that has not arrived yet leaves room for another step.  It holds *)
(* of rows 470, 463, ..., 8, 1 and would not hold of every start row.      *)
(***************************************************************************)
ASSUME LaserAssumption ==
    /\ laser_X_Center \in Word /\ laser_Y_Reset_pos \in Word
    /\ laser_Y_Min \in Word /\ laser_Y_Step \in Word \ {0}
    /\ laser_Size \in Word
    /\ laser_Y_Min + laser_Size < laser_Y_Reset_pos
    /\ 0 \in Columns /\ laser_X_Center \in Columns /\ Columns \subseteq Word
    /\ \A k \in 0 .. laser_Y_Reset_pos :
          Row(k) > laser_Y_Min + laser_Size => Row(k) >= laser_Y_Step

VARIABLES
    laser_X_Pos,
    laser_Y_Pos,
    laser_X_Motion,
    laser_Y_Motion,
    laser_on,
    Reset                \* history: was Reset high at the last edge?

laserVars ==
    <<laser_X_Pos, laser_Y_Pos, laser_X_Motion, laser_Y_Motion, laser_on, Reset>>

-----------------------------------------------------------------------------
AtTopNoMargin == laser_Y_Pos <= laser_Y_Min

AtTop == laser_Y_Pos <= Add(laser_Y_Min, laser_Size)

InFlight == laser_on /\ ~AtTop

(* The power-up contents of the registers. *)
LaserInit ==
    /\ laser_X_Pos = 0 /\ laser_Y_Pos = 0
    /\ laser_X_Motion = 0 /\ laser_Y_Motion = 0
    /\ laser_on = FALSE
    /\ Reset = FALSE

-----------------------------------------------------------------------------
(* The three outcomes of a frame. *)

\* A fault: a shot that follows the cannon.
ClimbSteered(Cannon_X_Pos_in) ==
    /\ laser_X_Motion' = Cannon_X_Pos_in
    /\ laser_Y_Motion' = Negate(laser_Y_Step)
    /\ laser_Y_Pos' = Add(laser_Y_Pos, laser_Y_Motion)
    /\ laser_on' = TRUE

\* The shot in the air goes on; the keys and the cannon do not matter.
Climb(Cannon_X_Pos_in) ==
    /\ UNCHANGED laser_X_Motion
    /\ laser_Y_Motion' = Negate(laser_Y_Step)
    /\ laser_Y_Pos' = Add(laser_Y_Pos, laser_Y_Motion)
    /\ laser_on' = TRUE

\* A shot is fired, in the frame in which the previous one ends if it was
\* at the top: the assignments at laser.sv:86-91 are all overwritten.
Fire(Cannon_X_Pos_in) ==
    /\ laser_X_Motion' = Cannon_X_Pos_in
    /\ laser_Y_Pos' = laser_Y_Reset_pos
    /\ laser_Y_Motion' = Negate(laser_Y_Step)
    /\ laser_on' = TRUE

\* Faults: a resting laser that keeps its old column, or stays switched on.
RestInPlace(Cannon_X_Pos_in) ==
    /\ UNCHANGED laser_X_Motion
    /\ laser_Y_Motion' = 0 /\ laser_Y_Pos' = laser_Y_Reset_pos
    /\ laser_on' = FALSE

RestSwitchedOn(Cannon_X_Pos_in) ==
    /\ laser_X_Motion' = Cannon_X_Pos_in
    /\ laser_Y_Motion' = 0 /\ laser_Y_Pos' = laser_Y_Reset_pos
    /\ UNCHANGED laser_on

\* No shot: the column follows the cannon.
Rest(Cannon_X_Pos_in) ==
    /\ laser_X_Motion' = Cannon_X_Pos_in
    /\ laser_Y_Motion' = 0
    /\ laser_Y_Pos' = laser_Y_Reset_pos    \* the literal 10'd470 at line 124
    /\ laser_on' = FALSE

\* Faults: a shot that goes out when the key is released, and a shot that has
\* arrived and is not retired.
FrameWhileHeld(space, Cannon_X_Pos_in) ==
    /\ \/ space /\ InFlight /\ Climb(Cannon_X_Pos_in)
       \/ space /\ ~InFlight /\ Fire(Cannon_X_Pos_in)
       \/ ~space /\ Rest(Cannon_X_Pos_in)
    /\ laser_X_Pos' = laser_X_Motion
    /\ Reset' = FALSE

FrameStuckAtTop(space, Cannon_X_Pos_in) ==
    /\ \/ InFlight /\ Climb(Cannon_X_Pos_in)
       \/ laser_on /\ AtTop
             /\ UNCHANGED <<laser_Y_Pos, laser_X_Motion, laser_Y_Motion, laser_on>>
       \/ ~laser_on /\ space /\ Fire(Cannon_X_Pos_in)
       \/ ~laser_on /\ ~space /\ Rest(Cannon_X_Pos_in)
    /\ laser_X_Pos' = laser_X_Motion
    /\ Reset' = FALSE

LaserFrame(space, Cannon_X_Pos_in) ==
    /\ \/ InFlight /\ Climb(Cannon_X_Pos_in)
       \/ ~InFlight /\ space /\ Fire(Cannon_X_Pos_in)
       \/ ~InFlight /\ ~space /\ Rest(Cannon_X_Pos_in)
    /\ laser_X_Pos' = laser_X_Motion
    /\ Reset' = FALSE

LaserReset ==
    /\ laser_X_Pos' = laser_X_Center
    /\ laser_Y_Pos' = laser_Y_Reset_pos
    /\ laser_X_Motion' = 0
    /\ laser_Y_Motion' = 0
    /\ laser_on' = FALSE
    /\ Reset' = TRUE

AnyFrame == \E space \in BOOLEAN, column \in Columns : LaserFrame(space, column)

LaserNext == AnyFrame \/ LaserReset

LaserSafeSpec == LaserInit /\ [][LaserNext]_laserVars

(* Frames keep coming: VGA_VS is generated by free-running counters, see   *)
(* FrameClock.                                                             *)
LaserSpec == LaserSafeSpec /\ WF_laserVars(AnyFrame)

-----------------------------------------------------------------------------
(* Properties. *)

(* Every register holds a word; the column is one the cannon has had.      *)
LaserTypeOK ==
    /\ laser_X_Pos \in Columns /\ laser_X_Motion \in Columns
    /\ laser_Y_Pos \in Word /\ laser_Y_Motion \in Word
    /\ laser_on \in BOOLEAN /\ Reset \in BOOLEAN

(* laser.sv:86-126: the row register never wraps below row 0, so a shot    *)
(* never comes back from the bottom of the screen.                         *)
NeverWraps == laser_Y_Pos <= laser_Y_Reset_pos

(* What makes NeverWraps inductive: a shot is some number of steps above   *)
(* its start row, and its motion is one step up.                           *)
ShotOnGrid ==
    laser_on => /\ laser_Y_Motion = Negate(laser_Y_Step)
                /\ \E k \in 0 .. laser_Y_Reset_pos : laser_Y_Pos = Row(k)

(* laser.sv:131: after the frame it is fired in, a shot is drawn in the    *)
(* column that was captured when it was fired.  In its first frame it is   *)
(* still drawn in whatever column the register held before.                *)
DrawnInItsColumn ==
    (laser_on /\ laser_Y_Pos # laser_Y_Reset_pos)
        => laser_X_Pos = laser_X_Motion

(* laser.sv:62-135 implements the gun with at most one shot in the air.    *)
G == INSTANCE Gun WITH
        StartRow <- laser_Y_Reset_pos,
        TopRow <- laser_Y_Min + laser_Size,
        Step <- laser_Y_Step,
        shots <- IF laser_on
                 THEN {[column |-> laser_X_Motion, row |-> laser_Y_Pos]}
                 ELSE {},
        reset <- Reset

(* laser.sv:39-50 and 79-128: one shot at a time, in a fixed column, one   *)
(* step per frame; nothing but the Reset button takes a shot away or       *)
(* starts another before it has arrived, and every shot that is not reset  *)
(* does arrive and is retired or replaced.                                 *)
SingleShot == G!Spec
=============================================================================
