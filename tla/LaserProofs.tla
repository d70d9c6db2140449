----------------------------- MODULE LaserProofs -----------------------------
(***************************************************************************)
(* The laser never wraps around and is a gun with one shot, for every      *)
(* width, screen, step and size that satisfy LaserAssumption.              *)
(***************************************************************************)
EXTENDS Laser, TLAPS

(* Arithmetic of the rows of a shot: from a row with room for a step there *)
(* is a next row, one step higher.                                         *)
LEMMA NextRow ==
    ASSUME NEW k \in 0 .. laser_Y_Reset_pos, Row(k) >= laser_Y_Step
    PROVE  /\ k + 1 \in 0 .. laser_Y_Reset_pos
           /\ Row(k + 1) = Row(k) - laser_Y_Step
<1> DEFINE step == laser_Y_Step
<1>1. laser_Y_Reset_pos \in Nat /\ step \in Nat /\ step >= 1 /\ k \in Nat
  BY LaserAssumption, ModulusAssumption DEF Word
<1>2. (k + 1) * step = k * step + step
  BY <1>1
<1>3. k * step \in Nat /\ k * step >= k
  BY <1>1
<1>4. Row(k) = laser_Y_Reset_pos - k * step /\ Row(k + 1) = laser_Y_Reset_pos - (k + 1) * step
  BY DEF Row
<1>5. k + 1 <= laser_Y_Reset_pos
  BY <1>1, <1>3, <1>4
<1>6. QED
  BY <1>1, <1>2, <1>3, <1>4, <1>5

(* The inductive invariant of the row register. *)
LaserInv == LaserTypeOK /\ NeverWraps /\ ShotOnGrid

(* laser.sv:92-97: a shot in flight is moved up by exactly one step.       *)
LEMMA ClimbRow ==
    ASSUME LaserInv, InFlight, NEW col \in Columns, Climb(col)
    PROVE  /\ laser_Y_Pos' = laser_Y_Pos - laser_Y_Step
           /\ laser_Y_Pos' \in Word /\ laser_Y_Pos' <= laser_Y_Reset_pos
           /\ \E k \in 0 .. laser_Y_Reset_pos : laser_Y_Pos' = Row(k)
<1>1. PICK k \in 0 .. laser_Y_Reset_pos : laser_Y_Pos = Row(k)
  BY DEF LaserInv, ShotOnGrid, InFlight
<1>2. laser_Y_Pos > laser_Y_Min + laser_Size
  BY LaserAssumption, ModulusAssumption
     DEF InFlight, AtTop, Add, Word, LaserInv, LaserTypeOK
<1>3. laser_Y_Pos >= laser_Y_Step
  BY <1>1, <1>2, LaserAssumption
<1>4. laser_Y_Pos' = Add(laser_Y_Pos, Negate(laser_Y_Step))
  BY DEF Climb, LaserInv, ShotOnGrid, InFlight
<1>5. laser_Y_Pos' = laser_Y_Pos - laser_Y_Step
  BY <1>3, <1>4, LaserAssumption, ModulusAssumption
     DEF Add, Negate, Word, LaserInv, LaserTypeOK
<1>6. /\ k + 1 \in 0 .. laser_Y_Reset_pos
      /\ Row(k + 1) = laser_Y_Pos - laser_Y_Step
  BY <1>1, <1>3, NextRow
<1>7. laser_Y_Pos' = Row(k + 1)
  BY <1>5, <1>6
<1>8. laser_Y_Pos - laser_Y_Step \in Word /\ laser_Y_Pos - laser_Y_Step <= laser_Y_Reset_pos
  BY <1>3, LaserAssumption, ModulusAssumption DEF Word, LaserInv, LaserTypeOK, NeverWraps
<1>9. QED
  BY <1>5, <1>6, <1>7, <1>8

(* The start row is row 0 of the grid, and words are closed under negation *)
(* of the step.                                                            *)
LEMMA StartRow ==
    /\ 0 \in 0 .. laser_Y_Reset_pos /\ laser_Y_Reset_pos = Row(0)
    /\ laser_Y_Reset_pos \in Word /\ laser_Y_Reset_pos <= laser_Y_Reset_pos
    /\ Negate(laser_Y_Step) \in Word /\ 0 \in Word
BY LaserAssumption, ModulusAssumption DEF Row, Word, Negate

(* A frame preserves the invariant, whatever the key and the cannon do.    *)
LEMMA FrameInv ==
    ASSUME LaserInv, NEW space \in BOOLEAN, NEW col \in Columns,
           LaserFrame(space, col)
    PROVE  LaserInv'
<1>1. laser_X_Pos' \in Columns /\ Reset' \in BOOLEAN
  BY DEF LaserFrame, LaserInv, LaserTypeOK
<1>2. CASE InFlight /\ Climb(col)
  <2>1. /\ laser_X_Motion' \in Columns /\ laser_on' = TRUE
        /\ laser_Y_Motion' = Negate(laser_Y_Step)
    BY <1>2 DEF Climb, LaserInv, LaserTypeOK
  <2>2. QED
    BY <1>1, <1>2, <2>1, ClimbRow, StartRow
       DEF LaserInv, LaserTypeOK, NeverWraps, ShotOnGrid, Negate, Row
<1>3. CASE Fire(col)
  <2>1. \E k \in 0 .. laser_Y_Reset_pos : laser_Y_Pos' = Row(k)
    BY <1>3, StartRow DEF Fire
  <2>2. QED
    BY <1>1, <1>3, <2>1, StartRow
       DEF Fire, LaserInv, LaserTypeOK, NeverWraps, ShotOnGrid, Negate, Row
<1>4. CASE Rest(col)
  BY <1>1, <1>4, StartRow
     DEF Rest, LaserInv, LaserTypeOK, NeverWraps, ShotOnGrid
<1>5. QED
  BY <1>2, <1>3, <1>4 DEF LaserFrame

(* The registers power up inside the invariant.                            *)
LEMMA InitInv == LaserInit => LaserInv
<1>1. 0 \in Columns /\ 0 \in Word /\ 0 <= laser_Y_Reset_pos
  BY LaserAssumption, StartRow DEF Word
<1>2. QED
  BY <1>1 DEF LaserInit, LaserInv, LaserTypeOK, NeverWraps, ShotOnGrid

(* Reset, laser.sv:41-50, re-establishes the invariant.                    *)
LEMMA ResetInv == LaserReset => LaserInv'
BY LaserAssumption, StartRow
   DEF LaserReset, LaserInv, LaserTypeOK, NeverWraps, ShotOnGrid

(* laser.sv:33-135: the invariant holds in every reachable state. *)
THEOREM Invariance == LaserSafeSpec => []LaserInv
<1>2. LaserInv /\ [LaserNext]_laserVars => LaserInv'
  <2>1. ASSUME LaserInv, AnyFrame PROVE LaserInv'
    BY <2>1, FrameInv DEF AnyFrame
  <2>2. ASSUME LaserInv, LaserReset PROVE LaserInv'
    BY <2>2, ResetInv
  <2>3. ASSUME LaserInv, UNCHANGED laserVars PROVE LaserInv'
    BY <2>3 DEF laserVars, LaserInv, LaserTypeOK, NeverWraps, ShotOnGrid
  <2>4. QED
    BY <2>1, <2>2, <2>3 DEF LaserNext
<1>3. QED
  BY InitInv, <1>2, PTL DEF LaserSafeSpec

(* laser.sv:86-126: the row never wraps below the top of the screen, for   *)
(* every screen whose start row is aligned as LaserAssumption says.        *)
THEOREM RowNeverWraps == LaserSpec => []NeverWraps
<1>1. LaserInv => NeverWraps
  BY DEF LaserInv
<1>2. QED
  BY <1>1, Invariance, PTL DEF LaserSpec

(* laser.sv:131: from its second frame on a shot is drawn in the column it *)
(* was fired in: both registers are written from the same one, and a shot  *)
(* below its start row is never in its first frame.                        *)
THEOREM DrawnWhereFired == LaserSpec => []DrawnInItsColumn
<1>1. LaserInit => DrawnInItsColumn
  BY DEF LaserInit, DrawnInItsColumn
<1>2. DrawnInItsColumn /\ [LaserNext]_laserVars => DrawnInItsColumn'
  <2>1. ASSUME NEW space \in BOOLEAN, NEW col \in Columns, LaserFrame(space, col)
        PROVE  DrawnInItsColumn'
    <3>1. \/ laser_X_Motion' = laser_X_Motion
          \/ laser_Y_Pos' = laser_Y_Reset_pos
      BY <2>1 DEF LaserFrame, Climb, Fire, Rest
    <3>2. QED
      BY <2>1, <3>1 DEF LaserFrame, DrawnInItsColumn
  <2>2. ASSUME LaserReset PROVE DrawnInItsColumn'
    BY <2>2 DEF LaserReset, DrawnInItsColumn
  <2>3. ASSUME DrawnInItsColumn, UNCHANGED laserVars PROVE DrawnInItsColumn'
    BY <2>3 DEF laserVars, DrawnInItsColumn
  <2>4. QED
    BY <2>1, <2>2, <2>3 DEF LaserNext, AnyFrame
<1>3. QED
  BY <1>1, <1>2, PTL DEF LaserSpec, LaserSafeSpec

(* laser.sv:39-50 and 79-128: every step of the laser is a step of the gun *)
(* with one shot.  A shot in flight is taken away by no step but a reset.  *)
THEOREM Implements == LaserSafeSpec => G!SafeSpec
<1> DEFINE shots == IF laser_on
                    THEN {[column |-> laser_X_Motion, row |-> laser_Y_Pos]}
                    ELSE {}
<1>1. LaserInit => G!Init
  BY DEF LaserInit, G!Init
<1>2. LaserInv /\ [LaserNext]_laserVars => [G!Next]_(G!vars)
  <2> SUFFICES ASSUME LaserInv, [LaserNext]_laserVars
               PROVE  G!Next \/ (shots' = shots /\ Reset' = Reset)
    BY DEF G!vars
  <2>1. ASSUME NEW col \in Columns, InFlight, Climb(col), Reset' = FALSE
        PROVE  G!Climb
    <3>1. laser_Y_Pos > laser_Y_Min + laser_Size
      BY <2>1, LaserAssumption, ModulusAssumption
         DEF InFlight, AtTop, Add, Word, LaserInv, LaserTypeOK
    <3>2. shots = {[column |-> laser_X_Motion, row |-> laser_Y_Pos]}
      BY <2>1 DEF InFlight
    <3>3. shots' = {[column |-> laser_X_Motion,
                     row |-> laser_Y_Pos - laser_Y_Step]}
      BY <2>1, ClimbRow DEF Climb
    <3> DEFINE this == [column |-> laser_X_Motion, row |-> laser_Y_Pos]
    <3>4. this \in shots /\ ~G!Arrived(this)
      <4>1. ~(laser_Y_Pos <= laser_Y_Min + laser_Size)
        BY <3>1, LaserAssumption DEF Word, LaserInv, LaserTypeOK
      <4>2. QED
        BY <3>2, <4>1 DEF G!Arrived
    <3>5. shots' = {[shot EXCEPT !.row = @ - laser_Y_Step] : shot \in shots}
      <4>1. [this EXCEPT !.row = @ - laser_Y_Step]
              = [column |-> laser_X_Motion, row |-> laser_Y_Pos - laser_Y_Step]
        OBVIOUS
      <4>2. shots = {this}
        BY <3>2
      <4> HIDE DEF this, shots
      <4>3. QED
        BY <3>3, <4>1, <4>2
    <3>6. Reset' = FALSE
      BY <2>1
    <3>7. QED
      BY <3>4, <3>5, <3>6 DEF G!Climb
  <2>2. ~InFlight => \A shot \in shots : G!Arrived(shot)
    BY LaserAssumption, ModulusAssumption
       DEF InFlight, AtTop, Add, Word, G!Arrived, LaserInv, LaserTypeOK
  <2>3. ASSUME NEW col \in Columns, ~InFlight, Fire(col), Reset' = FALSE
        PROVE  G!Fire
    BY <2>2, <2>3 DEF Fire, G!Fire
  <2>4. ASSUME NEW col \in Columns, ~InFlight, Rest(col), Reset' = FALSE
        PROVE  G!Retire
    BY <2>2, <2>4 DEF Rest, G!Retire
  <2>5. ASSUME NEW space \in BOOLEAN, NEW col \in Columns, LaserFrame(space, col)
        PROVE  G!Next
    BY <2>1, <2>3, <2>4, <2>5 DEF LaserFrame, G!Next
  <2>6. ASSUME LaserReset PROVE G!Next
    BY <2>6 DEF LaserReset, G!Clear, G!Next
  <2>7. ASSUME UNCHANGED laserVars PROVE shots' = shots /\ Reset' = Reset
    BY <2>7 DEF laserVars
  <2>8. QED
    BY <2>5, <2>6, <2>7 DEF LaserNext, AnyFrame
<1>3. QED
  BY <1>1, <1>2, Invariance, PTL DEF LaserSafeSpec, G!SafeSpec

(* The registers of the laser hold values of their types. *)
THEOREM TypeCorrect == LaserSpec => []LaserTypeOK
<1>1. LaserInv => LaserTypeOK
  BY DEF LaserInv
<1>2. QED
  BY <1>1, Invariance, PTL DEF LaserSpec
=============================================================================
