----------------------------- MODULE GameProofs -----------------------------
(***************************************************************************)
(* Cannon and laser together, for every geometry that satisfies            *)
(* GameAssumption and whatever the software writes to the PIO.  The        *)
(* invariants of the two components are those of CannonProofs and          *)
(* LaserProofs; what this module adds is that each keeps what the other    *)
(* relies on: the column handed to the laser is always one of the screen.  *)
(***************************************************************************)
EXTENDS Game, TLAPS

CP == INSTANCE CannonProofs

LP == INSTANCE LaserProofs WITH Columns <- 0 .. Cannon_X_Max, Reset <- Reset_h

(* The geometry satisfies what the proofs of the components assume.        *)
LEMMA Assumptions ==
    /\ CP!ModulusAssumption /\ CP!CannonAssumption
    /\ LP!ModulusAssumption /\ LP!LaserAssumption
BY GameAssumption
   DEF CP!ModulusAssumption, C!ModulusAssumption, LP!ModulusAssumption,
       CP!CannonAssumption, C!CannonAssumption, CP!Word, C!Word,
       LP!LaserAssumption, L!LaserAssumption, LP!Word, L!Word, LP!Row, L!Row

LEMMA Geometry ==
    /\ Cannon_X_Min = 0 /\ Cannon_X_Max \in Nat
    /\ laser_Y_Reset_pos \in Nat /\ laser_Y_Step \in Nat /\ laser_Y_Step > 0
    /\ laser_Size \in Nat
    /\ H_Visible \in Nat /\ V_Visible \in Nat
    /\ Cannon_X_Max < H_Visible /\ laser_Y_Reset_pos < V_Visible
<1>1. Modulus \in Nat
  BY GameAssumption DEF C!ModulusAssumption
<1>2. QED
  BY <1>1, GameAssumption
     DEF C!CannonAssumption, L!LaserAssumption, C!Word, L!Word

(* The components of Game are the modules proved about.                    *)
LEMMA SameCannon ==
    /\ C!CannonInit => CP!CannonInit
    /\ C!CannonReset => CP!CannonReset
    /\ C!Cannon_X_Pos_in = CP!Cannon_X_Pos_in
    /\ \A l, r : C!CannonFrame(l, r) => CP!CannonFrame(l, r)
BY DEF C!CannonInit, CP!CannonInit, C!CannonReset, CP!CannonReset, C!Cannon_X_Pos_in, CP!Cannon_X_Pos_in,
       C!Add, CP!Add, C!CannonFrame, CP!CannonFrame, C!SteerLeft, CP!SteerLeft,
       C!SteerRight, CP!SteerRight, C!Release, CP!Release, C!AtLeftEdge,
       CP!AtLeftEdge, C!AtRightEdge, CP!AtRightEdge, C!Negate, CP!Negate

LEMMA SameLaser ==
    /\ L!LaserInit => LP!LaserInit
    /\ L!LaserReset => LP!LaserReset
    /\ L!InFlight = LP!InFlight
    /\ \A col : L!Climb(col) => LP!Climb(col)
    /\ \A s, col : L!LaserFrame(s, col) => LP!LaserFrame(s, col)
BY DEF L!LaserInit, LP!LaserInit, L!LaserReset, LP!LaserReset, L!InFlight, LP!InFlight, L!AtTop,
       LP!AtTop, L!Add, LP!Add, L!Climb, LP!Climb, L!LaserFrame, LP!LaserFrame,
       L!Fire, LP!Fire, L!Rest, LP!Rest, L!Negate, LP!Negate

-----------------------------------------------------------------------------
(* The inductive invariant: a resting laser follows the cannon because     *)
(* both registers get the same wire at the same frame.                     *)
GameInv ==
    /\ keycode \in Keycodes
    /\ CP!CannonInv
    /\ LP!LaserInv
    /\ RestingLaserFollows

(* cannon.sv:109, final_project.sv:140: the wire from the cannon to the    *)
(* laser carries a column of the screen.                                   *)
LEMMA WireOnScreen ==
    ASSUME CP!CannonInv
    PROVE  C!Cannon_X_Pos_in \in 0 .. Cannon_X_Max
<1>1. /\ CP!Cannon_X_Pos_in \in CP!Word
      /\ Cannon_X_Min <= CP!Cannon_X_Pos_in /\ CP!Cannon_X_Pos_in <= Cannon_X_Max
  BY Assumptions, CP!NextColumn
<1>2. CP!Word = 0 .. Modulus - 1 /\ Modulus \in Nat
  BY Assumptions DEF CP!Word, CP!ModulusAssumption
<1>3. QED
  BY <1>1, <1>2, SameCannon, Geometry

(* Power-up. *)
LEMMA InitInv == Init => GameInv
<1> SUFFICES ASSUME Init PROVE GameInv
  OBVIOUS
<1>1. CP!CannonInv
  BY Assumptions, SameCannon, CP!InitInv DEF Init
<1>2. LP!LaserInv
  BY Assumptions, SameLaser, LP!InitInv DEF Init
<1>3. RestingLaserFollows
  BY DEF Init, L!LaserInit, RestingLaserFollows
<1>4. QED
  BY <1>1, <1>2, <1>3, GameAssumption DEF Init, GameInv

(* final_project.sv:125-145: at a frame both components step, with the     *)
(* keys of the PIO and the wire between them.                              *)
LEMMA FrameStep ==
    ASSUME GameInv, Frame
    PROVE  /\ GameInv'
           /\ Cannon_X_Pos' = C!Cannon_X_Pos_in
           /\ \/ L!InFlight /\ laser_Y_Pos' = laser_Y_Pos - laser_Y_Step
              \/ laser_X_Motion' = Cannon_X_Pos'
<1> DEFINE l == left(keycode)
           r == right(keycode)
           s == space(keycode)
           col == C!Cannon_X_Pos_in
<1>1. l \in BOOLEAN /\ r \in BOOLEAN /\ s \in BOOLEAN
  BY DEF left, right, space, Pressed
<1>2. C!CannonFrame(l, r) /\ L!LaserFrame(s, col) /\ keycode' = keycode
  BY DEF Frame
<1>3. col \in 0 .. Cannon_X_Max
  BY WireOnScreen DEF GameInv
<1>4. Cannon_X_Pos' = col
  BY <1>2 DEF C!CannonFrame
<1> HIDE DEF l, r, s, col
<1>5. CP!CannonInv'
  BY <1>1, <1>2, Assumptions, SameCannon, CP!FrameInv DEF GameInv
<1>6. LP!LaserInv'
  BY <1>1, <1>2, <1>3, Assumptions, SameLaser, LP!FrameInv DEF GameInv
<1>7. CASE L!InFlight /\ L!Climb(col)
  <2>1. laser_Y_Pos' = laser_Y_Pos - laser_Y_Step
    BY <1>7, <1>3, Assumptions, SameLaser, LP!ClimbRow DEF GameInv
  <2>2. RestingLaserFollows'
    BY <1>7 DEF L!Climb, RestingLaserFollows
  <2>3. QED
    BY <1>2, <1>4, <1>5, <1>6, <1>7, <2>1, <2>2 DEF GameInv, col
<1>8. CASE L!Fire(col)
  BY <1>2, <1>4, <1>5, <1>6, <1>8 DEF L!Fire, RestingLaserFollows, GameInv, col
<1>9. CASE L!Rest(col)
  BY <1>2, <1>4, <1>5, <1>6, <1>9 DEF L!Rest, RestingLaserFollows, GameInv, col
<1>10. QED
  BY <1>2, <1>7, <1>8, <1>9 DEF L!LaserFrame

LEMMA ResetStep ==
    ASSUME GameInv, Reset PROVE GameInv' /\ ~laser_on'
<1>1. C!CannonReset /\ L!LaserReset /\ keycode' = keycode
  BY DEF Reset
<1>2. CP!CannonInv'
  BY <1>1, Assumptions, SameCannon, CP!ResetInv
<1>3. LP!LaserInv'
  BY <1>1, Assumptions, SameLaser, LP!ResetInv
<1>4. RestingLaserFollows' /\ ~laser_on'
  BY <1>1 DEF L!LaserReset, RestingLaserFollows
<1>5. QED
  BY <1>1, <1>2, <1>3, <1>4 DEF GameInv

(* main.c:552-556: the software's store touches neither component.         *)
LEMMA QuietStep ==
    ASSUME GameInv, UNCHANGED <<cannonVars, laserVars>>, keycode' \in Keycodes
    PROVE  GameInv'
BY DEF GameInv, cannonVars, laserVars, RestingLaserFollows, CP!CannonInv,
       CP!CannonTypeOK, CP!CannonOnScreen, CP!PendingMotionSafe,
       LP!LaserInv, LP!LaserTypeOK, LP!NeverWraps, LP!ShotOnGrid

LEMMA Step == GameInv /\ [Next]_vars => GameInv'
<1>1. ASSUME GameInv, Publish PROVE GameInv'
  BY <1>1, QuietStep DEF Publish
<1>2. ASSUME GameInv, UNCHANGED vars PROVE GameInv'
  BY <1>2, QuietStep DEF vars, GameInv
<1>3. QED
  BY <1>1, <1>2, FrameStep, ResetStep DEF Next

(* The invariant holds in every reachable state. *)
THEOREM Invariance == Spec => []GameInv
BY InitInv, Step, PTL DEF Spec, SafeSpec

(* Every register of the two components holds a value of its type, with    *)
(* the keys the software publishes.                                        *)
THEOREM TypeCorrect == Spec => []TypeOK
<1>1. GameInv => TypeOK
  BY DEF GameInv, TypeOK, CP!CannonInv, CP!CannonTypeOK, C!CannonTypeOK, CP!Word, C!Word,
         CP!Negate, C!Negate, LP!LaserInv, LP!LaserTypeOK, L!LaserTypeOK, LP!Word, L!Word
<1>2. QED
  BY <1>1, Invariance, PTL

(* laser.sv:121-126: the column of a resting laser is the cannon's.        *)
THEOREM RestingFollows == Spec => []RestingLaserFollows
<1>1. GameInv => RestingLaserFollows
  BY DEF GameInv
<1>2. QED
  BY <1>1, Invariance, PTL

(* The discs of two points that are further apart in one direction than    *)
(* the radius do not hide each other's centres.                            *)
LEMMA Apart ==
    ASSUME NEW dx \in Int, NEW dy \in Int, NEW size \in Nat,
           dy > size \/ dy < -size
    PROVE  ~(dx * dx + dy * dy <= size * size)
<1>1. dx * dx >= 0
  OBVIOUS
<1>2. ASSUME NEW d \in Int, d > size PROVE d * d > size * size
  <2>1. d * d >= d * size /\ d * size >= size * size
    BY <1>2
  <2>2. (d - size) * d > 0
    BY <1>2
  <2>3. d * d > d * size
    BY <1>2, <2>2
  <2>4. QED
    BY <1>2, <2>1, <2>3
<1>3. CASE dy > size
  BY <1>1, <1>2, <1>3
<1>4. CASE dy < -size
  <2>1. (-dy) * (-dy) > size * size
    BY <1>2, <1>4
  <2>2. (-dy) * (-dy) = dy * dy
    OBVIOUS
  <2>3. QED
    BY <1>1, <2>1, <2>2
<1>5. QED
  BY <1>3, <1>4

(* A shot past its first frame is at least one step above its start row.   *)
LEMMA AboveStart ==
    ASSUME GameInv, laser_on, laser_Y_Pos # laser_Y_Reset_pos
    PROVE  laser_Y_Pos <= laser_Y_Reset_pos - laser_Y_Step
<1>1. PICK k \in 0 .. laser_Y_Reset_pos : laser_Y_Pos = LP!Row(k)
  BY DEF GameInv, LP!LaserInv, LP!ShotOnGrid
<1>2. laser_Y_Pos = laser_Y_Reset_pos - k * laser_Y_Step
  BY <1>1 DEF LP!Row
<1>3. k \in Nat /\ k # 0
  BY <1>2, Geometry
<1>4. k * laser_Y_Step >= laser_Y_Step
  BY <1>3, Geometry
<1>5. QED
  BY <1>2, <1>3, <1>4, Geometry

(* Color_Mapper.sv:55-81: a shot is drawn on the visible screen, and is    *)
(* hidden by the cannon in its own row only in its first frame.            *)
THEOREM ShotsAreVisible == Spec => []ShotIsVisible
<1>1. ASSUME GameInv, laser_on PROVE ShotIsVisible
  <2>1. laser_X_Pos \in 0 .. H_Visible - 1 /\ laser_X_Pos \in Nat
    BY <1>1, Geometry DEF GameInv, LP!LaserInv, LP!LaserTypeOK
  <2>2. laser_Y_Pos \in Nat
    BY <1>1, GameAssumption
       DEF GameInv, LP!LaserInv, LP!LaserTypeOK, LP!Word, C!ModulusAssumption
  <2>3. laser_Y_Pos \in 0 .. V_Visible - 1
    BY <1>1, <2>2, Geometry DEF GameInv, LP!LaserInv, LP!NeverWraps
  <2>4. ASSUME laser_Y_Pos # laser_Y_Reset_pos, Cannon_Y_Pos = Cannon_Y_Reset_pos
        PROVE  Colour(laser_X_Pos, laser_Y_Pos) = "white"
    <3>1. /\ Cannon_X_Pos \in Nat /\ Cannon_Y_Pos \in Nat /\ Cannon_Size \in Nat
          /\ laser_Y_Reset_pos <= Cannon_Y_Pos /\ Cannon_Size < laser_Y_Step
      BY <1>1, <2>4, GameAssumption
         DEF GameInv, CP!CannonInv, CP!CannonTypeOK, CP!Word,
             C!CannonAssumption, C!ModulusAssumption, C!Word
    <3>2. laser_Y_Pos - Cannon_Y_Pos < -Cannon_Size
      BY <1>1, <2>2, <2>4, <3>1, AboveStart, Geometry
    <3>3. ~is_cannon(laser_X_Pos, laser_Y_Pos)
      <4> DEFINE dx == laser_X_Pos - Cannon_X_Pos
                 dy == laser_Y_Pos - Cannon_Y_Pos
      <4>1. dx \in Int /\ dy \in Int
        BY <2>1, <2>2, <3>1
      <4>2. ~(dx * dx + dy * dy <= Cannon_Size * Cannon_Size)
        <5> HIDE DEF dx
        <5>1. dy < -Cannon_Size
          BY <3>2
        <5> HIDE DEF dy
        <5>2. QED
          BY <3>1, <4>1, <5>1, Apart
      <4>3. QED
        BY <4>2 DEF is_cannon, Disc
    <3>4. is_laser(laser_X_Pos, laser_Y_Pos)
      <4>1. laser_Size * laser_Size >= 0
        BY Geometry
      <4>2. laser_X_Pos - laser_X_Pos = 0 /\ laser_Y_Pos - laser_Y_Pos = 0
        BY <2>1, <2>2
      <4>3. QED
        BY <1>1, <4>1, <4>2 DEF is_laser, Disc
    <3>5. QED
      BY <3>3, <3>4 DEF Colour
  <2>5. QED
    BY <2>1, <2>3, <2>4 DEF ShotIsVisible
<1>2. GameInv => ShotIsVisible
  BY <1>1 DEF ShotIsVisible
<1>3. QED
  BY <1>2, Invariance, PTL

(* laser.sv:99, final_project.sv:140: a shot starts in the column of the   *)
(* cannon, also when it replaces one that has just arrived.                *)
THEOREM ShotsStartAtTheCannon == Spec => FiredFromTheCannon
<1>1. ASSUME GameInv, Next, laser_on', laser_Y_Pos' = laser_Y_Reset_pos,
             ~UNCHANGED laserVars
      PROVE  laser_X_Motion' = Cannon_X_Pos'
  <2>1. ~Publish
    BY <1>1 DEF Publish
  <2>2. ~Reset
    BY <1>1, ResetStep
  <2>3. laser_Y_Pos \in Nat /\ laser_Y_Pos <= laser_Y_Reset_pos
    BY <1>1, GameAssumption
       DEF GameInv, LP!LaserInv, LP!LaserTypeOK, LP!NeverWraps, LP!Word, C!ModulusAssumption
  <2>4. laser_Y_Pos' # laser_Y_Pos - laser_Y_Step
    BY <1>1, <2>3, Geometry
  <2>5. QED
    BY <1>1, <2>1, <2>2, <2>4, FrameStep DEF Next
<1>2. GameInv /\ [Next]_vars
         => [(laser_on' /\ laser_Y_Pos' = laser_Y_Reset_pos /\ ~UNCHANGED laserVars)
                => laser_X_Motion' = Cannon_X_Pos']_vars
  BY <1>1
<1>3. QED
  BY <1>2, Invariance, PTL DEF Spec, SafeSpec, FiredFromTheCannon

=============================================================================
