---------------------------- MODULE CannonProofs ----------------------------
(***************************************************************************)
(* The cannon stays on the screen, for every width of the registers and    *)
(* every screen, step and size that satisfy CannonAssumption.              *)
(***************************************************************************)
EXTENDS Cannon, TLAPS

(* Two facts of linear arithmetic: a column y within one step of a column  *)
(* x that is short of an edge by the margin is short of it by the margin   *)
(* less one step.                                                          *)
LEMMA OneStepCloser ==
    ASSUME NEW x \in Int, NEW y \in Int, NEW step \in Int,
           NEW size \in Int, NEW edge \in Int
    PROVE  /\ y <= x + step /\ x + size < edge => y + size < edge + step
           /\ y + step >= x /\ x > edge + size => y + step > edge + size
OBVIOUS

(* The inductive invariant: the range alone is not inductive, because a    *)
(* pending motion could carry the cannon out of it.                        *)
CannonInv == CannonTypeOK /\ CannonOnScreen /\ PendingMotionSafe

(* cannon.sv:109: from a state of the invariant the column of the next     *)
(* frame is the true sum or difference, and is on the screen.              *)
LEMMA NextColumn ==
    ASSUME CannonInv
    PROVE  /\ Cannon_X_Pos_in \in Word
           /\ Cannon_X_Min <= Cannon_X_Pos_in /\ Cannon_X_Pos_in <= Cannon_X_Max
           /\ \/ Cannon_X_Motion = 0 /\ Cannon_X_Pos_in = Cannon_X_Pos
              \/ /\ Cannon_X_Motion = Cannon_X_Step
                 /\ Cannon_X_Pos_in = Cannon_X_Pos + Cannon_X_Step
              \/ /\ Cannon_X_Motion = Negate(Cannon_X_Step)
                 /\ Cannon_X_Pos_in = Cannon_X_Pos - Cannon_X_Step
<1>1. CASE Cannon_X_Motion = 0
  BY <1>1, CannonAssumption, ModulusAssumption
     DEF CannonInv, CannonTypeOK, CannonOnScreen, Cannon_X_Pos_in, Add, Word
<1>2. CASE Cannon_X_Motion = Cannon_X_Step
  BY <1>2, CannonAssumption, ModulusAssumption
     DEF CannonInv, CannonTypeOK, CannonOnScreen, PendingMotionSafe,
         Cannon_X_Pos_in, Add, Word
<1>3. CASE Cannon_X_Motion = Negate(Cannon_X_Step)
  BY <1>3, CannonAssumption, ModulusAssumption
     DEF CannonInv, CannonTypeOK, CannonOnScreen, PendingMotionSafe,
         Cannon_X_Pos_in, Add, Word, Negate
<1>4. QED
  BY <1>1, <1>2, <1>3 DEF CannonInv, CannonTypeOK

(* The registers power up inside the invariant. *)
LEMMA InitInv == CannonInit => CannonInv
BY CannonAssumption, ModulusAssumption
   DEF CannonInit, CannonInv, CannonTypeOK, CannonOnScreen, PendingMotionSafe, Word, Negate

(* The motion a frame decides, cannon.sv:75-105, is one of the three       *)
(* values, and a step towards an edge is decided only short of its margin. *)
LEMMA FrameMotion ==
    ASSUME CannonInv, NEW left \in BOOLEAN, NEW right \in BOOLEAN,
           CannonFrame(left, right)
    PROVE  /\ Cannon_Y_Motion' = 0
           /\ \/ Cannon_X_Motion' = 0
              \/ /\ Cannon_X_Motion' = Cannon_X_Step
                 /\ Cannon_X_Pos + Cannon_Size < Cannon_X_Max
              \/ /\ Cannon_X_Motion' = Negate(Cannon_X_Step)
                 /\ Cannon_X_Pos > Cannon_X_Min + Cannon_Size
<1>1. CASE left /\ SteerLeft
  BY <1>1, CannonAssumption, ModulusAssumption
     DEF CannonInv, CannonTypeOK, CannonOnScreen, SteerLeft, AtLeftEdge, Add, Word
<1>2. CASE ~left /\ right /\ SteerRight
  BY <1>2, CannonAssumption, ModulusAssumption
     DEF CannonInv, CannonTypeOK, CannonOnScreen, SteerRight, AtRightEdge, Add, Word
<1>3. CASE ~left /\ ~right /\ Release
  BY <1>3 DEF CannonInv, CannonTypeOK, Release
<1>4. QED
  BY <1>1, <1>2, <1>3 DEF CannonFrame

(* A frame preserves the invariant, whatever keys it finds. *)
LEMMA FrameInv ==
    ASSUME CannonInv, NEW left \in BOOLEAN, NEW right \in BOOLEAN,
           CannonFrame(left, right)
    PROVE  CannonInv'
<1>1. Cannon_X_Pos' = Cannon_X_Pos_in
  BY DEF CannonFrame
<1>2. CannonOnScreen'
  BY <1>1, NextColumn DEF CannonOnScreen
<1>3. CannonTypeOK'
  <2>1. Cannon_X_Pos' \in Word
    BY <1>1, NextColumn
  <2>2. Cannon_Y_Pos' = Cannon_Y_Pos
    BY CannonAssumption, ModulusAssumption DEF CannonFrame, Add, Word, CannonInv, CannonTypeOK
  <2>3. QED
    BY <2>1, <2>2, FrameMotion DEF CannonInv, CannonTypeOK
<1>4. PendingMotionSafe'
  <2>1. /\ Cannon_X_Pos' + Cannon_X_Step >= Cannon_X_Pos
        /\ Cannon_X_Pos' <= Cannon_X_Pos + Cannon_X_Step
    BY <1>1, NextColumn, CannonAssumption, ModulusAssumption DEF CannonInv, CannonTypeOK, Word
  <2>2. Cannon_X_Step # 0 /\ Negate(Cannon_X_Step) # 0
    BY CannonAssumption, ModulusAssumption DEF Negate, Word
  <2>3. Cannon_X_Step # Negate(Cannon_X_Step)
    BY CannonAssumption, ModulusAssumption DEF Negate, Word, CannonInv, CannonTypeOK
  <2>4. /\ Cannon_X_Pos \in Int /\ Cannon_X_Pos' \in Int
        /\ Cannon_X_Step \in Int /\ Cannon_Size \in Int
        /\ Cannon_X_Min \in Int /\ Cannon_X_Max \in Int
    BY <1>3, CannonAssumption, ModulusAssumption DEF CannonInv, CannonTypeOK, Word
  <2>5. CASE Cannon_X_Motion' = 0
    BY <2>2, <2>5 DEF PendingMotionSafe
  <2>6. CASE /\ Cannon_X_Motion' = Cannon_X_Step
             /\ Cannon_X_Pos + Cannon_Size < Cannon_X_Max
    <3>1. Cannon_X_Pos' + Cannon_Size < Cannon_X_Max + Cannon_X_Step
      BY <2>1, <2>4, <2>6, OneStepCloser
    <3>2. Cannon_X_Motion' # Negate(Cannon_X_Step)
      BY <2>3, <2>6
    <3>3. QED
      BY <3>1, <3>2 DEF PendingMotionSafe, Negate
  <2>7. CASE /\ Cannon_X_Motion' = Negate(Cannon_X_Step)
             /\ Cannon_X_Pos > Cannon_X_Min + Cannon_Size
    <3>1. Cannon_X_Pos' + Cannon_X_Step > Cannon_X_Min + Cannon_Size
      BY <2>1, <2>4, <2>7, OneStepCloser
    <3>2. Cannon_X_Motion' # Cannon_X_Step
      BY <2>3, <2>7
    <3>3. QED
      BY <3>1, <3>2 DEF PendingMotionSafe
  <2>8. QED
    BY <2>5, <2>6, <2>7, FrameMotion
<1>5. QED
  BY <1>2, <1>3, <1>4 DEF CannonInv

(* Reset, cannon.sv:41-48, re-establishes the invariant. *)
LEMMA ResetInv == CannonReset => CannonInv'
BY CannonAssumption, ModulusAssumption
   DEF CannonReset, CannonInv, CannonTypeOK, CannonOnScreen, PendingMotionSafe, Word, Negate

(* cannon.sv:33-114: the invariant holds in every reachable state. *)
THEOREM Invariance == CannonSpec => []CannonInv
<1>1. CannonInv /\ [CannonNext]_cannonVars => CannonInv'
  <2>1. ASSUME CannonInv, CannonNext PROVE CannonInv'
    BY <2>1, FrameInv, ResetInv DEF CannonNext
  <2>2. ASSUME CannonInv, UNCHANGED cannonVars PROVE CannonInv'
    BY <2>2 DEF cannonVars, CannonInv, CannonTypeOK, CannonOnScreen, PendingMotionSafe
  <2>3. QED
    BY <2>1, <2>2
<1>2. QED
  BY <1>1, InitInv, PTL DEF CannonSpec

(* Every register of the cannon holds a value of its type. *)
THEOREM TypeCorrect == CannonSpec => []CannonTypeOK
<1>1. CannonInv => CannonTypeOK
  BY DEF CannonInv
<1>2. QED
  BY <1>1, Invariance, PTL

(* cannon.sv:81-96: no sequence of keys and resets takes the cannon off    *)
(* the screen, although the stop at an edge comes one frame late.          *)
THEOREM OnScreen == CannonSpec => []CannonOnScreen
<1>1. CannonInv => CannonOnScreen
  BY DEF CannonInv
<1>2. QED
  BY <1>1, Invariance, PTL

(* cannon.sv:109: one frame moves the cannon by at most one step.          *)
THEOREM OneStepPerFrame == CannonSpec => MovesByOneStep
<1> DEFINE Moved == \/ CannonReset
                    \/ Cannon_X_Pos' \in {Cannon_X_Pos - Cannon_X_Step,
                                          Cannon_X_Pos,
                                          Cannon_X_Pos + Cannon_X_Step}
<1>1. CannonInv /\ [CannonNext]_cannonVars => [Moved]_cannonVars
  <2>1. ASSUME CannonInv, NEW left \in BOOLEAN, NEW right \in BOOLEAN,
               CannonFrame(left, right)
        PROVE  Moved
    BY <2>1, NextColumn DEF CannonFrame
  <2>2. QED
    BY <2>1 DEF CannonNext
<1>2. QED
  BY <1>1, Invariance, PTL DEF CannonSpec, MovesByOneStep
=============================================================================
