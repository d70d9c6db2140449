-------------------------- MODULE FrameClockProofs --------------------------
(***************************************************************************)
(* Ticks, blanking and counters of FrameClock, for every raster that       *)
(* satisfies FrameClockAssumption and every use of the button.             *)
(***************************************************************************)
EXTENDS FrameClock, TLAPS

Sync == VS_Start <= v_counter /\ v_counter < VS_End

Origin == h_counter = 0 /\ v_counter = 0

AfterSync == (h_counter = 0 /\ v_counter = VS_End) \/ (h_counter = 1 /\ v_counter = 0)

(* VGA_controller.sv:92-95: the registered sync output belongs to the line *)
(* the counters are on, but for the first pixel after a reset.             *)
SyncFollowsLine ==
    /\ VGA_VS => ~Sync
    /\ ~VGA_VS => Sync \/ Origin

(* cannon.sv:33-37: a rise of VGA_VS that the detector has not seen yet    *)
(* is one Clk cycle old, so VGA_CLK is high and the pixel does not move    *)
(* at the edge at which the detector sees it.                              *)
RiseIsFresh == VGA_VS /\ ~frame_clk_delayed => VGA_CLK /\ AfterSync

SeenOnce == frame_clk_rising_edge => frame_clk_delayed

(* The inductive invariant: the tick alone is not inductive, its place is  *)
(* decided one Clk cycle earlier.                                          *)
ClockInv ==
    /\ TypeOK
    /\ BlankingFollowsPixel
    /\ SyncFollowsLine
    /\ RiseIsFresh
    /\ SeenOnce
    /\ frame_clk_rising_edge => AfterSync

(* final_project.sv:43-106: the registers power up inside the invariant.   *)
LEMMA InitInv == Init => ClockInv
<1>1. /\ H_TOTAL \in Nat /\ V_TOTAL \in Nat /\ 0 < H_TOTAL /\ 0 < V_TOTAL
      /\ VS_Start \in Nat /\ 0 < VS_Start /\ H_Visible \in Nat /\ V_Visible \in Nat
  BY FrameClockAssumption
<1> SUFFICES ASSUME Init PROVE ClockInv
  OBVIOUS
<1>2. Origin /\ ~VGA_BLANK_N /\ ~VGA_VS /\ ~frame_clk_delayed /\ ~frame_clk_rising_edge
  BY DEF Init, Origin
<1>3. TypeOK
  <2>1. h_counter \in 0 .. H_TOTAL - 1 /\ v_counter \in 0 .. V_TOTAL - 1
    BY <1>1, <1>2 DEF Origin
  <2>2. QED
    BY <2>1, Zenon DEF Init, TypeOK
<1>4. BlankingFollowsPixel
  BY <1>2 DEF Origin, BlankingFollowsPixel
<1>5. QED
  BY <1>2, <1>3, <1>4 DEF ClockInv, SyncFollowsLine, RiseIsFresh, SeenOnce

(* VGA_controller.sv:36-60: the counters stay inside the raster, and       *)
(* leave the lines of the sync pulse at the start of line VS_End only.     *)
LEMMA CountersStep ==
    ASSUME TypeOK, Counters
    PROVE  /\ h_counter' \in 0 .. H_TOTAL - 1 /\ v_counter' \in 0 .. V_TOTAL - 1
           /\ ~(h_counter' = 0 /\ v_counter' = 0) \/ ~Origin
           /\ Sync /\ ~Sync' => h_counter' = 0 /\ v_counter' = VS_End
           /\ Origin => h_counter' = 1 /\ v_counter' = 0
<1>1. /\ h_counter \in 0 .. H_TOTAL - 1 /\ v_counter \in 0 .. V_TOTAL - 1
  BY DEF TypeOK
<1>2. /\ H_TOTAL \in Nat /\ V_TOTAL \in Nat /\ H_TOTAL > 1
      /\ VS_Start \in Nat /\ VS_End \in Nat /\ VS_Start < VS_End /\ VS_End < V_TOTAL
      /\ VS_Start > 0
  BY FrameClockAssumption
<1>3. QED
  BY <1>1, <1>2 DEF Counters, Sync, Origin

(* An edge of VGA_CLK keeps outputs and counters together, and makes       *)
(* VGA_VS rise only where a tick may be.                                   *)
LEMMA VGAEdgeStep ==
    ASSUME TypeOK, BlankingFollowsPixel, SyncFollowsLine, VGAEdge,
           Reset_h' \in BOOLEAN
    PROVE  /\ h_counter' \in 0 .. H_TOTAL - 1 /\ v_counter' \in 0 .. V_TOTAL - 1
           /\ VGA_HS' \in BOOLEAN /\ VGA_VS' \in BOOLEAN /\ VGA_BLANK_N' \in BOOLEAN
           /\ BlankingFollowsPixel'
           /\ SyncFollowsLine'
           /\ ~VGA_VS /\ VGA_VS' => AfterSync'
<1>1. CASE ResetVGA
  <2>1. H_TOTAL \in Nat /\ V_TOTAL \in Nat /\ 0 < H_TOTAL /\ 0 < V_TOTAL
    BY FrameClockAssumption
  <2>2. Origin' /\ ~VGA_BLANK_N' /\ ~VGA_VS'
    BY <1>1 DEF ResetVGA, Origin
  <2>3. BlankingFollowsPixel'
    BY <2>2 DEF Origin, BlankingFollowsPixel
  <2>4. SyncFollowsLine'
    BY <2>2 DEF SyncFollowsLine
  <2>5. VGA_HS' \in BOOLEAN /\ VGA_VS' \in BOOLEAN /\ VGA_BLANK_N' \in BOOLEAN
    BY <1>1 DEF ResetVGA
  <2>6. QED
    BY <2>1, <2>2, <2>3, <2>4, <2>5 DEF Origin
<1>2. CASE Pixel
  <2>1. Counters /\ Outputs
    BY <1>2 DEF Pixel
  <2>2. BlankingFollowsPixel'
    BY <2>1 DEF Outputs, BlankingFollowsPixel, Visible
  <2>3. SyncFollowsLine'
    BY <2>1 DEF Outputs, SyncFollowsLine, Sync
  <2>4. ~VGA_VS /\ VGA_VS' => AfterSync'
    BY <2>1, <2>3, CountersStep DEF SyncFollowsLine, AfterSync
  <2>5. VGA_HS' \in BOOLEAN /\ VGA_VS' \in BOOLEAN /\ VGA_BLANK_N' \in BOOLEAN
    BY <2>1 DEF Outputs
  <2>6. QED
    BY <2>1, <2>2, <2>3, <2>4, <2>5, CountersStep
<1>3. QED
  BY <1>1, <1>2 DEF VGAEdge

(* final_project.sv:92-106, VGA_controller.sv, cannon.sv:33-37: one edge   *)
(* of the oscillator preserves the invariant, and ends a tick.             *)
LEMMA ClkEdgeStep ==
    ASSUME ClockInv, ClkEdge
    PROVE  ClockInv' /\ (frame_clk_rising_edge => ~frame_clk_rising_edge')
<1>1. /\ TypeOK /\ BlankingFollowsPixel /\ SyncFollowsLine /\ RiseIsFresh /\ SeenOnce
      /\ KEY0 \in BOOLEAN /\ Reset_h \in BOOLEAN /\ VGA_CLK \in BOOLEAN
      /\ VGA_HS \in BOOLEAN /\ VGA_VS \in BOOLEAN /\ VGA_BLANK_N \in BOOLEAN
      /\ frame_clk_delayed \in BOOLEAN /\ frame_clk_rising_edge \in BOOLEAN
  BY DEF ClockInv, TypeOK
<1>2. /\ KEY0' = KEY0 /\ Reset_h' = ~KEY0
      /\ VGA_CLK' = (~VGA_CLK /\ ~Reset_h)
      /\ frame_clk_delayed' = VGA_VS
      /\ frame_clk_rising_edge' = (VGA_VS /\ ~frame_clk_delayed)
  BY DEF ClkEdge, Divider, EdgeDetector
<1>3. /\ h_counter' \in 0 .. H_TOTAL - 1 /\ v_counter' \in 0 .. V_TOTAL - 1
      /\ VGA_HS' \in BOOLEAN /\ VGA_VS' \in BOOLEAN /\ VGA_BLANK_N' \in BOOLEAN
      /\ BlankingFollowsPixel'
      /\ SyncFollowsLine'
      /\ ~VGA_VS /\ VGA_VS' => VGA_CLK' /\ AfterSync'
      /\ VGA_CLK => UNCHANGED vga
  <2>1. CASE VGA_CLK' /\ ~VGA_CLK
    <3>1. VGAEdge /\ Reset_h' \in BOOLEAN
      BY <2>1, <1>1, <1>2 DEF ClkEdge
    <3>2. QED
      BY <2>1, <3>1, <1>1, VGAEdgeStep
  <2>2. CASE ~(VGA_CLK' /\ ~VGA_CLK)
    <3>1. UNCHANGED vga
      BY <2>2 DEF ClkEdge
    <3>2. /\ BlankingFollowsPixel' /\ SyncFollowsLine'
          /\ VGA_VS' = VGA_VS /\ VGA_HS' = VGA_HS /\ VGA_BLANK_N' = VGA_BLANK_N
          /\ h_counter' = h_counter /\ v_counter' = v_counter
      BY <3>1, <1>1 DEF vga, BlankingFollowsPixel, SyncFollowsLine, Visible, Sync, Origin
    <3>3. QED
      BY <3>1, <3>2, <1>1 DEF TypeOK
  <2>3. QED
    BY <2>1, <2>2
<1>4. TypeOK'
  <2>1. /\ KEY0' \in BOOLEAN /\ Reset_h' \in BOOLEAN /\ VGA_CLK' \in BOOLEAN
        /\ frame_clk_delayed' \in BOOLEAN /\ frame_clk_rising_edge' \in BOOLEAN
    BY <1>1, <1>2
  <2>2. QED
    BY <2>1, <1>3 DEF TypeOK
<1>5. RiseIsFresh'
  BY <1>2, <1>3 DEF RiseIsFresh
<1>6. SeenOnce'
  BY <1>2 DEF SeenOnce
<1>7. frame_clk_rising_edge' => AfterSync'
  <2>1. SUFFICES ASSUME VGA_VS, ~frame_clk_delayed PROVE AfterSync'
    BY <1>2
  <2>2. VGA_CLK /\ AfterSync
    BY <2>1, <1>1 DEF RiseIsFresh
  <2>3. QED
    BY <2>2, <1>3 DEF AfterSync, vga
<1>8. frame_clk_rising_edge => ~frame_clk_rising_edge'
  BY <1>1, <1>2 DEF SeenOnce
<1>9. QED
  BY <1>3, <1>4, <1>5, <1>6, <1>7, <1>8 DEF ClockInv

(* The button changes nothing the invariant speaks of but its own type.    *)
LEMMA OtherSteps == ClockInv /\ (Button \/ UNCHANGED vars) => ClockInv'
<1> SUFFICES ASSUME ClockInv, Button \/ UNCHANGED vars PROVE ClockInv'
  OBVIOUS
<1>1. /\ UNCHANGED <<Reset_h, VGA_CLK, vga, frame_clk_delayed, frame_clk_rising_edge>>
      /\ KEY0' \in BOOLEAN
  BY DEF Button, vars, ClockInv, TypeOK
<1>2. QED
  BY <1>1 DEF vga, ClockInv, TypeOK, BlankingFollowsPixel, SyncFollowsLine,
       RiseIsFresh, SeenOnce, Sync, Origin, AfterSync, Visible

(* The invariant holds in every reachable state. *)
THEOREM Invariance == Spec => []ClockInv
<1>1. ClockInv /\ [Next]_vars => ClockInv'
  BY ClkEdgeStep, OtherSteps DEF Next
<1>2. QED
  BY <1>1, InitInv, PTL DEF Spec

(* The registers hold values of their types: DrawX and DrawY are pixels of *)
(* the raster.                                                             *)
THEOREM TypeCorrect == Spec => []TypeOK
<1>1. ClockInv => TypeOK
  BY DEF ClockInv
<1>2. QED
  BY <1>1, Invariance, PTL

(* VGA_controller.sv:97-99: no pixel outside the picture is lit, and none  *)
(* in it is dark but the first after a reset.                              *)
THEOREM BlankingInStep == Spec => []BlankingFollowsPixel
<1>1. ClockInv => BlankingFollowsPixel
  BY DEF ClockInv
<1>2. QED
  BY <1>1, Invariance, PTL

(* cannon.sv:68, laser.sv:73: positions change outside the picture, or in  *)
(* the first frame after power-up or a reset, whatever the button does.    *)
THEOREM TicksOutsideThePicture == Spec => []TickAtEndOfSync
<1>1. ClockInv => TickAtEndOfSync
  BY DEF ClockInv, TickAtEndOfSync, AfterSync
<1>2. QED
  BY <1>1, Invariance, PTL

(* cannon.sv:33-37: the tick lasts one cycle of the oscillator.            *)
THEOREM TickLastsOneCycle == Spec => OneTickPerPulse
<1>1. ClockInv /\ [Next]_vars
         => [(frame_clk_rising_edge /\ ClkEdge) => ~frame_clk_rising_edge']_vars
  BY ClkEdgeStep
<1>2. QED
  BY <1>1, Invariance, PTL DEF Spec, OneTickPerPulse
=============================================================================
