------------------------------ MODULE FrameClock ------------------------------
(***************************************************************************)
(* Where the frames of Game come from, one 50 MHz Clk edge per step: the   *)
(* Reset_h register and the divided VGA_CLK of final_project.sv:43-106,    *)
(* the counters and sync outputs of VGA_controller.sv, and the edge        *)
(* detector that cannon.sv:33-37 and laser.sv:33-37 share.                 *)
(*                                                                         *)
(* VGA_controller is clocked by VGA_CLK, a register that Reset_h holds at  *)
(* 0, and its own Reset input is synchronous to that clock.                *)
(***************************************************************************)
EXTENDS Integers

CONSTANTS
    H_TOTAL, V_TOTAL,            \* 800, 525
    H_Visible, V_Visible,        \* 640, 480
    HS_Start, HS_End,            \* 656, 752
    VS_Start, VS_End             \* 490, 492

ASSUME FrameClockAssumption ==
    /\ {H_TOTAL, V_TOTAL, H_Visible, V_Visible, HS_Start, HS_End,
        VS_Start, VS_End} \subseteq Nat
    /\ 1 < H_Visible /\ H_Visible <= HS_Start /\ HS_Start < HS_End /\ HS_End <= H_TOTAL
    /\ 0 < V_Visible /\ V_Visible <= VS_Start /\ VS_Start < VS_End /\ VS_End < V_TOTAL

VARIABLES
    KEY0,                        \* the button: FALSE while pressed
    Reset_h,
    VGA_CLK,
    h_counter, v_counter,
    VGA_HS, VGA_VS, VGA_BLANK_N,
    frame_clk_delayed,
    frame_clk_rising_edge

vga == <<h_counter, v_counter, VGA_HS, VGA_VS, VGA_BLANK_N>>

vars == <<KEY0, Reset_h, VGA_CLK, vga, frame_clk_delayed, frame_clk_rising_edge>>

-----------------------------------------------------------------------------
(* The registers power up low; the button may be up or down.  *)
Init ==
    /\ KEY0 \in BOOLEAN
    /\ Reset_h = FALSE /\ VGA_CLK = FALSE
    /\ h_counter = 0 /\ v_counter = 0
    /\ VGA_HS = FALSE /\ VGA_VS = FALSE /\ VGA_BLANK_N = FALSE
    /\ frame_clk_delayed = FALSE /\ frame_clk_rising_edge = FALSE

Button ==
    /\ KEY0' = ~KEY0
    /\ UNCHANGED <<Reset_h, VGA_CLK, vga, frame_clk_delayed, frame_clk_rising_edge>>

-----------------------------------------------------------------------------
(* One edge of VGA_CLK in the VGA controller. *)

ResetVGA ==
    /\ h_counter' = 0 /\ v_counter' = 0
    /\ VGA_HS' = FALSE /\ VGA_VS' = FALSE /\ VGA_BLANK_N' = FALSE

\* Faults: a line too many, and sync and blanking that lag the counters.
CountersLineTooMany ==
    IF h_counter + 1 = H_TOTAL
    THEN h_counter' = 0 /\ v_counter' = IF v_counter = V_TOTAL THEN 0 ELSE v_counter + 1
    ELSE h_counter' = h_counter + 1 /\ UNCHANGED v_counter

Counters ==
    IF h_counter + 1 = H_TOTAL
    THEN h_counter' = 0 /\ v_counter' = IF v_counter + 1 = V_TOTAL THEN 0 ELSE v_counter + 1
    ELSE h_counter' = h_counter + 1 /\ UNCHANGED v_counter

OutputsLagging ==
    /\ VGA_HS' = ~(HS_Start <= h_counter /\ h_counter < HS_End)
    /\ VGA_VS' = ~(VS_Start <= v_counter /\ v_counter < VS_End)
    /\ VGA_BLANK_N' = (h_counter < H_Visible /\ v_counter < V_Visible)

Outputs ==
    /\ VGA_HS' = ~(HS_Start <= h_counter' /\ h_counter' < HS_End)
    /\ VGA_VS' = ~(VS_Start <= v_counter' /\ v_counter' < VS_End)
    /\ VGA_BLANK_N' = (h_counter' < H_Visible /\ v_counter' < V_Visible)

Pixel == Counters /\ Outputs

\* The Clk edge that makes VGA_CLK rise may also be the one that changes
\* Reset_h: the controller then samples the old value or the new one.
VGAEdge == \E Reset \in {Reset_h, Reset_h'} : IF Reset THEN ResetVGA ELSE Pixel

-----------------------------------------------------------------------------
\* A fault: the game is enabled by the level of VGA_VS.
LevelDetector ==
    /\ frame_clk_delayed' = VGA_VS
    /\ frame_clk_rising_edge' = VGA_VS

EdgeDetector ==
    /\ frame_clk_delayed' = VGA_VS
    /\ frame_clk_rising_edge' = (VGA_VS /\ ~frame_clk_delayed)

\* A fault: the divider waits for the button instead of toggling.
DividerGated ==
    /\ Reset_h' = ~KEY0
    /\ VGA_CLK' = (~VGA_CLK /\ Reset_h)

Divider ==
    /\ Reset_h' = ~KEY0
    /\ VGA_CLK' = (~VGA_CLK /\ ~Reset_h)

ClkEdge ==
    /\ UNCHANGED KEY0
    /\ Divider
    /\ EdgeDetector
    /\ IF VGA_CLK' /\ ~VGA_CLK THEN VGAEdge ELSE UNCHANGED vga

Next == Button \/ ClkEdge

(* The 50 MHz oscillator never stops. *)
Spec == Init /\ [][Next]_vars /\ WF_vars(ClkEdge)

-----------------------------------------------------------------------------
(* Properties. *)

(* The counters stay inside a frame: DrawX and DrawY are pixels of it.     *)
TypeOK ==
    /\ h_counter \in 0 .. H_TOTAL - 1 /\ v_counter \in 0 .. V_TOTAL - 1
    /\ KEY0 \in BOOLEAN /\ Reset_h \in BOOLEAN /\ VGA_CLK \in BOOLEAN
    /\ VGA_HS \in BOOLEAN /\ VGA_VS \in BOOLEAN /\ VGA_BLANK_N \in BOOLEAN
    /\ frame_clk_delayed \in BOOLEAN /\ frame_clk_rising_edge \in BOOLEAN

Visible == h_counter < H_Visible /\ v_counter < V_Visible

(* VGA_controller.sv:97-99: the blanking output is registered together     *)
(* with the counters it is computed from, so that no pixel outside the     *)
(* visible area is lit and only the very first pixel after a reset is dark.*)
BlankingFollowsPixel ==
    /\ VGA_BLANK_N => Visible
    /\ Visible /\ <<h_counter, v_counter>> # <<0, 0>> => VGA_BLANK_N

(* cannon.sv:68, laser.sv:73: the positions change while the beam is       *)
(* below the picture, at the end of the vertical sync pulse, so that no    *)
(* frame shows half of a move; the only other place is the second pixel    *)
(* of the first frame after power-up or after a reset of the controller.   *)
TickAtEndOfSync ==
    frame_clk_rising_edge => <<h_counter, v_counter>> \in {<<0, VS_End>>, <<1, 0>>}

(* cannon.sv:33-37: the pulse lasts one Clk cycle whatever the button      *)
(* does, so that a frame moves the cannon and the laser once.              *)
OneTickPerPulse ==
    [][(frame_clk_rising_edge /\ ClkEdge) => ~frame_clk_rising_edge']_vars

(* final_project.sv:100-106 and VGA_controller.sv:73-95: once the button   *)
(* is left alone and up, frames come for ever.                             *)
FramesKeepComing == <>[]KEY0 => []<>frame_clk_rising_edge
=============================================================================
