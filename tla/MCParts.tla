------------------------------- MODULE MCParts -------------------------------
(* The cannon and the laser at the sizes of the board, checked one at a     *)
(* time: they share no variable, and Game checks the two together.          *)
EXTENDS Cannon, Laser

VARIABLE part

vars == <<part, cannonVars, laserVars>>

Init == part \in {"cannon", "laser"} /\ CannonInit /\ LaserInit

CannonPart == part = "cannon" /\ CannonNext /\ UNCHANGED <<part, laserVars>>

LaserPart(A) == part = "laser" /\ A /\ UNCHANGED <<part, cannonVars>>

Next == CannonPart \/ LaserPart(LaserNext)

Spec == Init /\ [][Next]_vars /\ WF_vars(LaserPart(AnyFrame))
=============================================================================
