--------------------------------- MODULE Gun ---------------------------------
(***************************************************************************)
(* What the player sees of laser.sv: a gun that has at most one shot in    *)
(* the air.  A shot keeps the column it was fired in, climbs a fixed step  *)
(* per frame, and nothing but the Reset button takes it away before it has *)
(* reached the top rows; only then may the gun fire again.                 *)
(***************************************************************************)
EXTENDS Integers

CONSTANTS
    Columns,      \* the columns a shot may be fired in
    StartRow,     \* the row a shot starts in
    TopRow,       \* a shot in this row or above it has arrived
    Step          \* rows a shot climbs in a frame

VARIABLES
    shots,        \* the shots in the air
    reset         \* was the last step a reset?

vars == <<shots, reset>>

Arrived(shot) == shot.row <= TopRow

Init == shots = {} /\ reset = FALSE

Fire ==
    /\ \A shot \in shots : Arrived(shot)
    /\ \E c \in Columns : shots' = {[column |-> c, row |-> StartRow]}
    /\ reset' = FALSE

Climb ==
    /\ \E shot \in shots : ~Arrived(shot)
    /\ shots' = {[shot EXCEPT !.row = @ - Step] : shot \in shots}
    /\ reset' = FALSE

\* A frame without a shot in flight, in which none is fired.
Retire ==
    /\ \A shot \in shots : Arrived(shot)
    /\ shots' = {}
    /\ reset' = FALSE

\* The Reset button.
Clear ==
    /\ shots' = {}
    /\ reset' = TRUE

Next == Fire \/ Climb \/ Retire \/ Clear

\* A shot in the air neither hovers nor stays at the top for ever.
Fairness == WF_vars(shots # {} /\ (Fire \/ Climb \/ Retire))

SafeSpec == Init /\ [][Next]_vars

Spec == SafeSpec /\ Fairness
=============================================================================
