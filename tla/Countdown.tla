----------------------------- MODULE Countdown -----------------------------
(***************************************************************************)
(* What alt_alarm_start promises (alt_alarm_start.c:43-61): a callback     *)
(* once the requested number of whole ticks has gone by, and again after   *)
(* as many ticks as it returns, until it returns 0 or the alarm is         *)
(* stopped.  Time is what is left of it; there is no clock to wrap.        *)
(***************************************************************************)
EXTENDS Integers

CONSTANTS
    Alarms,
    W           \* 2^32: alarms can be asked for up to W - 2 ticks

VARIABLE left   \* the ticks until the callback, 0 for an alarm not running

Init == left = [a \in Alarms |-> 0]

\* The tick under way when the alarm is started does not count.
Start(a, n) == left[a] = 0 /\ left' = [left EXCEPT ![a] = n + 1]

Stop(a) == left' = [left EXCEPT ![a] = 0]

Due(a) == left[a] = 1

Tick(answer) ==
    left' = [a \in Alarms |->
                IF Due(a) THEN answer[a] ELSE IF left[a] = 0 THEN 0 ELSE left[a] - 1]

Next ==
    \/ \E a \in Alarms : Stop(a) \/ \E n \in 0..(W - 2) : Start(a, n)
    \/ \E answer \in [Alarms -> 0..(W - 1)] : Tick(answer)

Spec == Init /\ [][Next]_left
=============================================================================
