------------------------------ MODULE HalClock ------------------------------
(***************************************************************************)
(* The system clock of the HAL: the tick counter, the alarms on it, and    *)
(* the time of day.  All arithmetic is on words of 0..W - 1; the tick      *)
(* interrupt and the calls of the program exclude each other, since        *)
(* alt_alarm_start and alt_alarm_stop work with interrupts disabled.       *)
(*                                                                         *)
(* An alarm is started only while it is not running: alt_alarm_start would *)
(* insert it into the list a second time.  Callbacks stop no alarm.        *)
(***************************************************************************)
EXTENDS Integers, FiniteSets

CONSTANTS
    W,          \* the words, 2^32 of them
    Alarms,     \* the alarm structures of the program
    Delays,     \* the delays asked for and answered that are enumerated
    Rate,       \* ticks in a second
    US,         \* ALT_US, microseconds in a second
    Times       \* the times the clock is set to, as <<seconds, microseconds>>

\* A delay of W - 1 ticks is out: its time is the present tick, and the alarm
\* goes off at the next one.  So is a time before 1970.
ASSUME ClockAssumption ==
    /\ W \in Nat /\ W > 1
    /\ Delays \subseteq 0..(W - 2)
    /\ Rate \in Nat \ {0} /\ US \in Nat \ {0} /\ US % Rate = 0
    /\ Times \subseteq Nat \X Nat

VARIABLES
    tick_rate,      \* _alt_tick_rate
    nticks,         \* _alt_nticks
    active,         \* the alarms on alt_alarm_list
    time, rollover, \* the fields of each alarm
    alt_resettime,  \* <<tv_sec, tv_usec>>, signed
    set             \* what the last settimeofday was asked for and when, or
                    \* <<>>: before it and from the tick at which nticks wraps

alarmVars == <<active, time, rollover>>
todVars == <<alt_resettime, set>>
clockVars == <<tick_rate, nticks, alarmVars, todVars>>

ClockInit ==
    /\ tick_rate = 0 /\ nticks = 0
    /\ active = {}
    /\ time = [a \in Alarms |-> 0] /\ rollover = [a \in Alarms |-> 0]
    /\ alt_resettime = <<0, 0>> /\ set = <<>>

\* alt_sysclk_init: a second rate is refused.
SysclkInit ==
    /\ tick_rate = 0 /\ tick_rate' = Rate
    /\ UNCHANGED <<nticks, alarmVars, todVars>>

-----------------------------------------------------------------------------
(* Alarms. *)

\* (A mutated form, a fault: the flag is forgotten.)
AheadForgotten(t, now) == 0

\* The time lies beyond the next wrap of nticks.
Ahead(t, now) == IF t < now THEN 1 ELSE 0

AlarmStart(a, n) ==
    LET t == (n + nticks + 1) % W IN
    /\ tick_rate # 0 /\ a \notin active
    /\ active' = active \cup {a}
    /\ time' = [time EXCEPT ![a] = t]
    /\ rollover' = [rollover EXCEPT ![a] = Ahead(t, nticks)]
    /\ UNCHANGED <<tick_rate, nticks, todVars>>

AlarmStop(a) ==
    /\ active' = active \ {a}
    /\ UNCHANGED <<tick_rate, nticks, time, rollover, todVars>>

\* alt_tick.c:105-108: at tick 0 every flag is cleared.
StillAhead(a, now) == IF now = 0 THEN 0 ELSE rollover[a]

Expired(a, now) == a \in active /\ time[a] <= now /\ StillAhead(a, now) = 0

(* The whole alt_tick: every alarm of the list, with what its callback     *)
(* answers if it is called.  The flag of an alarm that goes on is set      *)
(* where its new time wraps.                                               *)
AltTick(answer) ==
    LET now == (nticks + 1) % W
        expired == {a \in Alarms : Expired(a, now)}
        again(a) == (time[a] + answer[a]) % W
    IN
    /\ tick_rate # 0
    /\ nticks' = now
    /\ active' = active \ {a \in expired : answer[a] = 0}
    /\ time' = [a \in Alarms |->
                  IF a \in expired /\ answer[a] # 0 THEN again(a) ELSE time[a]]
    /\ rollover' = [a \in Alarms |->
                      IF a \in expired /\ answer[a] # 0 THEN Ahead(again(a), now)
                      ELSE IF a \in active THEN StillAhead(a, now)
                      ELSE rollover[a]]
    /\ set' = IF now = 0 THEN <<>> ELSE set
    /\ UNCHANGED <<tick_rate, alt_resettime>>

-----------------------------------------------------------------------------
(* The time of day. *)

TickUS == US \div Rate

\* alt_settod.c:84: the product is a word.
SetTimeOfDay(t) ==
    /\ tick_rate # 0
    /\ alt_resettime' = <<t[1] - nticks \div Rate,
                          t[2] - (((nticks * TickUS) % W) % US)>>
    /\ set' = <<t, nticks>>
    /\ UNCHANGED <<tick_rate, nticks, alarmVars>>

\* (A mutated form, a fault: the product is a word here, too.)
ElapsedUSInAWord == ((nticks * TickUS) % W) % US

\* alt_gettod.c:98: here it has 64 bits.
ElapsedUS == (nticks * TickUS) % US

(* The two loops of alt_gettod.c:100-116 bring the microseconds into       *)
(* 0..US - 1; a time before 0 becomes 0.                                   *)
Normal(sec, usec) ==
    IF usec < 0 /\ sec + usec \div US < 0 THEN <<0, 0>>
    ELSE <<sec + usec \div US, usec % US>>

GetTimeOfDay ==
    Normal(alt_resettime[1] + nticks \div Rate, alt_resettime[2] + ElapsedUS)

-----------------------------------------------------------------------------
ClockNext ==
    \/ SysclkInit
    \/ \E a \in Alarms : AlarmStop(a) \/ \E n \in Delays : AlarmStart(a, n)
    \/ \E answer \in [Alarms -> Delays] : AltTick(answer)
    \/ \E t \in Times : SetTimeOfDay(t)

ClockSpec == ClockInit /\ [][ClockNext]_clockVars
-----------------------------------------------------------------------------
ClockTypeOK ==
    /\ tick_rate \in {0, Rate} /\ nticks \in 0..(W - 1)
    /\ active \subseteq Alarms
    /\ time \in [Alarms -> 0..(W - 1)]
    /\ rollover \in [Alarms -> {0, 1}]

\* The flag of a running alarm tells on which side of the next wrap its time
\* is, and no running alarm is due at the tick that has been; alt_tick.c:98-131.
RolloverTellsSide ==
    \A a \in active : time[a] # nticks /\ (rollover[a] = 1 <=> time[a] < nticks)

\* The alarms are counted down: each goes off after exactly the ticks it was
\* asked for, also when the counter or the alarm's time wraps in between.
TicksLeft ==
    [a \in Alarms |-> IF a \in active THEN (time[a] - nticks) % W ELSE 0]
C == INSTANCE Countdown WITH left <- TicksLeft
CountsDown == C!Spec

\* What a clock set at tick n is wrong by, in microseconds: settimeofday keeps a
\* word of the ticks' microseconds, gettimeofday all of them.  Nothing, as long
\* as they fit the word (on the board, for the first 71 minutes), and less than a
\* second ever after.
Slip(n) == ((n * TickUS) % US) - (((n * TickUS) % W) % US)

\* alt_settod.c:79-92 and alt_gettod.c:84-118: however long after the start the
\* clock is set, and until the counter wraps, the time of day is the time set,
\* the ticks since, and the slip of the moment it was set: the error never
\* grows, and a time that it would take below zero is zero.
TimeOfDayAdds ==
    set # <<>> =>
       LET t == set[1]
           us == t[1] * US + t[2] + (nticks - set[2]) * TickUS + Slip(set[2])
       IN GetTimeOfDay = IF us < 0 THEN <<0, 0>> ELSE <<us \div US, us % US>>
=============================================================================
