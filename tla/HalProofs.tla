------------------------------ MODULE HalProofs ------------------------------
(***************************************************************************)
(* The clock, the interrupts, the heap and the descriptors of the HAL, for *)
(* every word length, number of alarms, delay, tick rate, number of        *)
(* interrupts and handlers, heap, increment and pool of descriptors.       *)
(***************************************************************************)
EXTENDS MCHal, TLAPS

-----------------------------------------------------------------------------
(* The heap. *)

Last(b) == b[1] + b[2]

\* A block that the program's call has cut off and not yet returned is above
\* every other.
Floor == IF pc = "leave" THEN prev_heap_end ELSE heap_end

Ordered ==
    \A p, q \in 1..Len(granted) : p < q => Last(granted[p]) <= granted[q][1]

BelowFloor == \A p \in 1..Len(granted) : Last(granted[p]) <= Floor

\* What the program's call has established so far.
CallSoFar ==
    /\ pc # "out" => ~heap_pie /\ incr \in Sizes
    /\ pc \in {"test", "extend"} => heap_end % 4 = 0
    /\ pc = "extend" => prev_heap_end = heap_end /\ heap_end + incr <= HeapLimit
    /\ pc = "leave" =>
          /\ heap_end = prev_heap_end + incr /\ heap_end <= HeapLimit
          /\ prev_heap_end % 4 = 0

HeapInv == HeapTypeOK /\ Ordered /\ BelowFloor /\ CallSoFar /\ BlocksInHeap

LEMMA AlignedUp ==
    ASSUME NEW p \in Nat
    PROVE  Aligned(p) \in Nat /\ Aligned(p) % 4 = 0 /\ p <= Aligned(p)
BY SMT DEF Aligned

LEMMA Block ==
    ASSUME NEW b \in Nat \X Sizes
    PROVE  b[1] \in Nat /\ b[2] \in Nat /\ Last(b) \in Nat /\ b[1] <= Last(b)
<1>1. b[1] \in Nat /\ b[2] \in Sizes
  OBVIOUS
<1>2. b[2] \in Nat
  BY <1>1, HeapAssumption
<1> QED
  BY <1>1, <1>2 DEF Last

\* A block put at or above the floor keeps the list in order.
LEMMA Granting ==
    ASSUME NEW s \in Seq(Nat \X Sizes), NEW b \in Nat \X Sizes, NEW end \in Nat,
           \A p, q \in 1..Len(s) : p < q => Last(s[p]) <= s[q][1],
           \A p \in 1..Len(s) : Last(s[p]) <= b[1],
           \A p \in 1..Len(s) : s[p][1] % 4 = 0 /\ s[p][1] + s[p][2] <= HeapLimit,
           b[1] % 4 = 0, Last(b) <= HeapLimit, Last(b) <= end
    PROVE  LET t == Append(s, b) IN
           /\ t \in Seq(Nat \X Sizes)
           /\ \A p, q \in 1..Len(t) : p < q => Last(t[p]) <= t[q][1]
           /\ \A p \in 1..Len(t) : Last(t[p]) <= end
           /\ \A p \in 1..Len(t) : t[p][1] % 4 = 0 /\ t[p][1] + t[p][2] <= HeapLimit
<1> DEFINE t == Append(s, b)
<1>1. Len(s) \in Nat /\ Len(t) = Len(s) + 1 /\ t \in Seq(Nat \X Sizes)
  OBVIOUS
<1>2. t[Len(s) + 1] = b /\ \A p \in 1..Len(s) : t[p] = s[p]
  BY <1>1
<1> HIDE DEF t
<1>3. \A p \in 1..Len(s) :
         s[p][1] \in Nat /\ Last(s[p]) \in Nat /\ s[p][1] <= Last(s[p])
  <2> SUFFICES ASSUME NEW p \in 1..Len(s)
               PROVE  s[p][1] \in Nat /\ Last(s[p]) \in Nat /\ s[p][1] <= Last(s[p])
    OBVIOUS
  <2>1. s[p] \in Nat \X Sizes
    OBVIOUS
  <2> QED
    BY <2>1, Block
<1>7. b[1] \in Nat /\ Last(b) \in Nat /\ b[1] <= Last(b)
  BY Block
<1>8. \A p \in 1..Len(t) : p \in 1..Len(s) \/ p = Len(s) + 1
  BY <1>1
<1>4. \A p \in 1..Len(t) : Last(t[p]) <= end
  <2>1. \A p \in 1..Len(s) : Last(t[p]) <= end
    BY <1>2, <1>3, <1>7
  <2> QED
    BY <1>2, <1>8, <2>1
<1>5. \A p, q \in 1..Len(t) : p < q => Last(t[p]) <= t[q][1]
  <2> SUFFICES ASSUME NEW p \in 1..Len(t), NEW q \in 1..Len(t), p < q
               PROVE  Last(t[p]) <= t[q][1]
    OBVIOUS
  <2>1. p \in 1..Len(s) /\ t[p] = s[p]
    <3>1. Len(s) \in Nat /\ p \in 1..(Len(s) + 1) /\ q \in 1..(Len(s) + 1) /\ p < q
      BY <1>1
    <3>2. p \in 1..Len(s)
      <4> DEFINE n == Len(s)
      <4>1. n \in Nat /\ p \in 1..(n + 1) /\ q \in 1..(n + 1) /\ p < q
        BY <3>1
      <4> HIDE DEF n
      <4>2. p \in 1..n
        BY <4>1
      <4> QED
        BY <4>2 DEF n
    <3> QED
      BY <1>2, <3>2
  <2>2. CASE q \in 1..Len(s)
    <3>1. t[q] = s[q]
      BY <1>2, <2>2
    <3>2. Last(s[p]) <= s[q][1]
      BY <2>1, <2>2
    <3> QED
      BY <2>1, <3>1, <3>2
  <2>3. CASE q = Len(s) + 1
    <3>1. t[q] = b
      BY <1>2, <2>3
    <3>2. Last(s[p]) <= b[1]
      BY <2>1
    <3> QED
      BY <2>1, <3>1, <3>2
  <2> QED
    BY <1>8, <2>2, <2>3
<1>6. \A p \in 1..Len(t) : t[p][1] % 4 = 0 /\ t[p][1] + t[p][2] <= HeapLimit
  <2>1. b[1] + b[2] <= HeapLimit
    BY DEF Last
  <2>2. \A p \in 1..Len(s) : t[p][1] % 4 = 0 /\ t[p][1] + t[p][2] <= HeapLimit
    BY <1>2
  <2> QED
    BY <1>2, <1>8, <2>1, <2>2
<1> QED
  BY <1>1, <1>4, <1>5, <1>6 DEF t

LEMMA HeapStarts == HeapInit => HeapInv
BY HeapAssumption
   DEF HeapInit, HeapInv, HeapTypeOK, Ordered, BelowFloor, CallSoFar, BlocksInHeap, Floor

LEMMA HeapStep == HeapInv /\ [HeapNext]_heapVars => HeapInv'
<1> USE HeapAssumption
<1> SUFFICES ASSUME HeapInv, [HeapNext]_heapVars PROVE HeapInv'
  OBVIOUS
<1> USE DEF HeapTypeOK, CallSoFar
<1>1. ASSUME NEW n \in Sizes, Enter(n) PROVE HeapInv'
  BY <1>1 DEF HeapInv, Enter, Ordered, BelowFloor, BlocksInHeap, Floor, HeapPieOff
<1>2. CASE Align
  <2>1. Aligned(heap_end) \in Nat /\ Aligned(heap_end) % 4 = 0 /\ heap_end <= Aligned(heap_end)
    BY AlignedUp DEF HeapInv
  <2>2. BelowFloor'
    <3>1. \A p \in 1..Len(granted) : Last(granted[p]) \in Nat
      BY Block DEF HeapInv
    <3>2. \A p \in 1..Len(granted) : Last(granted[p]) <= heap_end
      BY <1>2 DEF HeapInv, BelowFloor, Floor, Align
    <3> QED
      BY <1>2, <2>1, <3>1, <3>2 DEF HeapInv, BelowFloor, Floor, Align
  <2> QED
    BY <1>2, <2>1, <2>2 DEF HeapInv, Align, Ordered, BlocksInHeap
<1>3. CASE Refuse
  BY <1>3 DEF HeapInv, Refuse, Ordered, BelowFloor, BlocksInHeap, Floor
<1>4. CASE Accept
  BY <1>4 DEF HeapInv, Accept, TooLong, Ordered, BelowFloor, BlocksInHeap, Floor
<1>5. CASE Extend
  BY <1>5 DEF HeapInv, Extend, Ordered, BelowFloor, BlocksInHeap, Floor
<1>6. CASE Leave
  <2> DEFINE b == <<prev_heap_end, incr>>
  <2>0. incr \in Sizes
    BY <1>6 DEF HeapInv, Leave
  <2>1. b \in Nat \X Sizes /\ b[1] % 4 = 0 /\ Last(b) <= HeapLimit /\ Last(b) <= heap_end
    BY <1>6, <2>0 DEF HeapInv, Leave, Last
  <2>2. \A p \in 1..Len(granted) : Last(granted[p]) <= b[1]
    BY <1>6 DEF HeapInv, Leave, BelowFloor, Floor
  <2>3. /\ granted' \in Seq(Nat \X Sizes) /\ Ordered' /\ BlocksInHeap'
        /\ \A p \in 1..Len(granted') : Last(granted'[p]) <= heap_end
    <3> HIDE DEF b
    <3> granted' = Append(granted, b)
      BY <1>6 DEF Leave, b
    <3> QED
      BY <2>1, <2>2, Granting DEF HeapInv, Ordered, BlocksInHeap
  <2> QED
    BY <1>6, <2>3 DEF HeapInv, Leave, BelowFloor, Floor
<1>7. ASSUME NEW n \in Sizes, IsrSbrk(n) PROVE HeapInv'
  <2> DEFINE end == Aligned(heap_end)
  <2>0. pc = "out" /\ pc' = "out"
    BY <1>7 DEF HeapInv, IsrSbrk
  <2>1. end \in Nat /\ end % 4 = 0 /\ heap_end <= end
    BY AlignedUp DEF HeapInv
  <2>2. \A p \in 1..Len(granted) : Last(granted[p]) \in Nat /\ Last(granted[p]) <= end
    <3>1. \A p \in 1..Len(granted) : Last(granted[p]) \in Nat
      BY Block DEF HeapInv
    <3>2. \A p \in 1..Len(granted) : Last(granted[p]) <= heap_end
      BY <2>0 DEF HeapInv, BelowFloor, Floor
    <3> QED
      BY <2>1, <3>1, <3>2 DEF HeapInv
  <2> HIDE DEF end
  <2>3. CASE TooLong(end, n)
    <3>1. heap_end' = end /\ UNCHANGED <<granted, heap_pie, pc, incr, prev_heap_end>>
      BY <1>7, <2>3 DEF IsrSbrk, end
    <3> QED
      BY <2>0, <2>1, <2>2, <3>1 DEF HeapInv, Ordered, BelowFloor, BlocksInHeap, Floor
  <2>4. CASE ~TooLong(end, n)
    <3> DEFINE b == <<end, n>>
    <3>1. /\ heap_end' = end + n /\ granted' = Append(granted, b)
          /\ UNCHANGED <<heap_pie, pc, incr, prev_heap_end>>
      BY <1>7, <2>4 DEF IsrSbrk, end
    <3>2. /\ b \in Nat \X Sizes /\ b[1] % 4 = 0 /\ Last(b) <= HeapLimit
          /\ Last(b) <= end + n /\ end + n \in Nat
      BY <2>1, <2>4 DEF TooLong, Last
    <3>3. \A p \in 1..Len(granted) : Last(granted[p]) <= b[1]
      BY <2>2
    <3>4. /\ granted' \in Seq(Nat \X Sizes) /\ Ordered' /\ BlocksInHeap'
          /\ \A p \in 1..Len(granted') : Last(granted'[p]) <= end + n
      <4> HIDE DEF b
      <4> QED
        BY <3>1, <3>2, <3>3, Granting DEF HeapInv, Ordered, BlocksInHeap
    <3> QED
      BY <2>0, <3>1, <3>2, <3>4 DEF HeapInv, BelowFloor, Floor
  <2> QED
    BY <2>3, <2>4
<1>8. CASE UNCHANGED heapVars
  BY <1>8 DEF HeapInv, heapVars, Ordered, BelowFloor, BlocksInHeap, Floor
<1> QED
  BY <1>1, <1>2, <1>3, <1>4, <1>5, <1>6, <1>7, <1>8 DEF HeapNext

LEMMA HeapInvariance == HeapSpec => []HeapInv
BY HeapStarts, HeapStep, PTL DEF HeapSpec

(* alt_sbrk.c:76-133: whatever the program and the interrupt routines ask  *)
(* for, the blocks they are given have no byte in common, start on a word  *)
(* boundary and end below the limit.                                       *)
THEOREM NoByteTwice == HeapSpec => []BlocksSound
<1>1. HeapInv => BlocksDisjoint
  <2> SUFFICES ASSUME HeapInv, NEW p \in 1..Len(granted), NEW q \in 1..Len(granted), p # q
               PROVE  \/ granted[p][1] + granted[p][2] <= granted[q][1]
                      \/ granted[q][1] + granted[q][2] <= granted[p][1]
    BY DEF BlocksDisjoint
  <2>1. p < q \/ q < p
    OBVIOUS
  <2> QED
    BY <2>1 DEF HeapInv, Ordered, Last
<1>2. HeapInv => BlocksSound
  BY <1>1 DEF HeapInv, BlocksSound
<1> QED
  BY <1>2, HeapInvariance, PTL

-----------------------------------------------------------------------------
(* The clock: alarms count down. *)

AlarmInv == ClockTypeOK /\ RolloverTellsSide

-----------------------------------------------------------------------------
(* Arithmetic on words. *)

LEMMA Wrap ==
    ASSUME NEW x \in Int
    PROVE  /\ x % W \in 0..(W - 1)
           /\ x \in 0..(W - 1) => x % W = x
           /\ x \in W..(2 * W - 1) => x % W = x - W
           /\ x \in (-W)..(-1) => x % W = x + W
BY ClockAssumption, SMT DEF ClockAssumption

\* An alarm set for n + 1 ticks from now.
LEMMA Setting ==
    ASSUME NEW now \in 0..(W - 1), NEW n \in 0..(W - 2)
    PROVE  LET t == (n + now + 1) % W IN
           t \in 0..(W - 1) /\ t # now /\ (t - now) % W = n + 1
<1> DEFINE t == (n + now + 1) % W
<1>0. W \in Nat /\ W > 1
  BY ClockAssumption DEF ClockAssumption
<1>1. CASE n + now + 1 < W
  <2>1. t = n + now + 1
    BY <1>0, <1>1, Wrap
  <2>2. (n + 1) % W = n + 1
    BY <1>0, Wrap
  <2>3. t - now = n + 1
    BY <2>1
  <2> QED
    BY <1>0, <1>1, <2>1, <2>2, <2>3
<1>2. CASE n + now + 1 >= W
  <2>1. t = n + now + 1 - W
    BY <1>0, <1>2, Wrap
  <2>2. (n + 1 - W) % W = n + 1
    BY <1>0, Wrap
  <2>3. t - now = n + 1 - W
    BY <1>0, <2>1
  <2> QED
    BY <1>0, <1>2, <2>1, <2>2, <2>3
<1> QED
  BY <1>0, <1>1, <1>2

\* What a tick finds of an alarm that is due at t and that RolloverTellsSide
\* holds of.
LEMMA Ticking ==
    ASSUME NEW now \in 0..(W - 1), NEW t \in 0..(W - 1), t # now
    PROVE  LET next == (now + 1) % W
               ahead == t < now /\ next # 0
               left == (t - now) % W
           IN  /\ next \in 0..(W - 1)
               /\ left \in 1..(W - 1)
               /\ t <= next /\ ~ahead <=> t = next
               /\ t = next <=> left = 1
               /\ t # next => (ahead <=> t < next) /\ (t - next) % W = left - 1
<1> DEFINE next == (now + 1) % W
           left == (t - now) % W
<1>0. W \in Nat /\ W > 1
  BY ClockAssumption DEF ClockAssumption
<1>1. next = IF now = W - 1 THEN 0 ELSE now + 1
  <2>1. now + 1 \in Int /\ W - W = 0
    BY <1>0
  <2> QED
    BY <1>0, <2>1, Wrap
<1>2. left = IF t > now THEN t - now ELSE t - now + W
  <2>1. t - now \in Int
    BY <1>0
  <2> QED
    BY <1>0, <2>1, Wrap
<1> HIDE DEF next, left
<1>3. (t - next) % W = IF t >= next THEN t - next ELSE t - next + W
  <2>1. t - next \in Int /\ next \in 0..(W - 1)
    BY <1>0, <1>1
  <2> QED
    BY <1>0, <2>1, Wrap
<1>4. /\ next \in 0..(W - 1) /\ left \in 1..(W - 1)
      /\ t <= next /\ ~(t < now /\ next # 0) <=> t = next
      /\ t = next <=> left = 1
      /\ t # next => ((t < now /\ next # 0) <=> t < next)
  BY <1>0, <1>1, <1>2
<1>5. t # next => (t - next) % W = left - 1
  <2> SUFFICES ASSUME t # next PROVE (t - next) % W = left - 1
    OBVIOUS
  <2>1. CASE now = W - 1
    BY <1>0, <1>1, <1>2, <1>3, <2>1
  <2>2. CASE now # W - 1 /\ t > now
    BY <1>0, <1>1, <1>2, <1>3, <2>2
  <2>3. CASE now # W - 1 /\ t < now
    BY <1>0, <1>1, <1>2, <1>3, <2>3
  <2> QED
    BY <1>0, <2>1, <2>2, <2>3
<1> QED
  BY <1>4, <1>5 DEF next, left

\* A delay of d from the present tick.
LEMMA Resetting ==
    ASSUME NEW now \in 0..(W - 1), NEW d \in 1..(W - 1)
    PROVE  LET t == (now + d) % W IN
           t \in 0..(W - 1) /\ t # now /\ (t - now) % W = d
<1>0. W \in Nat /\ W > 1
  BY ClockAssumption DEF ClockAssumption
<1>1. d - 1 \in 0..(W - 2) /\ (d - 1) + now + 1 = now + d /\ (d - 1) + 1 = d
  BY <1>0
<1> QED
  BY <1>1, Setting

-----------------------------------------------------------------------------
LEMMA AlarmInit == ClockInit => AlarmInv
BY ClockAssumption
   DEF ClockAssumption, ClockInit, AlarmInv, ClockTypeOK, RolloverTellsSide

\* How one alarm fares in a tick.
LEMMA OneAlarmTicks ==
    ASSUME AlarmInv, NEW answer \in [Alarms -> Delays], AltTick(answer), NEW a \in Alarms
    PROVE  /\ a \in active => (Expired(a, nticks') <=> TicksLeft[a] = 1)
           /\ nticks' \in 0..(W - 1)
           /\ time'[a] \in 0..(W - 1) /\ rollover'[a] \in {0, 1}
           /\ a \in active' => a \in active /\ time'[a] # nticks'
                               /\ (rollover'[a] = 1 <=> time'[a] < nticks')
           /\ TicksLeft'[a] = IF TicksLeft[a] = 1 THEN answer[a]
                              ELSE IF TicksLeft[a] = 0 THEN 0 ELSE TicksLeft[a] - 1
<1> DEFINE now == (nticks + 1) % W
<1>0. /\ W \in Nat /\ W > 1 /\ answer[a] \in 0..(W - 2)
      /\ nticks \in 0..(W - 1) /\ time[a] \in 0..(W - 1) /\ rollover[a] \in {0, 1}
  BY ClockAssumption DEF ClockAssumption, AlarmInv, ClockTypeOK
<1>1. nticks' = now /\ now \in 0..(W - 1)
  <2>1. nticks + 1 \in Int
    BY <1>0
  <2> QED
    BY <2>1, Wrap DEF AltTick
<1>2. TicksLeft[a] = IF a \in active THEN (time[a] - nticks) % W ELSE 0
  BY DEF TicksLeft
<1>3. TicksLeft'[a] = IF a \in active' THEN (time'[a] - now) % W ELSE 0
  BY <1>1 DEF TicksLeft
<1>4. CASE a \notin active
  <2>1. /\ ~Expired(a, now) /\ a \notin active'
        /\ time'[a] = time[a] /\ rollover'[a] = rollover[a]
    BY <1>4 DEF AltTick, Expired
  <2> QED
    BY <1>0, <1>1, <1>2, <1>3, <1>4, <2>1
<1>5. CASE a \in active
  <2>1. time[a] # nticks /\ (rollover[a] = 1 <=> time[a] < nticks)
    BY <1>5 DEF AlarmInv, RolloverTellsSide
  <2>2. /\ TicksLeft[a] \in 1..(W - 1)
        /\ Expired(a, now) <=> time[a] = now
        /\ time[a] = now <=> TicksLeft[a] = 1
        /\ time[a] # now => /\ StillAhead(a, now) = 1 <=> time[a] < now
                            /\ (time[a] - now) % W = TicksLeft[a] - 1
    <3> DEFINE ahead == time[a] < nticks /\ now # 0
    <3>1. /\ TicksLeft[a] \in 1..(W - 1)
          /\ time[a] <= now /\ ~ahead <=> time[a] = now
          /\ time[a] = now <=> TicksLeft[a] = 1
          /\ time[a] # now => (ahead <=> time[a] < now) /\ (time[a] - now) % W = TicksLeft[a] - 1
      <4>1. TicksLeft[a] = (time[a] - nticks) % W
        BY <1>2, <1>5
      <4>2. time[a] \in 0..(W - 1) /\ nticks \in 0..(W - 1) /\ time[a] # nticks
        BY <1>0, <2>1
      <4> QED
        BY <4>1, <4>2, Ticking
    <3>2. StillAhead(a, now) \in {0, 1} /\ (StillAhead(a, now) = 1 <=> ahead)
      BY <1>0, <2>1 DEF StillAhead
    <3>3. Expired(a, now) <=> time[a] <= now /\ ~ahead
      BY <1>5, <3>2 DEF Expired
    <3> HIDE DEF ahead
    <3> QED
      BY <3>1, <3>2, <3>3
  <2> HIDE DEF now
  <2>3. CASE ~Expired(a, now)
    <3>1. /\ a \in active' /\ time'[a] = time[a]
          /\ rollover'[a] = StillAhead(a, now)
      BY <1>5, <2>3 DEF AltTick, now
    <3>2. StillAhead(a, now) \in {0, 1}
      BY <1>0 DEF StillAhead
    <3> QED
      BY <1>0, <1>1, <1>3, <1>5, <2>2, <2>3, <3>1, <3>2
  <2>4. CASE Expired(a, now) /\ answer[a] = 0
    <3>1. /\ a \notin active' /\ time'[a] = time[a]
          /\ rollover'[a] = StillAhead(a, now)
      BY <1>5, <2>4 DEF AltTick, now
    <3>2. StillAhead(a, now) \in {0, 1}
      BY <1>0 DEF StillAhead
    <3> QED
      BY <1>0, <1>1, <1>3, <1>5, <2>2, <2>4, <3>1, <3>2
  <2>5. CASE Expired(a, now) /\ answer[a] # 0
    <3> DEFINE t == (time[a] + answer[a]) % W
    <3>1. a \in active' /\ time'[a] = t /\ rollover'[a] = IF t < now THEN 1 ELSE 0
      BY <1>5, <2>5 DEF AltTick, now, Ahead
    <3>2. answer[a] \in 1..(W - 1) /\ time[a] = now
      BY <1>0, <2>2, <2>5
    <3>3. t \in 0..(W - 1) /\ t # now /\ (t - now) % W = answer[a]
      BY <1>1, <3>2, Resetting
    <3> HIDE DEF t
    <3>4. rollover'[a] \in {0, 1} /\ (rollover'[a] = 1 <=> t < now)
      BY <3>1
    <3>5. TicksLeft[a] = 1 /\ TicksLeft'[a] = answer[a]
      BY <1>3, <2>2, <2>5, <3>1, <3>3
    <3> QED
      BY <1>1, <1>5, <2>5, <3>1, <3>3, <3>4, <3>5
  <2> QED
    BY <2>3, <2>4, <2>5
<1> QED
  BY <1>4, <1>5

\* The alarm that is started.
LEMMA OneAlarmStarts ==
    ASSUME AlarmInv, NEW a \in Alarms, NEW n \in Delays, AlarmStart(a, n)
    PROVE  /\ n \in 0..(W - 2) /\ TicksLeft[a] = 0 /\ TicksLeft'[a] = n + 1
           /\ time'[a] \in 0..(W - 1) /\ time'[a] # nticks
           /\ rollover'[a] \in {0, 1} /\ (rollover'[a] = 1 <=> time'[a] < nticks)
<1> DEFINE t == (n + nticks + 1) % W
<1>0. n \in 0..(W - 2) /\ nticks \in 0..(W - 1)
  BY ClockAssumption DEF ClockAssumption, AlarmInv, ClockTypeOK
<1>1. t \in 0..(W - 1) /\ t # nticks /\ (t - nticks) % W = n + 1
  BY <1>0, Setting
<1> HIDE DEF t
<1>2. /\ a \notin active /\ a \in active' /\ nticks' = nticks
      /\ time'[a] = t /\ rollover'[a] = IF t < nticks THEN 1 ELSE 0
  BY DEF AlarmStart, t, AlarmInv, ClockTypeOK, Ahead
<1>3. rollover'[a] \in {0, 1} /\ (rollover'[a] = 1 <=> t < nticks)
  BY <1>2
<1>4. TicksLeft[a] = 0 /\ TicksLeft'[a] = (t - nticks) % W
  BY <1>2 DEF TicksLeft
<1> QED
  BY <1>0, <1>1, <1>2, <1>3, <1>4

LEMMA AlarmStep == AlarmInv /\ [ClockNext]_clockVars => AlarmInv'
<1> SUFFICES ASSUME AlarmInv, [ClockNext]_clockVars PROVE AlarmInv'
  OBVIOUS
<1>0. W \in Nat /\ W > 1 /\ Delays \subseteq 0..(W - 2)
  BY ClockAssumption DEF ClockAssumption
<1> USE DEF AlarmInv, ClockTypeOK, RolloverTellsSide
<1>1. CASE SysclkInit
  BY <1>1 DEF SysclkInit, alarmVars, todVars
<1>2. ASSUME NEW a \in Alarms, AlarmStop(a) PROVE AlarmInv'
  BY <1>2 DEF AlarmStop, todVars
<1>3. ASSUME NEW a \in Alarms, NEW n \in Delays, AlarmStart(a, n) PROVE AlarmInv'
  <2>1. /\ time'[a] \in 0..(W - 1) /\ time'[a] # nticks
        /\ rollover'[a] \in {0, 1} /\ (rollover'[a] = 1 <=> time'[a] < nticks)
    BY <1>3, OneAlarmStarts
  <2>2. /\ active' = active \cup {a} /\ nticks' = nticks /\ tick_rate' = tick_rate
        /\ time' \in [Alarms -> 0..(W - 1)] /\ rollover' \in [Alarms -> {0, 1}]
    BY <1>3, <2>1 DEF AlarmStart
  <2>3. \A b \in Alarms : b # a => time'[b] = time[b] /\ rollover'[b] = rollover[b]
    BY <1>3 DEF AlarmStart
  <2> QED
    BY <2>1, <2>2, <2>3
<1>4. ASSUME NEW answer \in [Alarms -> Delays], AltTick(answer) PROVE AlarmInv'
  <2>1. \A a \in Alarms :
           /\ nticks' \in 0..(W - 1)
           /\ time'[a] \in 0..(W - 1) /\ rollover'[a] \in {0, 1}
           /\ a \in active' => a \in active /\ time'[a] # nticks'
                               /\ (rollover'[a] = 1 <=> time'[a] < nticks')
    BY <1>4, OneAlarmTicks
  <2>2. /\ time' = [a \in Alarms |-> time'[a]] /\ rollover' = [a \in Alarms |-> rollover'[a]]
        /\ active' \subseteq Alarms /\ tick_rate' = tick_rate
    BY <1>4 DEF AltTick
  <2>3. nticks' \in 0..(W - 1)
    <3>1. nticks + 1 \in Int
      BY <1>0
    <3> QED
      BY <1>4, <3>1, Wrap DEF AltTick
  <2>4. time' \in [Alarms -> 0..(W - 1)] /\ rollover' \in [Alarms -> {0, 1}]
    BY <2>1, <2>2
  <2> QED
    BY <2>1, <2>2, <2>3, <2>4
<1>5. ASSUME NEW t \in Times, SetTimeOfDay(t) PROVE AlarmInv'
  BY <1>5 DEF SetTimeOfDay, alarmVars
<1>6. CASE UNCHANGED clockVars
  BY <1>6 DEF clockVars, alarmVars
<1> QED
  BY <1>1, <1>2, <1>3, <1>4, <1>5, <1>6 DEF ClockNext

(* alt_tick.c:98-131 and alt_alarm_start.c:83-98: the flag of a running    *)
(* alarm always tells on which side of the next wrap of nticks it is due.  *)
THEOREM SideTold == ClockSpec => []RolloverTellsSide
BY AlarmInit, AlarmStep, PTL DEF ClockSpec, AlarmInv

-----------------------------------------------------------------------------
LEMMA RefinesInit == ClockInit => C!Init
BY DEF ClockInit, C!Init, TicksLeft

LEMMA RefinesStep == AlarmInv /\ [ClockNext]_clockVars => [C!Next]_TicksLeft
<1> SUFFICES ASSUME AlarmInv, [ClockNext]_clockVars PROVE C!Next \/ UNCHANGED TicksLeft
  OBVIOUS
<1>1. CASE SysclkInit
  BY <1>1 DEF SysclkInit, alarmVars, TicksLeft
<1>2. ASSUME NEW a \in Alarms, AlarmStop(a) PROVE C!Next
  <2>1. TicksLeft' = [TicksLeft EXCEPT ![a] = 0]
    BY <1>2 DEF AlarmStop, TicksLeft
  <2> QED
    BY <2>1 DEF C!Next, C!Stop
<1>3. ASSUME NEW a \in Alarms, NEW n \in Delays, AlarmStart(a, n) PROVE C!Next
  <2>1. n \in 0..(W - 2) /\ TicksLeft[a] = 0 /\ TicksLeft'[a] = n + 1
    BY <1>3, OneAlarmStarts
  <2>2. \A b \in Alarms : b # a => TicksLeft'[b] = TicksLeft[b]
    BY <1>3 DEF AlarmStart, TicksLeft, AlarmInv, ClockTypeOK
  <2>3. /\ TicksLeft = [b \in Alarms |-> TicksLeft[b]]
        /\ TicksLeft' = [b \in Alarms |-> TicksLeft'[b]]
    BY DEF TicksLeft
  <2>4. TicksLeft' = [TicksLeft EXCEPT ![a] = n + 1]
    BY <2>1, <2>2, <2>3
  <2> QED
    BY <2>1, <2>4 DEF C!Next, C!Start
<1>4. ASSUME NEW answer \in [Alarms -> Delays], AltTick(answer) PROVE C!Next
  <2>1. \A a \in Alarms :
           TicksLeft'[a] = IF TicksLeft[a] = 1 THEN answer[a]
                           ELSE IF TicksLeft[a] = 0 THEN 0 ELSE TicksLeft[a] - 1
    BY <1>4, OneAlarmTicks
  <2>2. TicksLeft' = [b \in Alarms |-> TicksLeft'[b]]
    BY DEF TicksLeft
  <2>3. C!Tick(answer)
    BY <2>1, <2>2 DEF C!Tick, C!Due
  <2>4. answer \in [Alarms -> 0..(W - 1)]
    <3>1. Delays \subseteq 0..(W - 1)
      BY ClockAssumption DEF ClockAssumption
    <3> QED
      BY <3>1
  <2> QED
    BY <2>3, <2>4 DEF C!Next
<1>5. ASSUME NEW t \in Times, SetTimeOfDay(t) PROVE UNCHANGED TicksLeft
  BY <1>5 DEF SetTimeOfDay, alarmVars, TicksLeft
<1>6. CASE UNCHANGED clockVars
  BY <1>6 DEF clockVars, alarmVars, TicksLeft
<1> QED
  BY <1>1, <1>2, <1>3, <1>4, <1>5, <1>6 DEF ClockNext

(* alt_alarm_start.c:43-61: every alarm goes off after exactly the ticks   *)
(* asked for, wherever the counter wraps.                                  *)
THEOREM AlarmsCountDown == ClockSpec => CountsDown
<1>1. ClockSpec => []AlarmInv
  BY AlarmInit, AlarmStep, PTL DEF ClockSpec
<1>2. ClockSpec => C!Spec
  BY <1>1, RefinesInit, RefinesStep, PTL DEF ClockSpec, C!Spec
<1> QED
  BY <1>2 DEF CountsDown

-----------------------------------------------------------------------------
(* Interrupts. *)

\* What is let through when the outermost k invocations of s have let others in.
LetIn(s, k) == IF k = 0 THEN Irqs ELSE LetThrough(s[k].irq)

Openers ==
    IF nest = <<>> THEN 0 ELSE IF Top.at = "open" THEN Len(nest) ELSE Len(nest) - 1

\* An enabled interrupt has a handler and its context, unless the call in
\* progress is about it.
Registered ==
    /\ \A i \in alt_irq_active :
          \/ call.step \in {"handler", "context", "enable"} /\ i = call.id
          \/ handler[i] # NoIsr /\ context[i] = handler[i]
    /\ call.step \in {"context", "enable"} => handler[call.id] = call.isr
    /\ call.step = "enable" => context[call.id] = call.isr

\* Every invocation but the last has let others in.
OuterOpen ==
    /\ \A p \in 1..(Len(nest) - 1) : nest[p].at = "open"
    /\ \A p \in 1..Len(nest) :
          /\ nest[p].at \in {"run", "open"} => nest[p].irq \in Irqs
          /\ nest[p].at = "open" => nest[p].mask = LetIn(nest, p - 1)

Masks ==
    /\ alt_priority_mask = LetIn(nest, Openers)
    /\ ienable = alt_irq_active \cap alt_priority_mask
    /\ nest # <<>> => (pie <=> Top.at = "open")

Pending ==
    /\ At("entry") => ipending # {}
    /\ At("scan") => Top.active # {} /\ Top.active \subseteq ienable

Descending ==
    \A p, q \in 1..Len(nest) :
       p < q /\ nest[q].irq # NIRQ => nest[q].irq < nest[p].irq

IrqInv ==
    /\ IrqTypeOK /\ Registered /\ SectionHolds
    /\ OuterOpen /\ Masks /\ Pending /\ Descending

LEMMA IrqStart == IrqInit => IrqInv
<1> SUFFICES ASSUME IrqInit PROVE IrqInv
  OBVIOUS
<1> USE IrqAssumption DEF IrqInit
<1>1. nest \in Seq(Frames) /\ Len(nest) = 0
  OBVIOUS
<1>2. 0 \in Irqs
  BY DEF IrqAssumption, Irqs
<1>3. IrqTypeOK
  BY <1>1, <1>2 DEF IrqTypeOK, NotCalled
<1>4. Registered /\ SectionHolds
  BY DEF Registered, SectionHolds, NotCalled
<1> QED
  BY <1>1, <1>3, <1>4 DEF IrqInv, OuterOpen, Masks, Pending, Descending, LetIn,
       Openers, At
-----------------------------------------------------------------------------
(* The stack of invocations. *)

LEMMA Pushed ==
    ASSUME NEW s \in Seq(Frames), NEW f \in Frames
    PROVE  LET t == Append(s, f) IN
           /\ t \in Seq(Frames) /\ Len(t) = Len(s) + 1 /\ Len(s) \in Nat
           /\ t # <<>> /\ t[Len(t)] = f
           /\ \A p \in 1..Len(s) : t[p] = s[p]
OBVIOUS

LEMMA Replaced ==
    ASSUME NEW s \in Seq(Frames), NEW f \in Frames, s # <<>>
    PROVE  LET t == [s EXCEPT ![Len(s)] = f] IN
           /\ t \in Seq(Frames) /\ Len(t) = Len(s) /\ Len(s) \in Nat \ {0}
           /\ t # <<>> /\ t[Len(t)] = f
           /\ \A p \in 1..(Len(s) - 1) : t[p] = s[p]
OBVIOUS

LEMMA Popped ==
    ASSUME NEW s \in Seq(Frames), s # <<>>
    PROVE  LET t == SubSeq(s, 1, Len(s) - 1) IN
           /\ t \in Seq(Frames) /\ Len(t) = Len(s) - 1 /\ Len(s) \in Nat \ {0}
           /\ \A p \in 1..(Len(s) - 1) : t[p] = s[p]
OBVIOUS

LEMMA Numbers ==
    /\ NIRQ \in Nat \ {0} /\ NIRQ \notin Irqs /\ 0 \in Irqs
    /\ \A i \in Irqs : i \in Nat /\ LetThrough(i) \subseteq Irqs
    /\ \A i, j \in Irqs : j \in LetThrough(i) <=> j < i
BY IrqAssumption DEF IrqAssumption, Irqs, LetThrough

\* The invocation that runs changes, and serves the same interrupt.
LEMMA SameIrq ==
    ASSUME IrqInv, nest # <<>>, NEW f \in Frames,
           nest' = [nest EXCEPT ![Len(nest)] = f], f.irq = Top.irq,
           f.at \in {"run", "open"} => f.irq \in Irqs,
           f.at = "open" => f.mask = LetIn(nest, Len(nest) - 1)
    PROVE  /\ nest' \in Seq(Frames) /\ nest' # <<>> /\ Len(nest') = Len(nest) /\ Top' = f
           /\ OuterOpen' /\ Descending'
           /\ Openers' = IF f.at = "open" THEN Len(nest) ELSE Len(nest) - 1
           /\ \A k \in 0..Len(nest) : LetIn(nest', k) = LetIn(nest, k)
<1>1. nest \in Seq(Frames)
  BY DEF IrqInv, IrqTypeOK
<1>2. /\ nest' \in Seq(Frames) /\ Len(nest') = Len(nest) /\ Len(nest) \in Nat \ {0}
      /\ nest' # <<>> /\ nest'[Len(nest')] = f
      /\ \A p \in 1..(Len(nest) - 1) : nest'[p] = nest[p]
  BY <1>1, Replaced
<1>0. Len(nest) \in Nat /\ Len(nest) # 0
  BY <1>2
<1>3. \A p \in 1..Len(nest) : nest'[p].irq = nest[p].irq
  <2> SUFFICES ASSUME NEW p \in 1..Len(nest) PROVE nest'[p].irq = nest[p].irq
    OBVIOUS
  <2>1. CASE p = Len(nest)
    BY <1>2, <2>1 DEF Top
  <2>2. CASE p # Len(nest)
    <3>1. p \in 1..(Len(nest) - 1)
      BY <1>0, <2>2
    <3> QED
      BY <1>2, <3>1
  <2> QED
    BY <2>1, <2>2
<1>4. \A k \in 0..Len(nest) : LetIn(nest', k) = LetIn(nest, k)
  <2> SUFFICES ASSUME NEW k \in 0..Len(nest) PROVE LetIn(nest', k) = LetIn(nest, k)
    OBVIOUS
  <2>1. k = 0 \/ k \in 1..Len(nest)
    BY <1>0
  <2> QED
    BY <1>3, <2>1 DEF LetIn
<1>5. Descending'
  BY <1>2, <1>3 DEF IrqInv, Descending
<1>6. OuterOpen'
  <2>1. \A p \in 1..(Len(nest') - 1) : nest'[p].at = "open"
    BY <1>2 DEF IrqInv, OuterOpen
  <2> SUFFICES ASSUME NEW p \in 1..Len(nest')
               PROVE  /\ nest'[p].at \in {"run", "open"} => nest'[p].irq \in Irqs
                      /\ nest'[p].at = "open" => nest'[p].mask = LetIn(nest', p - 1)
    BY <2>1 DEF OuterOpen
  <2>2. LetIn(nest', p - 1) = LetIn(nest, p - 1)
    <3>1. p \in 1..Len(nest)
      BY <1>2
    <3>2. p - 1 \in 0..Len(nest)
      BY <1>0, <3>1
    <3> QED
      BY <1>4, <3>2
  <2>3. CASE p = Len(nest)
    BY <1>2, <2>2, <2>3
  <2>4. CASE p # Len(nest)
    <3>0. p \in 1..Len(nest)
      BY <1>2
    <3>1. p \in 1..(Len(nest) - 1)
      BY <1>0, <2>4, <3>0
    <3>2. nest'[p] = nest[p]
      BY <1>2, <3>1
    <3> QED
      BY <2>2, <3>1, <3>2 DEF IrqInv, OuterOpen
  <2> QED
    BY <2>3, <2>4
<1>7. Top' = f
  BY <1>2 DEF Top
<1> QED
  BY <1>2, <1>4, <1>5, <1>6, <1>7 DEF Openers

CallSteps == {"none", "handler", "context", "enable", "leave"}

LEMMA NextStep ==
    ASSUME IrqTypeOK, NEW s \in CallSteps, call' = [call EXCEPT !.step = s]
    PROVE  /\ call'.step = s /\ call'.id = call.id /\ call'.isr = call.isr
           /\ call.id \in Irqs /\ call.isr \in Isrs \cup {NoIsr}
           /\ call' \in [step : CallSteps, id : Irqs, isr : Isrs \cup {NoIsr},
                         status : BOOLEAN]
BY DEF IrqTypeOK, CallSteps

\* Of the program's call, from the first step to the last.
LEMMA CallStep ==
    ASSUME IrqInv,
           \/ RegisterHandler \/ RegisterContext \/ RegisterEnable \/ RegisterLeave
           \/ \E i \in Irqs, isr \in Isrs \cup {NoIsr} : RegisterEnter(i, isr)
    PROVE  IrqInv'
<1>1. nest = <<>> /\ nest' = nest /\ UNCHANGED <<alt_priority_mask, lines>>
  BY DEF RegisterHandler, RegisterContext, RegisterEnable, RegisterLeave, RegisterEnter,
         InProgram
<1>2. alt_priority_mask = Irqs
  BY <1>1 DEF IrqInv, Masks, LetIn, Openers
<1>3. OuterOpen' /\ Descending' /\ Pending' /\ alt_priority_mask' = LetIn(nest, Openers)'
  BY <1>1, <1>2 DEF OuterOpen, Descending, Pending, At, LetIn, Openers
<1>4. IrqTypeOK
  BY DEF IrqInv
<1>10. ASSUME call' \in [step : CallSteps, id : Irqs, isr : Isrs \cup {NoIsr},
                         status : BOOLEAN],
              pie' \in BOOLEAN, alt_irq_active' \subseteq Irqs,
              ienable' = alt_irq_active' \cap alt_priority_mask,
              handler' \in [Irqs -> Isrs \cup {NoIsr}],
              context' \in [Irqs -> Isrs \cup {NoIsr}],
              Registered', call'.step # "none" => ~pie'
       PROVE  IrqInv'
  <2>1. IrqTypeOK'
    BY <1>1, <1>2, <1>4, <1>10 DEF IrqTypeOK, CallSteps
  <2>2. Masks'
    BY <1>1, <1>3, <1>10 DEF Masks
  <2>3. SectionHolds'
    BY <1>1, <1>10 DEF SectionHolds
  <2> QED
    BY <1>3, <1>10, <2>1, <2>2, <2>3 DEF IrqInv
<1>5. ienable = alt_irq_active \cap alt_priority_mask /\ (call.step # "none" => ~pie)
  BY DEF IrqInv, Masks, SectionHolds
<1>6. CASE RegisterHandler
  <2>1. /\ call'.step = "context" /\ call'.id = call.id /\ call'.isr = call.isr
        /\ call.id \in Irqs /\ call.isr \in Isrs \cup {NoIsr}
        /\ call' \in [step : CallSteps, id : Irqs, isr : Isrs \cup {NoIsr},
                      status : BOOLEAN]
    BY <1>4, <1>6, NextStep DEF RegisterHandler, CallSteps
  <2>2. /\ handler' = [handler EXCEPT ![call.id] = call.isr]
        /\ handler \in [Irqs -> Isrs \cup {NoIsr}] /\ call.step = "handler"
        /\ UNCHANGED <<pie, ienable, alt_irq_active, context>>
    BY <1>4, <1>6 DEF RegisterHandler, IrqTypeOK, cpuVars
  <2>3. Registered'
    BY <2>1, <2>2, <1>4 DEF IrqInv, Registered, IrqTypeOK
  <2> QED
    BY <1>4, <1>5, <1>10, <2>1, <2>2, <2>3 DEF IrqTypeOK
<1>7. CASE RegisterContext
  <2>1. /\ call'.step = "enable" /\ call'.id = call.id /\ call'.isr = call.isr
        /\ call.id \in Irqs /\ call.isr \in Isrs \cup {NoIsr}
        /\ call' \in [step : CallSteps, id : Irqs, isr : Isrs \cup {NoIsr},
                      status : BOOLEAN]
    BY <1>4, <1>7, NextStep DEF RegisterContext, CallSteps
  <2>2. /\ context' = [context EXCEPT ![call.id] = call.isr]
        /\ context \in [Irqs -> Isrs \cup {NoIsr}] /\ call.step = "context"
        /\ UNCHANGED <<pie, ienable, alt_irq_active, handler>>
    BY <1>4, <1>7 DEF RegisterContext, IrqTypeOK, cpuVars
  <2>3. Registered'
    BY <2>1, <2>2, <1>4 DEF IrqInv, Registered, IrqTypeOK
  <2> QED
    BY <1>4, <1>5, <1>10, <2>1, <2>2, <2>3 DEF IrqTypeOK
<1>8. CASE RegisterEnable
  <2>1. /\ call'.step = "leave" /\ call'.id = call.id /\ call'.isr = call.isr
        /\ call.id \in Irqs
        /\ call' \in [step : CallSteps, id : Irqs, isr : Isrs \cup {NoIsr},
                      status : BOOLEAN]
    BY <1>4, <1>8, NextStep DEF RegisterEnable, CallSteps
  <2>2. /\ alt_irq_active' = IF call.isr = NoIsr THEN alt_irq_active \ {call.id}
                             ELSE alt_irq_active \cup {call.id}
        /\ call.step = "enable" /\ ienable' = alt_irq_active' /\ pie' = pie
        /\ UNCHANGED <<handler, context>>
    BY <1>8 DEF RegisterEnable, tableVars, PieRestored
  <2>3. alt_irq_active' \subseteq Irqs
    BY <1>4, <2>1, <2>2 DEF IrqTypeOK
  <2>4. handler[call.id] = call.isr /\ context[call.id] = call.isr
    BY <2>2 DEF IrqInv, Registered
  <2>5. Registered'
    BY <2>1, <2>2, <2>4 DEF IrqInv, Registered
  <2> QED
    BY <1>2, <1>4, <1>5, <1>10, <2>1, <2>2, <2>3, <2>5 DEF IrqTypeOK
<1>9. CASE RegisterLeave
  <2>1. /\ call.step = "leave" /\ call' = NotCalled
        /\ UNCHANGED <<ienable, alt_irq_active, handler, context>>
        /\ pie' = call.status
    BY <1>9 DEF RegisterLeave, PieRestored, tableVars
  <2>2. /\ call'.step = "none" /\ pie' \in BOOLEAN
        /\ call' \in [step : CallSteps, id : Irqs, isr : Isrs \cup {NoIsr},
                      status : BOOLEAN]
    BY <1>4, <2>1, Numbers DEF NotCalled, CallSteps, IrqTypeOK
  <2>3. Registered'
    BY <2>1, <2>2 DEF IrqInv, Registered
  <2> QED
    BY <1>4, <1>5, <1>10, <2>1, <2>2, <2>3 DEF IrqTypeOK
<1>11. ASSUME NEW i \in Irqs, NEW isr \in Isrs \cup {NoIsr}, RegisterEnter(i, isr)
       PROVE  IrqInv'
  <2>1. /\ call.step = "none" /\ pie' = FALSE
        /\ call' = [step |-> "handler", id |-> i, isr |-> isr, status |-> pie]
        /\ UNCHANGED <<ienable, alt_irq_active, handler, context>>
    BY <1>11 DEF RegisterEnter, PieOff, tableVars
  <2>2. /\ call'.step = "handler"
        /\ call' \in [step : CallSteps, id : Irqs, isr : Isrs \cup {NoIsr},
                      status : BOOLEAN]
    BY <1>4, <2>1 DEF CallSteps, IrqTypeOK
  <2>3. Registered'
    BY <2>1, <2>2 DEF IrqInv, Registered
  <2> QED
    BY <1>4, <1>5, <1>10, <2>1, <2>2, <2>3 DEF IrqTypeOK
<1> QED
  BY <1>6, <1>7, <1>8, <1>9, <1>11

\* The other steps leave the tables and the call alone.
LEMMA OtherStep ==
    ASSUME IrqInv, UNCHANGED <<alt_irq_active, handler, context, call>>,
           call.step = "none", pie' \in BOOLEAN, lines' \subseteq Irqs,
           nest' \in Seq(Frames), alt_priority_mask' \subseteq Irqs,
           OuterOpen', Masks', Pending', Descending'
    PROVE  IrqInv'
<1>1. Registered' /\ SectionHolds'
  BY DEF IrqInv, Registered, SectionHolds
<1>2. ienable' \subseteq Irqs
  BY DEF Masks
<1>3. IrqTypeOK'
  BY <1>2 DEF IrqInv, IrqTypeOK
<1> QED
  BY <1>1, <1>3 DEF IrqInv

\* What is known while a handler or the dispatcher runs.
LEMMA Serving ==
    ASSUME IrqInv, nest # <<>>
    PROVE  /\ nest \in Seq(Frames) /\ Len(nest) \in Nat /\ Len(nest) # 0
           /\ Top \in Frames /\ Top = nest[Len(nest)] /\ Len(nest) \in 1..Len(nest)
           /\ call.step = "none"
           /\ Top.at \in {"run", "open"} => Top.irq \in Irqs
           /\ Top.at = "open" => Top.mask = LetIn(nest, Len(nest) - 1)
           /\ Top.at # "open" =>
                 /\ ~pie /\ alt_priority_mask = LetIn(nest, Len(nest) - 1)
                 /\ ienable = alt_irq_active \cap alt_priority_mask
           /\ Top.at = "open" =>
                 /\ pie /\ alt_priority_mask = LetIn(nest, Len(nest))
                 /\ ienable = alt_irq_active \cap alt_priority_mask
<1>1. nest \in Seq(Frames)
  BY DEF IrqInv, IrqTypeOK
<1>2. Len(nest) \in Nat /\ Len(nest) # 0
  BY <1>1
<1>3. Len(nest) \in 1..Len(nest)
  BY <1>2
<1>4. nest[Len(nest)] \in Frames
  BY <1>1, <1>3
<1>5. call.step = "none"
  BY DEF IrqInv, SectionHolds
<1>6. /\ Top.at \in {"run", "open"} => Top.irq \in Irqs
      /\ Top.at = "open" => Top.mask = LetIn(nest, Len(nest) - 1)
  BY <1>3 DEF Top, IrqInv, OuterOpen
<1>7. Openers = IF Top.at = "open" THEN Len(nest) ELSE Len(nest) - 1
  BY DEF Openers
<1> QED
  BY <1>1, <1>2, <1>3, <1>4, <1>5, <1>6, <1>7 DEF Top, IrqInv, Masks, IrqTypeOK

LEMMA Requested == ASSUME IrqInv, NEW i \in Irqs, Request(i) PROVE IrqInv'
<1> USE DEF Request, cpuVars, tableVars
<1>1. lines' \subseteq Irqs /\ ipending \subseteq ipending'
  BY DEF IrqInv, IrqTypeOK, ipending
<1>2. OuterOpen' /\ Descending' /\ Masks' /\ Registered' /\ SectionHolds'
  BY DEF IrqInv, OuterOpen, Descending, Masks, Openers, Top, Registered, SectionHolds
<1>3. Pending'
  BY <1>1 DEF IrqInv, Pending, At, Top
<1> QED
  BY <1>1, <1>2, <1>3 DEF IrqInv, IrqTypeOK

LEMMA Interrupted == ASSUME IrqInv, Interrupt PROVE IrqInv'
<1>1. nest \in Seq(Frames) /\ Entry \in Frames /\ nest' = Append(nest, Entry)
  BY DEF IrqInv, IrqTypeOK, Frames, Entry, Interrupt
<1>2. /\ nest' \in Seq(Frames) /\ Len(nest') = Len(nest) + 1 /\ Len(nest) \in Nat
      /\ nest' # <<>> /\ nest'[Len(nest')] = Entry
      /\ \A p \in 1..Len(nest) : nest'[p] = nest[p]
  BY <1>1, Pushed
<1>3. Len(nest) \in Nat /\ Len(nest') = Len(nest) + 1
  BY <1>2
<1>4. call.step = "none" /\ pie
  BY DEF IrqInv, SectionHolds, Interrupt
<1>5. \A p \in 1..Len(nest') : p \in 1..Len(nest) \/ p = Len(nest')
  BY <1>3
<1>6. \A p \in 1..Len(nest) : nest[p].at = "open"
  <2> SUFFICES ASSUME NEW p \in 1..Len(nest) PROVE nest[p].at = "open"
    OBVIOUS
  <2>1. nest # <<>>
    BY <1>1, <1>3
  <2>2. CASE p = Len(nest)
    BY <1>4, <2>1, <2>2 DEF IrqInv, Masks, Top
  <2>3. CASE p # Len(nest)
    <3>1. p \in 1..(Len(nest) - 1)
      BY <1>3, <2>3
    <3> QED
      BY <3>1 DEF IrqInv, OuterOpen
  <2> QED
    BY <2>2, <2>3
<1>7. \A k \in 0..Len(nest) : LetIn(nest', k) = LetIn(nest, k)
  <2> SUFFICES ASSUME NEW k \in 0..Len(nest) PROVE LetIn(nest', k) = LetIn(nest, k)
    OBVIOUS
  <2>1. k = 0 \/ k \in 1..Len(nest)
    BY <1>3
  <2> QED
    BY <1>2, <2>1 DEF LetIn
<1>8. Entry.at = "entry" /\ Entry.irq = NIRQ
  BY DEF Entry
<1>9. OuterOpen'
  <2>1. \A p \in 1..(Len(nest') - 1) : nest'[p].at = "open"
    BY <1>2, <1>6
  <2> SUFFICES ASSUME NEW p \in 1..Len(nest')
               PROVE  /\ nest'[p].at \in {"run", "open"} => nest'[p].irq \in Irqs
                      /\ nest'[p].at = "open" => nest'[p].mask = LetIn(nest', p - 1)
    BY <2>1 DEF OuterOpen
  <2>2. CASE p = Len(nest')
    BY <1>2, <1>8, <2>2
  <2>3. CASE p \in 1..Len(nest)
    <3>1. p - 1 \in 0..Len(nest)
      BY <1>3, <2>3
    <3>2. LetIn(nest', p - 1) = LetIn(nest, p - 1) /\ nest'[p] = nest[p]
      BY <1>2, <1>7, <2>3, <3>1
    <3> QED
      BY <2>3, <3>2 DEF IrqInv, OuterOpen
  <2> QED
    BY <1>5, <2>2, <2>3
<1>10. Descending'
  <2> SUFFICES ASSUME NEW p \in 1..Len(nest'), NEW q \in 1..Len(nest'), p < q,
                      nest'[q].irq # NIRQ
               PROVE  nest'[q].irq < nest'[p].irq
    BY DEF Descending
  <2>1. q \in 1..Len(nest)
    BY <1>2, <1>5, <1>8
  <2>2. p \in 1..Len(nest)
    BY <1>3, <2>1
  <2>3. nest'[p] = nest[p] /\ nest'[q] = nest[q]
    BY <1>2, <2>1, <2>2
  <2> QED
    BY <2>1, <2>2, <2>3 DEF IrqInv, Descending
<1>11. Openers = Len(nest) /\ Openers' = Len(nest)
  <2>1. Openers = Len(nest)
    <3>1. nest = <<>> => Len(nest) = 0
      OBVIOUS
    <3> QED
      BY <1>4, <3>1 DEF Openers, IrqInv, Masks
  <2>2. Top' = Entry
    BY <1>2 DEF Top
  <2> QED
    BY <1>2, <1>3, <1>8, <2>1, <2>2 DEF Openers
<1>12. Masks'
  <2>1. Top' = Entry /\ ~pie'
    BY <1>2 DEF Top, Interrupt
  <2>2. LetIn(nest', Len(nest)) = LetIn(nest, Len(nest))
    <3>1. Len(nest) \in 0..Len(nest)
      BY <1>3
    <3> QED
      BY <1>7, <3>1
  <2> QED
    BY <1>8, <1>11, <2>1, <2>2 DEF Masks, IrqInv, Interrupt
<1>13. Pending'
  <2>1. Top' = Entry
    BY <1>2 DEF Top
  <2> QED
    BY <1>8, <2>1 DEF Pending, At, Interrupt, ipending
<1> QED
  BY <1>2, <1>4, <1>9, <1>10, <1>12, <1>13, OtherStep
     DEF Interrupt, tableVars, IrqInv, IrqTypeOK

LEMMA Dispatched == ASSUME IrqInv, NEW i \in Irqs, Dispatch(i) PROVE IrqInv'
<1> DEFINE f == [Top EXCEPT !.at = "run", !.irq = i]
<1>1. nest # <<>> /\ Top.at = "scan" /\ nest' = [nest EXCEPT ![Len(nest)] = f]
  BY DEF Dispatch, At, Goto
<1>2. /\ nest \in Seq(Frames) /\ Len(nest) \in Nat /\ Len(nest) # 0
      /\ Top \in Frames /\ Top = nest[Len(nest)] /\ call.step = "none"
      /\ ~pie /\ alt_priority_mask = LetIn(nest, Len(nest) - 1)
  BY <1>1, Serving
<1>3. f \in Frames /\ f.at = "run" /\ f.irq = i
  BY <1>2 DEF Frames
<1> HIDE DEF f
<1>4. /\ nest' \in Seq(Frames) /\ Len(nest') = Len(nest)
      /\ nest' # <<>> /\ nest'[Len(nest')] = f
      /\ \A p \in 1..(Len(nest) - 1) : nest'[p] = nest[p]
  BY <1>1, <1>2, <1>3, Replaced
<1>5. Top' = f
  BY <1>4 DEF Top
<1>6. \A p \in 1..Len(nest) : p \in 1..(Len(nest) - 1) \/ p = Len(nest)
  BY <1>2
<1>7. \A k \in 0..(Len(nest) - 1) : LetIn(nest', k) = LetIn(nest, k)
  <2> SUFFICES ASSUME NEW k \in 0..(Len(nest) - 1) PROVE LetIn(nest', k) = LetIn(nest, k)
    OBVIOUS
  <2>1. k = 0 \/ k \in 1..(Len(nest) - 1)
    BY <1>2
  <2> QED
    BY <1>4, <2>1 DEF LetIn
<1>8. i \in LetIn(nest, Len(nest) - 1)
  <2>1. i \in ienable /\ ienable \subseteq alt_priority_mask
    BY <1>1 DEF Dispatch, Scanned, IrqInv, Pending, At, Masks
  <2> QED
    BY <1>2, <2>1
<1>9. OuterOpen'
  <2>1. \A p \in 1..(Len(nest') - 1) : nest'[p].at = "open"
    BY <1>4 DEF IrqInv, OuterOpen
  <2> SUFFICES ASSUME NEW p \in 1..Len(nest)
               PROVE  /\ nest'[p].at \in {"run", "open"} => nest'[p].irq \in Irqs
                      /\ nest'[p].at = "open" => nest'[p].mask = LetIn(nest', p - 1)
    BY <1>4, <2>1 DEF OuterOpen
  <2>2. CASE p = Len(nest)
    BY <1>3, <1>4, <2>2
  <2>3. CASE p \in 1..(Len(nest) - 1)
    <3>1. p - 1 \in 0..(Len(nest) - 1)
      BY <1>2, <2>3
    <3>2. LetIn(nest', p - 1) = LetIn(nest, p - 1) /\ nest'[p] = nest[p]
      BY <1>4, <1>7, <2>3, <3>1
    <3> QED
      BY <2>3, <3>2 DEF IrqInv, OuterOpen
  <2> QED
    BY <1>6, <2>2, <2>3
<1>10. Descending'
  <2> SUFFICES ASSUME NEW p \in 1..Len(nest), NEW q \in 1..Len(nest), p < q,
                      nest'[q].irq # NIRQ
               PROVE  nest'[q].irq < nest'[p].irq
    BY <1>4 DEF Descending
  <2>1. p \in 1..(Len(nest) - 1)
    BY <1>2
  <2>2. CASE q \in 1..(Len(nest) - 1)
    BY <1>4, <2>1, <2>2 DEF IrqInv, Descending
  <2>3. CASE q = Len(nest)
    <3> DEFINE o == Len(nest) - 1
    <3>1. o \in 1..(Len(nest) - 1) /\ o \in 1..Len(nest) /\ o # 0 /\ (p = o \/ p < o)
      BY <1>2, <2>1
    <3>2. nest[o].at = "open" /\ nest[o].irq \in Irqs
      BY <3>1 DEF IrqInv, OuterOpen
    <3>3. i < nest[o].irq
      BY <1>8, <3>1, <3>2, Numbers DEF LetIn
    <3>4. nest[o].irq # NIRQ
      BY <3>2, Numbers
    <3>5. p = o \/ nest[o].irq < nest[p].irq
      BY <3>1, <3>4 DEF IrqInv, Descending
    <3>6. nest[p].at = "open" /\ nest[p].irq \in Irqs
      BY <2>1 DEF IrqInv, OuterOpen
    <3>7. i < nest[p].irq
      <4> HIDE DEF o
      <4>1. i \in Nat /\ nest[o].irq \in Nat /\ nest[p].irq \in Nat
        BY <3>2, <3>6, Numbers
      <4> QED
        BY <3>3, <3>5, <4>1
    <3>8. nest'[p] = nest[p] /\ nest'[q].irq = i
      BY <1>3, <1>4, <2>1, <2>3
    <3> QED
      BY <3>7, <3>8
  <2> QED
    BY <1>6, <2>2, <2>3
<1>11. Masks'
  <2>1. Openers' = Len(nest) - 1
    BY <1>3, <1>4, <1>5 DEF Openers
  <2>2. Len(nest) - 1 \in 0..(Len(nest) - 1)
    BY <1>2
  <2>3. LetIn(nest', Openers') = alt_priority_mask
    BY <1>2, <1>7, <2>1, <2>2
  <2>4. UNCHANGED <<pie, ienable, alt_irq_active, alt_priority_mask>>
    BY DEF Dispatch, cpuVars
  <2>5. ienable = alt_irq_active \cap alt_priority_mask
    BY DEF IrqInv, Masks
  <2> QED
    BY <1>2, <1>3, <1>5, <2>3, <2>4, <2>5 DEF Masks
<1>12. Pending'
  BY <1>3, <1>5 DEF Pending, At
<1> QED
  BY <1>2, <1>4, <1>9, <1>10, <1>11, <1>12, OtherStep
     DEF Dispatch, tableVars, cpuVars, IrqInv, IrqTypeOK

LEMMA PendingRead == ASSUME IrqInv, ReadPending \/ Again PROVE IrqInv'
<1> DEFINE f == [Top EXCEPT !.at = "scan", !.active = ipending]
<1>1. /\ nest # <<>> /\ Top.at \in {"entry", "run"}
      /\ nest' = [nest EXCEPT ![Len(nest)] = f]
      /\ UNCHANGED <<cpuVars, alt_irq_active, alt_priority_mask, tableVars, lines, call>>
  BY DEF ReadPending, Again, At, Goto
<1>2. ipending # {} /\ ipending \subseteq ienable /\ ipending \subseteq Irqs
  BY DEF ReadPending, Again, IrqInv, Pending, IrqTypeOK, ipending
<1>3. /\ Top \in Frames /\ call.step = "none" /\ Len(nest) \in Nat /\ Len(nest) # 0
      /\ ~pie /\ alt_priority_mask = LetIn(nest, Len(nest) - 1)
      /\ ienable = alt_irq_active \cap alt_priority_mask
  BY <1>1, Serving
<1>4. f \in Frames /\ f.at = "scan" /\ f.active = ipending /\ f.irq = Top.irq
  BY <1>2, <1>3 DEF Frames
<1> HIDE DEF f
<1>5. /\ nest' \in Seq(Frames) /\ Top' = f /\ OuterOpen' /\ Descending' /\ nest' # <<>>
      /\ Openers' = Len(nest) - 1
      /\ \A k \in 0..Len(nest) : LetIn(nest', k) = LetIn(nest, k)
  BY <1>1, <1>4, SameIrq
<1>6. Masks'
  <2>1. Len(nest) - 1 \in 0..Len(nest)
    BY <1>3
  <2>2. LetIn(nest', Openers') = alt_priority_mask
    BY <1>3, <1>5, <2>1
  <2> QED
    BY <1>1, <1>3, <1>4, <1>5, <2>2 DEF Masks, cpuVars
<1>7. Pending'
  BY <1>1, <1>2, <1>4, <1>5 DEF Pending, At, cpuVars
<1> QED
  BY <1>1, <1>3, <1>5, <1>6, <1>7, OtherStep DEF tableVars, cpuVars, IrqInv, IrqTypeOK

LEMMA Served == ASSUME IrqInv, Serve PROVE IrqInv'
<1>1. OuterOpen' /\ Descending' /\ Masks'
  BY DEF Serve, cpuVars, IrqInv, OuterOpen, Descending, Masks, Openers, Top
<1>2. Pending'
  BY DEF Serve, Pending, At, Top
<1>3. nest # <<>>
  BY DEF Serve, At
<1>4. call.step = "none"
  BY <1>3, Serving
<1> QED
  BY <1>1, <1>2, <1>4, OtherStep DEF Serve, cpuVars, tableVars, IrqInv, IrqTypeOK

LEMMA Opened == ASSUME IrqInv, Interruptible PROVE IrqInv'
<1> DEFINE f == [Top EXCEPT !.at = "open", !.mask = alt_priority_mask]
<1>1. /\ nest # <<>> /\ Top.at = "run" /\ nest' = [nest EXCEPT ![Len(nest)] = f]
      /\ alt_priority_mask' = LetThrough(Top.irq)
      /\ ienable' = alt_irq_active \cap alt_priority_mask' /\ pie' = TRUE
      /\ UNCHANGED <<alt_irq_active, handler, context, lines, call>>
  BY DEF Interruptible, At, Goto, tableVars
<1>2. /\ Top \in Frames /\ Top = nest[Len(nest)] /\ Top.irq \in Irqs
      /\ call.step = "none" /\ Len(nest) \in Nat /\ Len(nest) # 0
      /\ alt_priority_mask = LetIn(nest, Len(nest) - 1)
  BY <1>1, Serving
<1>3. f \in Frames /\ f.at = "open" /\ f.irq = Top.irq /\ f.mask = alt_priority_mask
  BY <1>2 DEF Frames, IrqInv, IrqTypeOK
<1> HIDE DEF f
<1>4. /\ nest' \in Seq(Frames) /\ Top' = f /\ OuterOpen' /\ Descending' /\ nest' # <<>>
      /\ Openers' = Len(nest)
      /\ \A k \in 0..Len(nest) : LetIn(nest', k) = LetIn(nest, k)
  BY <1>1, <1>2, <1>3, SameIrq
<1>5. LetIn(nest', Openers') = LetThrough(Top.irq)
  <2>1. Len(nest) \in 0..Len(nest)
    BY <1>2
  <2> QED
    BY <1>2, <1>4, <2>1 DEF LetIn
<1>6. Masks' /\ Pending'
  BY <1>1, <1>3, <1>4, <1>5 DEF Masks, Pending, At
<1>7. alt_priority_mask' \subseteq Irqs
  BY <1>1, <1>2, Numbers
<1> QED
  BY <1>1, <1>2, <1>4, <1>6, <1>7, OtherStep DEF IrqInv, IrqTypeOK

LEMMA Shut == ASSUME IrqInv, NonInterruptible PROVE IrqInv'
<1> DEFINE f == [Top EXCEPT !.at = "run"]
<1>1. /\ nest # <<>> /\ Top.at = "open" /\ nest' = [nest EXCEPT ![Len(nest)] = f]
      /\ alt_priority_mask' = Top.mask
      /\ ienable' = alt_irq_active \cap alt_priority_mask' /\ pie' = FALSE
      /\ UNCHANGED <<alt_irq_active, handler, context, lines, call>>
  BY DEF NonInterruptible, At, Goto, tableVars
<1>2. /\ Top \in Frames /\ Top.irq \in Irqs /\ Top.mask = LetIn(nest, Len(nest) - 1)
      /\ call.step = "none" /\ Len(nest) \in Nat /\ Len(nest) # 0
  BY <1>1, Serving
<1>3. f \in Frames /\ f.at = "run" /\ f.irq = Top.irq
  BY <1>2 DEF Frames
<1> HIDE DEF f
<1>4. /\ nest' \in Seq(Frames) /\ Top' = f /\ OuterOpen' /\ Descending' /\ nest' # <<>>
      /\ Openers' = Len(nest) - 1
      /\ \A k \in 0..Len(nest) : LetIn(nest', k) = LetIn(nest, k)
  BY <1>1, <1>2, <1>3, SameIrq
<1>5. LetIn(nest', Openers') = Top.mask
  <2>1. Len(nest) - 1 \in 0..Len(nest)
    BY <1>2
  <2> QED
    BY <1>2, <1>4, <2>1
<1>6. Masks' /\ Pending'
  BY <1>1, <1>3, <1>4, <1>5 DEF Masks, Pending, At
<1>7. alt_priority_mask' \subseteq Irqs
  BY <1>1, <1>2 DEF Frames
<1> QED
  BY <1>1, <1>2, <1>4, <1>6, <1>7, OtherStep DEF IrqInv, IrqTypeOK

LEMMA Returned == ASSUME IrqInv, Return PROVE IrqInv'
<1>1. /\ nest # <<>> /\ Top.at = "run" /\ nest' = SubSeq(nest, 1, Len(nest) - 1)
      /\ pie' = TRUE
      /\ UNCHANGED <<ienable, alt_irq_active, alt_priority_mask, handler, context,
                     lines, call>>
  BY DEF Return, At, tableVars
<1>2. /\ nest \in Seq(Frames) /\ call.step = "none" /\ Len(nest) \in Nat /\ Len(nest) # 0
      /\ alt_priority_mask = LetIn(nest, Len(nest) - 1)
      /\ ienable = alt_irq_active \cap alt_priority_mask
  BY <1>1, Serving
<1>3. /\ nest' \in Seq(Frames) /\ Len(nest') = Len(nest) - 1
      /\ \A p \in 1..(Len(nest) - 1) : nest'[p] = nest[p]
  BY <1>1, <1>2, Popped
<1>4. Len(nest') \in Nat /\ Len(nest') = Len(nest) - 1
  BY <1>2, <1>3
<1>5. \A p \in 1..Len(nest') : p \in 1..(Len(nest) - 1) /\ p \in 1..Len(nest)
  BY <1>2, <1>4
<1>6. \A k \in 0..Len(nest') : LetIn(nest', k) = LetIn(nest, k)
  <2> SUFFICES ASSUME NEW k \in 0..Len(nest') PROVE LetIn(nest', k) = LetIn(nest, k)
    OBVIOUS
  <2>1. k = 0 \/ k \in 1..(Len(nest) - 1)
    BY <1>2, <1>4
  <2> QED
    BY <1>3, <2>1 DEF LetIn
<1>7. \A p \in 1..Len(nest') : nest'[p].at = "open" /\ nest'[p] = nest[p]
  BY <1>3, <1>5 DEF IrqInv, OuterOpen
<1>8. OuterOpen'
  <2>1. \A p \in 1..(Len(nest') - 1) : nest'[p].at = "open"
    <3>1. \A p \in 1..(Len(nest') - 1) : p \in 1..Len(nest')
      BY <1>4
    <3> QED
      BY <1>7, <3>1
  <2> SUFFICES ASSUME NEW p \in 1..Len(nest')
               PROVE  /\ nest'[p].at \in {"run", "open"} => nest'[p].irq \in Irqs
                      /\ nest'[p].at = "open" => nest'[p].mask = LetIn(nest', p - 1)
    BY <2>1 DEF OuterOpen
  <2>2. p - 1 \in 0..Len(nest')
    BY <1>4
  <2>3. LetIn(nest', p - 1) = LetIn(nest, p - 1) /\ p \in 1..Len(nest) /\ nest'[p] = nest[p]
    BY <1>5, <1>6, <1>7, <2>2
  <2> QED
    BY <2>3 DEF IrqInv, OuterOpen
<1>9. Descending'
  BY <1>5, <1>7 DEF IrqInv, Descending
<1>10. Masks'
  <2>1. nest' # <<>> => Len(nest') \in 1..Len(nest')
    BY <1>3, <1>4
  <2>2. nest' # <<>> => Top'.at = "open"
    BY <1>7, <2>1 DEF Top
  <2>3. nest' = <<>> => Len(nest') = 0
    OBVIOUS
  <2>4. Openers' = Len(nest) - 1
    BY <1>4, <2>2, <2>3 DEF Openers
  <2>5. Len(nest) - 1 \in 0..Len(nest')
    BY <1>4
  <2> QED
    BY <1>1, <1>2, <1>6, <2>2, <2>4, <2>5 DEF Masks
<1>11. Pending'
  <2>1. nest' # <<>> => Len(nest') \in 1..Len(nest')
    BY <1>3, <1>4
  <2> QED
    BY <1>7, <2>1 DEF Pending, At, Top
<1> QED
  BY <1>1, <1>2, <1>3, <1>8, <1>9, <1>10, <1>11, OtherStep DEF IrqInv, IrqTypeOK

LEMMA IrqStep == IrqInv /\ [IrqNext]_irqVars => IrqInv'
<1>1. ASSUME IrqInv, UNCHANGED irqVars PROVE IrqInv'
  BY <1>1
     DEF irqVars, cpuVars, tableVars, IrqInv, IrqTypeOK, Registered, SectionHolds,
         OuterOpen, Masks, Pending, Descending, Openers, Top, At, ipending
<1> QED
  BY <1>1, CallStep, Requested, Interrupted, Dispatched, PendingRead, Served, Opened,
     Shut, Returned
     DEF IrqNext, Cpu

LEMMA IrqInvariance == IrqSpec => []IrqInv
BY IrqStart, IrqStep, PTL DEF IrqSpec

(* alt_irq_handler.c:119-156, alt_iic_isr_register.c:84-102,               *)
(* alt_legacy_irq.h:100-143: for every number of interrupts and handlers,  *)
(* however deep they nest.                                                 *)
THEOREM InterruptsSafe == IrqSpec => []IrqSafe
<1>1. IrqInv => CallsRegistered
  <2> SUFFICES ASSUME IrqInv, At("scan"), NEW i \in Top.active
               PROVE  Top.active # {} /\ handler[i] # NoIsr /\ context[i] = handler[i]
    BY DEF CallsRegistered, IrqInv, Pending
  <2>1. Top.active # {} /\ i \in alt_irq_active
    BY DEF IrqInv, Pending, Masks
  <2>2. call.step = "none"
    BY DEF At, IrqInv, SectionHolds
  <2> QED
    BY <2>1, <2>2 DEF IrqInv, Registered
<1>2. IrqInv => NestsByPriority
  <2>1. nest = <<>> => LetIn(nest, Openers) = Irqs
    BY DEF Openers, LetIn
  <2> QED
    BY <2>1 DEF IrqInv, Descending, Masks, NestsByPriority
<1>3. IrqInv => IrqSafe
  BY <1>1, <1>2 DEF IrqInv, IrqSafe
<1> QED
  BY <1>3, IrqInvariance, PTL

-----------------------------------------------------------------------------
(* Descriptors and the locks of devices. *)

Locked(i) == "EXCL" \in fd_flags[i]

StdioTaken == \A i \in Stdio : fd_dev[i] \in Devices

\* alt_main has come so far, and until main nothing is locked or above stderr.
BootSoFar ==
    /\ boot \in {"stdin", "stderr", "main", "exit"} => fd_dev[1] = Console /\ alt_max_fd > 2
    /\ boot \in {"stderr", "main", "exit"} => fd_dev[0] = Console
    /\ boot \in {"main", "exit"} => fd_dev[2] = Console
    /\ boot \notin {"main", "exit"} => \A i \in Fds : ~Locked(i)

ClosedIsClean == \A i \in Fds : ~IsOpen(i) => ~Locked(i)

(* The only descriptor a lock can miss is the one at the mark, so that the *)
(* holder is below every other descriptor of its device.                   *)
HolderIsLowest ==
    \A a, b \in Fds : Locked(a) /\ a # b /\ fd_dev[a] = fd_dev[b] => a < b

(* And it has missed at most that one, since none is opened after it.      *)
OneMissed ==
    \A a, b, c \in Fds :
       Locked(a) /\ a \notin {b, c} /\ fd_dev[b] = fd_dev[a] /\ fd_dev[c] = fd_dev[a]
          => b = c

FilesInv ==
    /\ FilesTypeOK /\ StdioTaken /\ BootSoFar /\ MarkCoversAll
    /\ ClosedIsClean /\ HolderIsLowest /\ OneMissed

LEMMA Assumed ==
    /\ MaxFds \in Nat /\ MaxFds > 3 /\ Stdio \subseteq Fds
    /\ Console # Null /\ NoDev \notin Devices
    /\ \A i \in Fds : i \in Int /\ i >= 0 /\ i < MaxFds
BY HalFilesAssumption DEF HalFilesAssumption, Stdio, Fds, Devices

LEMMA FilesStart == FilesInit => FilesInv
BY Assumed
   DEF FilesInit, FilesInv, FilesTypeOK, StdioTaken, BootSoFar, MarkCoversAll,
       ClosedIsClean, HolderIsLowest, OneMissed, Locked, IsOpen, Devices

\* A free descriptor is above the standard streams, and the mark covers it and
\* all that it covered before.
LEMMA Allocated ==
    ASSUME FilesInv, NEW i \in Fds, IsFirstFree(i)
    PROVE  /\ fd_dev[i] = NoDev /\ i > 2 /\ ~Locked(i)
           /\ Watermark(i) \in Fds /\ Watermark(i) > 2
           /\ i <= Watermark(i) /\ alt_max_fd <= Watermark(i)
<1>1. fd_dev[i] = NoDev /\ ~Locked(i)
  BY DEF IsFirstFree, Free, FilesInv, ClosedIsClean, IsOpen
<1>2. i \notin Stdio
  BY <1>1, Assumed DEF FilesInv, StdioTaken
<1>3. i > 2
  BY <1>2, Assumed DEF Stdio
<1> QED
  BY <1>1, <1>3, Assumed DEF Watermark, FilesInv, FilesTypeOK

\* Raising the mark alone.
LEMMA MarkRaised ==
    ASSUME FilesInv, NEW i \in Fds, IsFirstFree(i), alt_max_fd' = Watermark(i),
           UNCHANGED <<boot, fd_dev, fd_flags>>
    PROVE  FilesInv'
<1>1. Watermark(i) \in Fds /\ Watermark(i) > 2 /\ alt_max_fd <= Watermark(i)
  BY Allocated
<1>2. MarkCoversAll'
  <2> SUFFICES ASSUME NEW j \in Fds, IsOpen(j)', j \notin Stdio PROVE j <= Watermark(i)
    BY DEF MarkCoversAll
  <2>1. j <= alt_max_fd
    BY DEF FilesInv, MarkCoversAll, IsOpen
  <2> QED
    BY <1>1, <2>1, Assumed DEF FilesInv, FilesTypeOK
<1> QED
  BY <1>1, <1>2, Assumed
     DEF FilesInv, FilesTypeOK, StdioTaken, BootSoFar, ClosedIsClean, HolderIsLowest, OneMissed, Locked, IsOpen

LEMMA RedirectKeeps ==
    ASSUME FilesInv, NEW stream \in Stdio, NEW from, NEW to, NEW flags \in AccessModes,
           Redirect(stream, from, to, flags),
           \/ stream = 1 /\ from = "stdout" /\ to = "stdin"
           \/ stream = 0 /\ from = "stdin" /\ to = "stderr"
           \/ stream = 2 /\ from = "stderr" /\ to = "main"
    PROVE  FilesInv'
<1>1. PICK i \in Fds :
         /\ IsFirstFree(i)
         /\ fd_dev' = [fd_dev EXCEPT ![stream] = Console]
         /\ fd_flags' = [fd_flags EXCEPT ![stream] = flags \cup {"DEV"}]
         /\ alt_max_fd' = Watermark(i)
  BY DEF Redirect
<1>2. Watermark(i) \in Fds /\ Watermark(i) > 2 /\ alt_max_fd <= Watermark(i)
  BY <1>1, Allocated
<1>3. stream \in Fds /\ boot = from /\ boot' = to /\ boot \notin {"main", "exit"}
  BY Assumed DEF Redirect
<1>4. \A j \in Fds : ~Locked(j)'
  <2>1. flags \cup {"DEV"} \in SUBSET {"WRONLY", "RDWR", "DEV"}
    BY DEF AccessModes
  <2>2. \A j \in Fds : ~Locked(j)
    BY <1>3 DEF FilesInv, BootSoFar
  <2> QED
    BY <1>1, <1>3, <2>1, <2>2 DEF Locked, FilesInv, FilesTypeOK
<1>5. FilesTypeOK'
  <2>1. flags \cup {"DEV"} \in SUBSET ({"WRONLY", "RDWR"} \cup SettableFlags \cup FdFlags)
    BY DEF AccessModes, FdFlags
  <2>2. boot' \in {"alt_sys_init", "stdout", "stdin", "stderr", "main", "exit"}
    BY <1>3
  <2>3. fd_dev' \in [Fds -> Devices \cup {NoDev}]
    BY <1>1, <1>3 DEF FilesInv, FilesTypeOK, Devices
  <2>4. fd_flags' \in [Fds -> SUBSET ({"WRONLY", "RDWR"} \cup SettableFlags \cup FdFlags)]
    BY <1>1, <1>3, <2>1 DEF FilesInv, FilesTypeOK
  <2> QED
    BY <1>1, <1>2, <2>2, <2>3, <2>4 DEF FilesTypeOK
<1>6. StdioTaken'
  BY <1>1, <1>3, Assumed DEF FilesInv, FilesTypeOK, StdioTaken, Devices
<1>7. BootSoFar'
  <2>1. \A j \in Fds : fd_dev'[j] = IF j = stream THEN Console ELSE fd_dev[j]
    BY <1>1, <1>3 DEF FilesInv, FilesTypeOK
  <2>2. 0 \in Fds /\ 1 \in Fds /\ 2 \in Fds
    BY Assumed DEF Stdio
  <2> QED
    BY <1>1, <1>2, <1>3, <1>4, <2>1, <2>2 DEF FilesInv, BootSoFar
<1>8. MarkCoversAll'
  <2> SUFFICES ASSUME NEW j \in Fds, IsOpen(j)', j \notin Stdio PROVE j <= Watermark(i)
    BY <1>1 DEF MarkCoversAll
  <2>1. IsOpen(j)
    BY <1>1, <1>3 DEF IsOpen, FilesInv, FilesTypeOK
  <2>2. j <= alt_max_fd
    BY <2>1 DEF FilesInv, MarkCoversAll
  <2> QED
    BY <1>2, <2>2, Assumed DEF FilesInv, FilesTypeOK
<1> QED
  BY <1>4, <1>5, <1>6, <1>7, <1>8 DEF FilesInv, ClosedIsClean, HolderIsLowest, OneMissed

LEMMA OpenKeeps ==
    ASSUME FilesInv, NEW d \in Devices, NEW flags \in AccessModes, Open(d, flags)
    PROVE  FilesInv'
<1>1. PICK i \in Fds :
         /\ IsFirstFree(i) /\ ~LockedByOther(d, i)
         /\ alt_max_fd' = Watermark(i)
         /\ fd_dev' = [fd_dev EXCEPT ![i] = d]
         /\ fd_flags' = [fd_flags EXCEPT ![i] = flags \cup {"DEV"}]
  BY DEF Open
<1>2. /\ fd_dev[i] = NoDev /\ i > 2 /\ i \notin Stdio
      /\ Watermark(i) \in Fds /\ Watermark(i) > 2
      /\ i <= Watermark(i) /\ alt_max_fd <= Watermark(i)
  BY <1>1, Allocated DEF Stdio
<1>3. boot = "main" /\ boot' = "main"
  BY DEF Open, InMain
<1>4. \A j \in Fds : fd_dev'[j] = IF j = i THEN d ELSE fd_dev[j]
  BY <1>1 DEF FilesInv, FilesTypeOK
<1>5. \A j \in Fds : Locked(j)' <=> j # i /\ Locked(j)
  <2>1. "EXCL" \notin flags \cup {"DEV"}
    BY DEF AccessModes
  <2> QED
    BY <1>1, <2>1 DEF FilesInv, FilesTypeOK, Locked
<1>6. FilesTypeOK'
  <2>1. flags \cup {"DEV"} \in SUBSET ({"WRONLY", "RDWR"} \cup SettableFlags \cup FdFlags)
    BY DEF AccessModes, FdFlags
  <2>2. fd_flags' \in [Fds -> SUBSET ({"WRONLY", "RDWR"} \cup SettableFlags \cup FdFlags)]
    BY <1>1, <2>1 DEF FilesInv, FilesTypeOK
  <2>3. fd_dev' \in [Fds -> Devices \cup {NoDev}]
    BY <1>1 DEF FilesInv, FilesTypeOK
  <2> QED
    BY <1>1, <1>2, <1>3, <2>2, <2>3 DEF FilesTypeOK
<1>7. StdioTaken' /\ BootSoFar'
  <2>1. \A j \in Stdio : j \in Fds /\ fd_dev'[j] = fd_dev[j]
    BY <1>2, <1>4, Assumed
  <2> QED
    BY <1>1, <1>2, <1>3, <2>1 DEF FilesInv, StdioTaken, BootSoFar, Stdio
<1>8. MarkCoversAll'
  <2> SUFFICES ASSUME NEW j \in Fds, IsOpen(j)', j \notin Stdio PROVE j <= Watermark(i)
    BY <1>1 DEF MarkCoversAll
  <2>1. j = i \/ j <= alt_max_fd
    BY <1>4 DEF FilesInv, MarkCoversAll, IsOpen
  <2> QED
    BY <1>2, <2>1, Assumed DEF FilesInv, FilesTypeOK
<1>9. \A j \in Fds : j # i /\ fd_dev[j] = d => ~Locked(j)
  <2> SUFFICES ASSUME NEW j \in Fds, j # i, fd_dev[j] = d, Locked(j) PROVE FALSE
    OBVIOUS
  <2>1. j \in Stdio \/ j <= alt_max_fd
    BY Assumed DEF FilesInv, MarkCoversAll, IsOpen
  <2>2. j <= Watermark(i)
    BY <1>2, <2>1, Assumed DEF FilesInv, FilesTypeOK, Stdio
  <2> QED
    BY <1>1, <2>2 DEF LockedByOther, Locked
<1>10. HolderIsLowest'
  <2> SUFFICES ASSUME NEW a \in Fds, NEW b \in Fds, Locked(a)', a # b,
                      fd_dev'[a] = fd_dev'[b]
               PROVE  a < b
    BY DEF HolderIsLowest
  <2>1. a # i /\ Locked(a)
    BY <1>5
  <2>2. b # i
    BY <1>4, <1>9, <2>1
  <2> QED
    BY <1>4, <2>1, <2>2 DEF FilesInv, HolderIsLowest
<1>11. ClosedIsClean'
  BY <1>4, <1>5, Assumed DEF FilesInv, ClosedIsClean, IsOpen
<1>12. OneMissed'
  <2> SUFFICES ASSUME NEW a \in Fds, NEW b \in Fds, NEW c \in Fds,
                      Locked(a)', a \notin {b, c},
                      fd_dev'[b] = fd_dev'[a], fd_dev'[c] = fd_dev'[a]
               PROVE  b = c
    BY DEF OneMissed
  <2>1. a # i /\ Locked(a)
    BY <1>5
  <2>2. b # i /\ c # i
    BY <1>4, <1>9, <2>1
  <2> QED
    BY <1>4, <2>1, <2>2 DEF FilesInv, OneMissed
<1> QED
  BY <1>6, <1>7, <1>8, <1>10, <1>11, <1>12 DEF FilesInv

LEMMA CloseKeeps ==
    ASSUME FilesInv, NEW i \in Fds, Close(i), boot = "main", boot' \in {"main", "exit"}
    PROVE  FilesInv'
<1>1. CASE ~Releases(i)
  <2>1. UNCHANGED <<fd_dev, fd_flags, alt_max_fd>>
    BY <1>1 DEF Close
  <2> QED
    BY <2>1 DEF FilesInv, FilesTypeOK, StdioTaken, BootSoFar, MarkCoversAll,
                ClosedIsClean, HolderIsLowest, OneMissed, Locked, IsOpen
<1>2. CASE Releases(i)
  <2>1. /\ fd_dev' = [fd_dev EXCEPT ![i] = NoDev]
        /\ fd_flags' = [fd_flags EXCEPT ![i] = {}] /\ alt_max_fd' = alt_max_fd
        /\ i \notin Stdio
    BY <1>2 DEF Close, Releases, Stdio
  <2>2. \A j \in Fds : fd_dev'[j] = IF j = i THEN NoDev ELSE fd_dev[j]
    BY <2>1 DEF FilesInv, FilesTypeOK
  <2>3. \A j \in Fds : Locked(j)' <=> j # i /\ Locked(j)
    BY <2>1 DEF FilesInv, FilesTypeOK, Locked
  <2>4. FilesTypeOK'
    BY <2>1 DEF FilesInv, FilesTypeOK
  <2>5. StdioTaken' /\ BootSoFar'
    <3>1. \A j \in Stdio : j \in Fds /\ fd_dev'[j] = fd_dev[j]
      BY <2>1, <2>2, Assumed
    <3> QED
      BY <2>1, <3>1 DEF FilesInv, StdioTaken, BootSoFar, Stdio
  <2>6. MarkCoversAll' /\ ClosedIsClean'
    BY <2>1, <2>2, <2>3 DEF FilesInv, MarkCoversAll, ClosedIsClean, IsOpen
  <2>7. HolderIsLowest'
    <3> SUFFICES ASSUME NEW a \in Fds, NEW b \in Fds, Locked(a)', a # b,
                        fd_dev'[a] = fd_dev'[b]
                 PROVE  a < b
      BY DEF HolderIsLowest
    <3>1. a # i /\ Locked(a) /\ IsOpen(a)
      BY <2>3 DEF FilesInv, ClosedIsClean
    <3>2. b # i
      BY <2>2, <3>1 DEF IsOpen
    <3> QED
      BY <2>2, <3>1, <3>2 DEF FilesInv, HolderIsLowest
  <2>8. OneMissed'
    <3> SUFFICES ASSUME NEW a \in Fds, NEW b \in Fds, NEW c \in Fds,
                        Locked(a)', a \notin {b, c},
                        fd_dev'[b] = fd_dev'[a], fd_dev'[c] = fd_dev'[a]
                 PROVE  b = c
      BY DEF OneMissed
    <3>1. a # i /\ Locked(a) /\ IsOpen(a)
      BY <2>3 DEF FilesInv, ClosedIsClean
    <3>2. b # i /\ c # i
      BY <2>2, <3>1 DEF IsOpen
    <3> QED
      BY <2>2, <3>1, <3>2 DEF FilesInv, OneMissed
  <2> QED
    BY <2>4, <2>5, <2>6, <2>7, <2>8 DEF FilesInv
<1> QED
  BY <1>1, <1>2

\* A change of flags that locks nothing.
LEMMA FlagsKept ==
    ASSUME FilesInv, NEW i \in Fds,
           NEW flags \in SUBSET ({"WRONLY", "RDWR"} \cup SettableFlags \cup FdFlags),
           "EXCL" \in flags => Locked(i),
           fd_flags' = [fd_flags EXCEPT ![i] = flags],
           boot = "main", UNCHANGED <<boot, fd_dev, alt_max_fd>>
    PROVE  FilesInv'
<1>1. \A j \in Fds : Locked(j)' => Locked(j)
  BY DEF FilesInv, FilesTypeOK, Locked
<1>2. FilesTypeOK'
  BY DEF FilesInv, FilesTypeOK
<1> QED
  BY <1>1, <1>2 DEF FilesInv, StdioTaken, BootSoFar, MarkCoversAll, ClosedIsClean,
                    HolderIsLowest, OneMissed, IsOpen

LEMMA LockKeeps == ASSUME FilesInv, NEW i \in Fds, Lock(i) PROVE FilesInv'
<1>1. /\ boot = "main" /\ IsOpen(i) /\ LockGranted(i)
      /\ fd_flags' = [fd_flags EXCEPT ![i] = fd_flags[i] \cup {"EXCL"}]
      /\ UNCHANGED <<boot, fd_dev, alt_max_fd>>
  BY DEF Lock, InMain
<1>2. \A j \in Fds : Locked(j)' <=> j = i \/ Locked(j)
  BY <1>1 DEF FilesInv, FilesTypeOK, Locked
<1>3. FilesTypeOK'
  <2>1. fd_flags[i] \cup {"EXCL"} \in SUBSET ({"WRONLY", "RDWR"} \cup SettableFlags \cup FdFlags)
    BY DEF FilesInv, FilesTypeOK, FdFlags
  <2> QED
    BY <1>1, <2>1 DEF FilesInv, FilesTypeOK
<1>4. \A b \in Fds : b # i /\ fd_dev[b] = fd_dev[i] => b = alt_max_fd /\ i < b
  <2> SUFFICES ASSUME NEW b \in Fds, b # i, fd_dev[b] = fd_dev[i]
               PROVE  b = alt_max_fd /\ i < b
    OBVIOUS
  <2>1. alt_max_fd > 2 /\ alt_max_fd \in Fds
    BY <1>1, Assumed DEF FilesInv, FilesTypeOK, BootSoFar
  <2>2. b <= alt_max_fd /\ i <= alt_max_fd
    BY <1>1, <2>1, Assumed DEF FilesInv, MarkCoversAll, IsOpen, Stdio
  <2>3. ~(b < alt_max_fd)
    BY <1>1 DEF LockGranted, LockScan
  <2> QED
    BY <2>1, <2>2, <2>3, Assumed
<1>5. HolderIsLowest'
  <2> SUFFICES ASSUME NEW a \in Fds, NEW b \in Fds, Locked(a)', a # b, fd_dev[a] = fd_dev[b]
               PROVE  a < b
    BY <1>1 DEF HolderIsLowest
  <2> QED
    BY <1>2, <1>4 DEF FilesInv, HolderIsLowest
<1>6. ClosedIsClean'
  BY <1>1, <1>2 DEF FilesInv, ClosedIsClean, IsOpen
<1>7. OneMissed'
  <2> SUFFICES ASSUME NEW a \in Fds, NEW b \in Fds, NEW c \in Fds, Locked(a)',
                      a \notin {b, c}, fd_dev[b] = fd_dev[a], fd_dev[c] = fd_dev[a]
               PROVE  b = c
    BY <1>1 DEF OneMissed
  <2>1. CASE a = i
    BY <1>4, <2>1
  <2>2. CASE a # i
    BY <1>2, <2>2 DEF FilesInv, OneMissed
  <2> QED
    BY <2>1, <2>2
<1> QED
  BY <1>1, <1>3, <1>5, <1>6, <1>7 DEF FilesInv, StdioTaken, BootSoFar, MarkCoversAll, IsOpen

LEMMA FilesStep == FilesInv /\ [FilesNext]_filesVars => FilesInv'
<1> SUFFICES ASSUME FilesInv, [FilesNext]_filesVars PROVE FilesInv'
  OBVIOUS
<1>1. CASE RegisterDevices
  BY <1>1 DEF RegisterDevices, FilesInv, FilesTypeOK, StdioTaken, BootSoFar, MarkCoversAll,
              ClosedIsClean, HolderIsLowest, OneMissed, Locked, IsOpen
<1>2. CASE Redirect(1, "stdout", "stdin", {"WRONLY"})
  BY <1>2, RedirectKeeps DEF AccessModes, Stdio
<1>3. CASE Redirect(0, "stdin", "stderr", {})
  BY <1>3, RedirectKeeps DEF AccessModes, Stdio
<1>4. CASE Redirect(2, "stderr", "main", {"WRONLY"})
  BY <1>4, RedirectKeeps DEF AccessModes, Stdio
<1>5. CASE MainReturns
  <2>1. 1 \in Fds
    BY Assumed DEF Stdio
  <2> QED
    BY <1>5, <2>1, CloseKeeps DEF MainReturns, InMain
<1>6. ASSUME NEW d \in Devices, OpenLocked(d) PROVE FilesInv'
  <2>1. PICK i \in Fds : IsFirstFree(i) /\ alt_max_fd' = Watermark(i)
    BY <1>6 DEF OpenLocked
  <2> QED
    BY <1>6, <2>1, MarkRaised DEF OpenLocked
<1>7. ASSUME NEW d \in Devices, NEW flags \in AccessModes, Open(d, flags) PROVE FilesInv'
  BY <1>7, OpenKeeps
<1>8. ASSUME NEW i \in Fds, InMain, Close(i), UNCHANGED boot PROVE FilesInv'
  BY <1>8, CloseKeeps DEF InMain
<1>9. ASSUME NEW i \in Fds, Lock(i) PROVE FilesInv'
  BY <1>9, LockKeeps
<1>10. ASSUME NEW i \in Fds, Unlock(i) PROVE FilesInv'
  <2> DEFINE flags == fd_flags[i] \ {"EXCL"}
  <2>1. flags \in SUBSET ({"WRONLY", "RDWR"} \cup SettableFlags \cup FdFlags)
    BY DEF FilesInv, FilesTypeOK
  <2>2. "EXCL" \notin flags
    OBVIOUS
  <2>3. /\ fd_flags' = [fd_flags EXCEPT ![i] = flags]
        /\ boot = "main" /\ UNCHANGED <<boot, fd_dev, alt_max_fd>>
    BY <1>10 DEF Unlock, InMain
  <2> HIDE DEF flags
  <2> QED
    BY <2>1, <2>2, <2>3, FlagsKept
<1>11. ASSUME NEW i \in Fds, NEW wanted \in SUBSET SettableFlags, SetFlags(i, wanted)
       PROVE  FilesInv'
  <2> DEFINE flags == (fd_flags[i] \ SettableFlags) \cup wanted
  <2>1. flags \in SUBSET ({"WRONLY", "RDWR"} \cup SettableFlags \cup FdFlags)
    BY DEF FilesInv, FilesTypeOK
  <2>2. "EXCL" \in flags => Locked(i)
    BY DEF Locked, SettableFlags
  <2>3. /\ fd_flags' = [fd_flags EXCEPT ![i] = flags]
        /\ boot = "main" /\ UNCHANGED <<boot, fd_dev, alt_max_fd>>
    BY <1>11 DEF SetFlags, InMain
  <2> HIDE DEF flags
  <2> QED
    BY <2>1, <2>2, <2>3, FlagsKept
<1>12. CASE UNCHANGED filesVars
  BY <1>12 DEF filesVars, FilesInv, FilesTypeOK, StdioTaken, BootSoFar, MarkCoversAll,
               ClosedIsClean, HolderIsLowest, OneMissed, Locked, IsOpen
<1> QED
  BY <1>1, <1>2, <1>3, <1>4, <1>5, <1>6, <1>7, <1>8, <1>9, <1>10, <1>11, <1>12
     DEF FilesNext, Boot

LEMMA FilesInvariance == FilesSpec => []FilesInv
BY FilesStart, FilesStep, PTL DEF FilesSpec

-----------------------------------------------------------------------------
(* alt_release_fd.c:54-61, alt_get_fd.c:71-76, alt_fd_lock.c:61-69: the     *)
(* standard streams stay on the console, no open descriptor is above the   *)
(* mark, and although the search of alt_fd_lock leaves out the descriptor  *)
(* at the mark, a device is never locked twice and a locked one is open on *)
(* at most one descriptor besides the holder's.                            *)
THEOREM PoolSafe == FilesSpec => []FilesSafe
<1>1. FilesInv => StdioOnConsole
  BY DEF FilesInv, BootSoFar, StdioOnConsole, Stdio
<1>2. FilesInv => OneLock
  <2> SUFFICES ASSUME FilesInv, NEW i \in Fds, NEW j \in Fds, i # j,
                      fd_dev[i] = fd_dev[j], Locked(i), Locked(j)
               PROVE  FALSE
    BY DEF OneLock, Locked
  <2>1. i < j /\ j < i
    BY DEF FilesInv, HolderIsLowest
  <2> QED
    BY <2>1, Assumed
<1>3. FilesInv => SharedOnceAtMost
  BY DEF FilesInv, HolderIsLowest, OneMissed, SharedOnceAtMost, Locked
<1>4. FilesInv => FilesSafe
  BY <1>1, <1>2, <1>3 DEF FilesInv, FilesSafe
<1> QED
  BY <1>4, FilesInvariance, PTL

(* alt_fd_lock.c:44-45, alt_open.c:69-89: while a device is locked nobody  *)
(* opens it.                                                               *)
THEOREM LockRespected == FilesSpec => OpenRespectsLock
<1>1. ASSUME FilesInv, [FilesNext]_filesVars, NEW i \in Fds, ~IsOpen(i), IsOpen(i)',
             NEW j \in Fds, fd_dev[j] = fd_dev'[i]
      PROVE  ~Locked(j)
  <2>1. CASE RegisterDevices \/ UNCHANGED filesVars
    BY <1>1, <2>1 DEF RegisterDevices, filesVars, IsOpen
  <2>2. ASSUME NEW stream \in Stdio, NEW from, NEW to, NEW flags, from \notin {"main", "exit"},
               Redirect(stream, from, to, flags)
        PROVE  ~Locked(j)
    BY <1>1, <2>2 DEF Redirect, FilesInv, BootSoFar
  <2>3. ASSUME NEW k \in Fds, Close(k) PROVE FALSE
    BY <1>1, <2>3 DEF Close, IsOpen, FilesInv, FilesTypeOK
  <2>4. ASSUME NEW d \in Devices, OpenLocked(d) PROVE FALSE
    BY <1>1, <2>4 DEF OpenLocked, IsOpen
  <2>5. ASSUME NEW d \in Devices, NEW flags \in AccessModes, Open(d, flags)
        PROVE  ~Locked(j)
    <3>1. PICK k \in Fds :
             /\ IsFirstFree(k) /\ ~LockedByOther(d, k)
             /\ fd_dev' = [fd_dev EXCEPT ![k] = d]
      BY <2>5 DEF Open
    <3>2. i = k /\ fd_dev'[i] = d
      BY <1>1, <3>1 DEF IsOpen, FilesInv, FilesTypeOK
    <3>3. ~Locked(k) /\ k <= Watermark(k) /\ alt_max_fd <= Watermark(k) /\ Watermark(k) > 2
          /\ Watermark(k) \in Fds
      BY <1>1, <3>1, Allocated
    <3>4. j \in Stdio \/ j <= alt_max_fd
      BY <1>1, <2>5, <3>2, Assumed DEF FilesInv, MarkCoversAll, IsOpen
    <3>5. j <= Watermark(k)
      BY <1>1, <3>3, <3>4, Assumed DEF FilesInv, FilesTypeOK, Stdio
    <3> QED
      BY <1>1, <3>1, <3>2, <3>3, <3>5 DEF LockedByOther, Locked
  <2>6. ASSUME NEW k \in Fds, Lock(k) \/ Unlock(k) \/ \E flags \in SUBSET SettableFlags : SetFlags(k, flags)
        PROVE  FALSE
    BY <1>1, <2>6 DEF Lock, Unlock, SetFlags, IsOpen
  <2>7. CASE Boot
    BY <2>1, <2>2, <2>7 DEF Boot, Stdio
  <2>8. CASE MainReturns
    <3>1. 1 \in Fds
      BY Assumed DEF Stdio
    <3> QED
      BY <2>3, <2>8, <3>1 DEF MainReturns
  <2> QED
    BY <1>1, <2>1, <2>3, <2>4, <2>5, <2>6, <2>7, <2>8 DEF FilesNext
<1>2. FilesInv /\ [FilesNext]_filesVars =>
         [\A i \in Fds : ~IsOpen(i) /\ IsOpen(i)' =>
             \A j \in Fds : fd_dev[j] = fd_dev'[i] => "EXCL" \notin fd_flags[j]]_filesVars
  BY <1>1 DEF Locked
<1> QED
  BY <1>2, FilesInvariance, PTL DEF FilesSpec, OpenRespectsLock
-----------------------------------------------------------------------------
(* The time of day. *)

\* What settimeofday has left behind.
SetInv ==
    set # <<>> =>
       /\ set[1] \in Times /\ set[2] \in 0..nticks
       /\ alt_resettime = <<set[1][1] - (set[2] \div Rate),
                            set[1][2] - (((set[2] * TickUS) % W) % US)>>

LEMMA DivUnique ==
    ASSUME NEW b \in Nat \ {0}, NEW q \in Int, NEW r \in 0..(b - 1)
    PROVE  (q * b + r) \div b = q /\ (q * b + r) % b = r
OBVIOUS

LEMMA Division ==
    ASSUME NEW b \in Nat \ {0}, NEW x \in Int
    PROVE  x = (x \div b) * b + (x % b) /\ x \div b \in Int /\ x % b \in 0..(b - 1)
OBVIOUS

\* A tick has the same number of microseconds in every second.
LEMMA TickOfSecond == TickUS \in Nat \ {0} /\ Rate * TickUS = US
<1>1. US = (US \div Rate) * Rate + 0 /\ TickUS \in Int
  BY ClockAssumption, Division DEF ClockAssumption, TickUS
<1>2. US = TickUS * Rate
  BY <1>1, ClockAssumption DEF ClockAssumption, TickUS
<1>3. TickUS > 0
  BY <1>1, <1>2, ClockAssumption DEF ClockAssumption
<1> QED
  BY <1>1, <1>2, <1>3, ClockAssumption DEF ClockAssumption

LEMMA Product ==
    ASSUME NEW n \in Nat, NEW q \in Int, NEW r \in Int, NEW R \in Nat, NEW T \in Nat, n = q * R + r
    PROVE  n * T = q * (R * T) + r * T
OBVIOUS

\* Whole seconds and the microseconds that are left make up all ticks.
LEMMA Elapsed ==
    ASSUME NEW n \in Nat
    PROVE  /\ n \div Rate \in Nat /\ (n * TickUS) % US \in 0..(US - 1)
           /\ ((n \div Rate) * US) + ((n * TickUS) % US) = n * TickUS
<1> DEFINE q == n \div Rate
           r == n % Rate
<1>1. n = q * Rate + r /\ q \in Int /\ r \in 0..(Rate - 1)
  BY ClockAssumption, Division DEF ClockAssumption
<1>2. q \in Nat
  BY <1>1, ClockAssumption DEF ClockAssumption
<1> HIDE DEF q, r
<1>3. n * TickUS = q * US + r * TickUS
  BY <1>1, TickOfSecond, Product, ClockAssumption DEF ClockAssumption
<1>4. r * TickUS \in Nat /\ r * TickUS < US
  BY <1>1, TickOfSecond, ClockAssumption DEF ClockAssumption
<1>5. (n * TickUS) % US = r * TickUS
  <2> DEFINE s == r * TickUS
  <2>1. s \in 0..(US - 1) /\ US \in Nat \ {0} /\ q \in Int
    BY <1>1, <1>4, ClockAssumption DEF ClockAssumption
  <2>2. (q * US + s) % US = s
    <3> HIDE DEF s
    <3> QED
      BY <2>1, DivUnique
  <2> QED
    BY <1>3, <2>2
<1> QED
  BY <1>2, <1>3, <1>4, <1>5, ClockAssumption DEF ClockAssumption, q

\* Seconds and a number of microseconds that may be negative or several seconds:
\* the two loops of alt_gettod.c:100-116 carry them over, or find a time below zero.
LEMMA Shifted ==
    ASSUME NEW s \in Nat, NEW x \in Int, NEW us \in Int, us = s * US + x
    PROVE  /\ s + (x \div US) = us \div US /\ x % US = us % US
           /\ (x < 0 /\ s + (x \div US) < 0) <=> us < 0
<1> DEFINE q == x \div US
           r == x % US
<1>1. x = q * US + r /\ q \in Int /\ r \in 0..(US - 1) /\ US \in Nat \ {0}
  BY ClockAssumption, Division DEF ClockAssumption
<1> HIDE DEF q, r
<1>2. s + q \in Int /\ us = (s + q) * US + r
  BY <1>1
<1>3. us \div US = s + q /\ us % US = r
  BY <1>1, <1>2, DivUnique
<1>4. ASSUME s + q < 0 PROVE us < 0 /\ x < 0
  <2>1. (s + q) * US <= (-1) * US
    BY <1>1, <1>2, <1>4
  <2>2. us < 0
    BY <1>1, <1>2, <2>1
  <2>3. s * US >= 0
    BY <1>1
  <2> QED
    BY <1>1, <2>2, <2>3
<1>5. ASSUME s + q >= 0 PROVE us >= 0
  <2>1. (s + q) * US >= 0
    BY <1>1, <1>2, <1>5
  <2> QED
    BY <1>1, <1>2, <2>1
<1>6. (x < 0 /\ s + q < 0) <=> us < 0
  BY <1>1, <1>2, <1>4, <1>5
<1> QED
  BY <1>3, <1>6 DEF q, r

LEMMA NatProduct == ASSUME NEW a \in Nat, NEW b \in Nat PROVE a * b \in Nat
OBVIOUS

LEMMA Distributed ==
    ASSUME NEW s \in Int, NEW p \in Int, NEW q \in Int, NEW b \in Int,
           NEW n \in Int, NEW m \in Int, NEW k \in Int
    PROVE  /\ (s - p + q) * b = s * b - p * b + q * b
           /\ (n - m) * k = n * k - m * k
OBVIOUS

LEMMA SetStep == AlarmInv /\ SetInv /\ [ClockNext]_clockVars => SetInv'
<1> SUFFICES ASSUME AlarmInv, SetInv, [ClockNext]_clockVars PROVE SetInv'
  OBVIOUS
<1>1. ASSUME UNCHANGED <<nticks, todVars>> PROVE SetInv'
  BY <1>1 DEF SetInv, todVars
<1>2. ASSUME NEW a \in Alarms, AlarmStop(a) \/ \E n \in Delays : AlarmStart(a, n)
      PROVE  UNCHANGED <<nticks, todVars>>
  BY <1>2 DEF AlarmStop, AlarmStart
<1>3. ASSUME NEW answer \in [Alarms -> Delays], AltTick(answer) PROVE SetInv'
  <2>1. nticks' = (nticks + 1) % W /\ alt_resettime' = alt_resettime
        /\ set' = (IF nticks' = 0 THEN <<>> ELSE set)
    BY <1>3 DEF AltTick
  <2>2. nticks \in 0..(W - 1) /\ W \in Nat /\ nticks + 1 \in Int
    BY ClockAssumption DEF ClockAssumption, AlarmInv, ClockTypeOK
  <2>3. nticks' # 0 => nticks' = nticks + 1
    BY <2>1, <2>2, Wrap
  <2> QED
    BY <2>1, <2>2, <2>3 DEF SetInv
<1>4. ASSUME NEW t \in Times, SetTimeOfDay(t) PROVE SetInv'
  <2>1. nticks \in 0..nticks
    BY DEF AlarmInv, ClockTypeOK
  <2> QED
    BY <1>4, <2>1 DEF SetInv, SetTimeOfDay
<1>5. CASE SysclkInit
  BY <1>1, <1>5 DEF SysclkInit
<1> QED
  BY <1>1, <1>2, <1>3, <1>4, <1>5 DEF ClockNext, clockVars

(* alt_settod.c:70-92, alt_gettod.c:84-118: for every rate of ticks that   *)
(* divides a second, length of a word, time set and tick at which it is    *)
(* set: until the counter wraps the clock is wrong by the slip of its      *)
(* setting and by no more.                                                 *)
THEOREM TimeOfDayKept == ClockSpec => []TimeOfDayAdds
<1>1. ClockInit => SetInv
  BY DEF ClockInit, SetInv
<1>2. AlarmInv /\ SetInv => TimeOfDayAdds
  <2> DEFINE t == set[1]
             m == set[2]
             us == t[1] * US + t[2] + (nticks - m) * TickUS + Slip(m)
             w == ((m * TickUS) % W) % US
  <2> SUFFICES ASSUME AlarmInv, SetInv, set # <<>>
               PROVE  GetTimeOfDay = IF us < 0 THEN <<0, 0>> ELSE <<us \div US, us % US>>
    BY DEF TimeOfDayAdds
  <2>1. /\ t[1] \in Nat /\ t[2] \in Nat /\ nticks \in Nat /\ m \in Nat /\ m <= nticks
        /\ TickUS \in Nat /\ US \in Nat
        /\ alt_resettime = <<t[1] - (m \div Rate), t[2] - w>>
    BY ClockAssumption, TickOfSecond DEF ClockAssumption, AlarmInv, ClockTypeOK, SetInv
  <2>2. w \in Int
    <3>1. m * TickUS \in Nat /\ W \in Nat \ {0} /\ US \in Nat \ {0}
      BY <2>1, NatProduct, ClockAssumption DEF ClockAssumption
    <3> DEFINE y == m * TickUS
    <3>2. y \in Int
      BY <3>1
    <3> HIDE DEF y
    <3>3. y % W \in Int
      BY <3>1, <3>2, Division
    <3>4. (y % W) % US \in Int
      BY <3>1, <3>3, Division
    <3> QED
      BY <3>4 DEF y
  <2> DEFINE sec == t[1] - (m \div Rate) + (nticks \div Rate)
             x == t[2] - w + ((nticks * TickUS) % US)
  <2>3. GetTimeOfDay = Normal(sec, x)
    BY <2>1 DEF GetTimeOfDay, ElapsedUS
  <2>4. sec \in Nat /\ x \in Int /\ us \in Int /\ us = sec * US + x
    <3> DEFINE p == m \div Rate
               q == nticks \div Rate
               u == (m * TickUS) % US
               v == (nticks * TickUS) % US
    <3>1. /\ p \in Nat /\ q \in Nat /\ u \in 0..(US - 1) /\ v \in 0..(US - 1)
          /\ p * US + u = m * TickUS /\ q * US + v = nticks * TickUS
      <4>1. m \in Nat /\ nticks \in Nat
        BY <2>1
      <4> HIDE DEF m
      <4>2. p \in Nat /\ u \in 0..(US - 1) /\ p * US + u = m * TickUS
        BY <4>1, Elapsed
      <4>3. q \in Nat /\ v \in 0..(US - 1) /\ q * US + v = nticks * TickUS
        BY <4>1, Elapsed
      <4> QED
        BY <4>2, <4>3
    <3>2. us = t[1] * US + t[2] + (nticks - m) * TickUS + (u - w)
      BY DEF Slip
    <3> HIDE DEF p, q, u, v, t, m, w, us
    <3>3. (nticks - m) * TickUS = nticks * TickUS - m * TickUS
      BY <2>1, Distributed
    <3>4. (t[1] - p + q) * US = t[1] * US - p * US + q * US
      BY <2>1, <3>1, Distributed
    <3>5. /\ t[1] * US \in Int /\ p * US \in Int /\ q * US \in Int
          /\ nticks * TickUS \in Int /\ m * TickUS \in Int
      BY <2>1, <3>1
    <3>6. us \in Int /\ us = (t[1] - p + q) * US + (t[2] - w + v)
      <4> DEFINE a == t[1] * US
                 b == p * US
                 c == q * US
                 d == m * TickUS
                 e == nticks * TickUS
                 s == t[2]
                 f == (t[1] - p + q) * US
      <4>1. /\ a \in Int /\ b \in Int /\ c \in Int /\ d \in Int /\ e \in Int
            /\ s \in Int /\ u \in Int /\ v \in Int /\ w \in Int
            /\ b + u = d /\ c + v = e /\ f = a - b + c
            /\ us = a + s + (e - d) + (u - w)
        BY <2>1, <2>2, <3>1, <3>2, <3>3, <3>4, <3>5
      <4> HIDE DEF a, b, c, d, e, s, f
      <4>2. us \in Int /\ us = f + (s - w + v)
        BY <4>1
      <4> QED
        BY <4>2 DEF f, s
    <3>7. p <= q
      <4>1. m * TickUS <= nticks * TickUS
        BY <2>1
      <4>2. CASE p >= q + 1
        <5>1. p * US >= (q + 1) * US /\ (q + 1) * US = q * US + US
          BY <2>1, <3>1, <4>2
        <5> QED
          BY <2>1, <3>1, <3>5, <4>1, <5>1
      <4> QED
        BY <3>1, <4>2
    <3>8. t[1] - p + q \in Nat /\ t[2] - w + v \in Int
      BY <2>1, <2>2, <3>1, <3>7
    <3> QED
      BY <3>6, <3>8 DEF p, q, v
  <2> HIDE DEF us, sec, x
  <2>5. /\ sec + (x \div US) = us \div US /\ x % US = us % US
        /\ (x < 0 /\ sec + (x \div US) < 0) <=> us < 0
    BY <2>4, Shifted
  <2> QED
    BY <2>3, <2>5 DEF Normal
<1> QED
  BY <1>1, <1>2, AlarmInit, AlarmStep, SetStep, PTL DEF ClockSpec

-----------------------------------------------------------------------------
(* The four parts together. *)

TypesInv == FilesInv /\ AlarmInv /\ IrqInv /\ HeapInv

\* Every variable of the four parts keeps to its type: words stay words, indices
\* inside the pool, frames and blocks of their shape.
THEOREM TypesCorrect == Spec => []HalTypeOK
<1>1. Init => TypesInv
  BY FilesStart, AlarmInit, IrqStart, HeapStarts DEF Init, TypesInv
<1>2. TypesInv /\ [Next]_<<part, filesVars, clockVars, irqVars, heapVars>> => TypesInv'
  <2> SUFFICES ASSUME TypesInv,
                      \/ UNCHANGED <<filesVars, clockVars, irqVars, heapVars>>
                      \/ FilesNext /\ UNCHANGED <<clockVars, irqVars, heapVars>>
                      \/ ClockNext /\ UNCHANGED <<filesVars, irqVars, heapVars>>
                      \/ IrqNext /\ UNCHANGED <<filesVars, clockVars, heapVars>>
                      \/ HeapNext /\ UNCHANGED <<filesVars, clockVars, irqVars>>
               PROVE  TypesInv'
    BY DEF Next
  <2>1. /\ [FilesNext]_filesVars /\ [ClockNext]_clockVars
        /\ [IrqNext]_irqVars /\ [HeapNext]_heapVars
    OBVIOUS
  <2> QED
    BY <2>1, FilesStep, AlarmStep, IrqStep, HeapStep DEF TypesInv
<1>3. TypesInv => HalTypeOK
  BY DEF TypesInv, HalTypeOK, FilesInv, AlarmInv, IrqInv, HeapInv
<1> QED
  BY <1>1, <1>2, <1>3, PTL DEF Spec
=============================================================================
