---------------------------- MODULE HpiBusProofs ----------------------------
(* The bus to the USB chip, for every set of registers and words, every    *)
(* distance between two stores that leaves the chip its time, and every    *)
(* order of stores, clock edges, presses of KEY[0] and changes of the      *)
(* chip's registers.                                                       *)
EXTENDS HpiBus, SequenceTheorems, TLAPS

Writes(c) == c # Nothing /\ c[1] = "write"
Calls == {"read", "write"} \X Addresses \X Values
Cleared == [a \in Addresses |-> Zero]

-----------------------------------------------------------------------------
(* Where the program is. *)

\* The stores and loads of the call being executed, or of IO_init.
Program ==
    IF Reads(call) THEN ReadStores(call[2])
    ELSE IF call # Nothing THEN WriteStores(call[2], call[3])
    ELSE IF ready THEN <<>> ELSE InitStores

\* How many of them have been made.
Done == Len(Program) - Len(todo)

OnTrack ==
    /\ Done \in 0..Len(Program)
    /\ todo = SubSeq(Program, Done + 1, Len(Program))

\* What the pins p are after the first k of them.
Lines(p, k) ==
    IF call # Nothing THEN
       /\ p.rst = High
       /\ p.cs = (IF k \in 1..6 THEN Low ELSE High)
       /\ p.rd = (IF Reads(call) /\ k \in {4, 5} THEN Low ELSE High)
       /\ p.wr = (IF ~Reads(call) /\ k = 5 THEN Low ELSE High)
       /\ k >= 3 => p.addr = call[2]
       /\ ~Reads(call) /\ k >= 4 => p.data = call[3]
    ELSE IF ready THEN p.rst = High /\ p.cs = High /\ p.rd = High /\ p.wr = High
    ELSE
       /\ p.rst = (IF k \in {0, 8} THEN Low ELSE High)
       /\ p.cs = (IF k \in {0, 1, 7, 8, 9} THEN Low ELSE High)
       /\ p.rd = (IF k >= 3 THEN High ELSE Low)
       /\ p.wr = (IF k >= 4 THEN High ELSE Low)

\* The pins are those of the PIO, those before the last store if no clock edge has
\* been since, or those KEY[0] forces.
PinsFollow ==
    \/ pins = AllLow
    \/ gap > 0 /\ pins = pio
    \/ gap = 0 /\ Done > 0 /\ Lines(pins, Done - 1)

\* The lines keep the word for the edge at which the write strobe ends.
WordHeld == Writes(call) /\ Done = 6 /\ gap = 0 => held = pins.data

BusTypes == TypeOK /\ call \in Calls \cup {Nothing} /\ disturbed \in BOOLEAN

PlaceInv == OnTrack /\ Lines(pio, Done) /\ PinsFollow /\ WordHeld

-----------------------------------------------------------------------------
(* What has become of the call. *)

HistoryOK ==
    /\ call # Nothing => ready
    /\ call = Nothing => ~disturbed
    /\ ~Reads(call) => seen = {}
    /\ Reads(call) => register[call[2]] \in seen

Undisturbed == call # Nothing /\ ~disturbed

\* The button has been up since the call began.
NoReset ==
    Undisturbed =>
       /\ ~Reset
       /\ Done > 0 /\ gap > 0 => pins = pio
       /\ Done > 1 /\ gap = 0 => Lines(pins, Done - 1)

\* The strobe lasts as long as the chip needs.
LongEnough ==
    Undisturbed =>
       /\ gap > 0 /\ Done = (IF Reads(call) THEN 4 ELSE 5) =>
             strobe >= gap - 1 \/ strobe = Access
       /\ Writes(call) /\ Done = 6 /\ gap = 0 => strobe = Access

\* The value of a read is on its way through data_in and readdata.
Answer ==
    Undisturbed /\ Reads(call) =>
       /\ Done = 4 /\ gap >= Access + 2 => data_in \in seen
       /\ Done = 4 /\ gap >= Access + 3 => readdata \in seen
       /\ Done > 4 => temp \in seen

\* The word of a write is taken at the first edge after the strobe's end.
TakenOnce ==
    Undisturbed /\ Writes(call) =>
       landed = IF Done = 7 \/ (Done = 6 /\ gap > 0) THEN 1 ELSE 0

\* The second half of the reset pulse of IO_init undoes what the strobes did that
\* were low in its first.
InitClears == ~ready /\ (Done > 8 \/ (Done = 8 /\ gap > 0)) => register = Cleared

CallInv == HistoryOK /\ NoReset /\ LongEnough /\ Answer /\ TakenOnce /\ InitClears

BusInv == BusTypes /\ PlaceInv /\ CallInv

-----------------------------------------------------------------------------
(* The sequences of stores. *)

LEMMA Assumed ==
    /\ Zero \in Values /\ First \in Addresses /\ Unknown \notin Values
    /\ Nothing \notin Calls
    /\ Access \in Nat /\ Access > 0 /\ MinGap \in Nat /\ MinGap >= Access + 3
BY HpiBusAssumption DEF HpiBusAssumption, Calls

Names == {"rst", "cs", "rd", "wr", "addr", "data", "temp"}
StoreSet == Names \X (Bit \cup Addresses \cup Values)

LEMMA Sequences ==
    ASSUME NEW a \in Addresses, NEW d \in Values
    PROVE  /\ InitStores \in Seq(StoreSet) /\ Len(InitStores) = 10
           /\ WriteStores(a, d) \in Seq(StoreSet) /\ Len(WriteStores(a, d)) = 7
           /\ ReadStores(a) \in Seq(StoreSet) /\ Len(ReadStores(a)) = 7
BY Assumed
   DEF InitStores, WriteStores, ReadStores, To, Load, StoreSet, Names, Bit, Low, High

\* A call names a register and a word.
LEMMA CallParts ==
    ASSUME BusTypes
    PROVE  /\ Reads(call) => call[2] \in Addresses /\ ~Writes(call) /\ call # Nothing
           /\ call # Nothing =>
                 call[2] \in Addresses /\ call[3] \in Values /\ (Writes(call) <=> ~Reads(call))
BY DEF BusTypes, Calls, Reads, Writes

LEMMA ProgramParts ==
    ASSUME BusTypes
    PROVE  /\ Program \in Seq(StoreSet)
           /\ Len(Program) \in {0, 7, 10}
           /\ call # Nothing => Len(Program) = 7
           /\ call = Nothing /\ ready => Len(Program) = 0
           /\ call = Nothing /\ ~ready => Len(Program) = 10
<1>1. <<>> \in Seq(StoreSet) /\ Len(<<>>) = 0
  OBVIOUS
<1> QED
  BY <1>1, CallParts, Sequences, Assumed DEF Program

\* The next store is the one after those that have been made.
LEMMA NextStore ==
    ASSUME BusTypes, OnTrack, todo # <<>>
    PROVE  /\ Done \in 0..(Len(Program) - 1)
           /\ Head(todo) = Program[Done + 1]
           /\ Tail(todo) = SubSeq(Program, Done + 2, Len(Program))
           /\ Len(Tail(todo)) = Len(todo) - 1
           /\ Len(todo) \in Nat
<1> DEFINE P == Program
           k == Done
<1>1. P \in Seq(StoreSet) /\ Len(P) \in Nat /\ k \in 0..Len(P)
  BY ProgramParts DEF OnTrack
<1>2. todo = SubSeq(P, k + 1, Len(P))
  BY DEF OnTrack
<1> HIDE DEF P, k
<1>3. k # Len(P)
  BY <1>1, <1>2, SubSeqEmpty
<1>4. k + 1 \in 1..Len(P) /\ Len(P) \in (k + 1)..Len(P) /\ (k + 1) + 1 = k + 2
  BY <1>1, <1>3
<1>5. Head(todo) = P[k + 1] /\ Tail(todo) = SubSeq(P, k + 2, Len(P))
  BY <1>1, <1>2, <1>4, HeadTailOfSubSeq
<1>6. \A i \in (k + 1)..Len(P) : P[i] \in StoreSet
  BY <1>1, ElementOfSeq
<1>7. todo \in Seq(StoreSet)
  BY <1>1, <1>2, <1>6, SubSeqProperties
<1>8. Len(Tail(todo)) = Len(todo) - 1 /\ Len(todo) \in Nat
  BY <1>3, <1>7, HeadTailProperties, LenProperties
<1> QED
  BY <1>1, <1>4, <1>5, <1>8 DEF P, k

\* What a store makes of the PIO.
Stored(p, s) == [p EXCEPT ![s[1]] = s[2]]

LEMMA ReadMoves ==
    ASSUME BusTypes, Reads(call), NEW p \in Pins, NEW k \in 0..6, Lines(p, k)
    PROVE  /\ Program[k + 1] = Load <=> k = 4
           /\ k # 4 => Stored(p, Program[k + 1]) \in Pins
                       /\ Lines(Stored(p, Program[k + 1]), k + 1)
           /\ k = 4 => Lines(p, k + 1)
           /\ ~Drives(p)
<1> DEFINE a == call[2]
           s == Program[k + 1]
<1>1. a \in Addresses /\ call # Nothing
  BY CallParts
<1>2. Program = ReadStores(a)
  BY DEF Program
<1>3. k \in {0, 1, 2, 3, 4, 5, 6}
  OBVIOUS
<1>4. s = CASE k = 0 -> To("cs", Low) [] k = 1 -> To("wr", High)
            [] k = 2 -> To("addr", a) [] k = 3 -> To("rd", Low)
            [] k = 4 -> Load [] k = 5 -> To("rd", High) [] k = 6 -> To("cs", High)
  BY <1>2, <1>3 DEF ReadStores
<1> HIDE DEF s, a
<1>5. s = Load <=> k = 4
  BY <1>3, <1>4 DEF To, Load
<1>6. k # 4 => Stored(p, s) \in Pins
  BY <1>1, <1>3, <1>4 DEF Stored, Pins, To, Bit, Low, High
<1>7. k # 4 => Lines(Stored(p, s), k + 1)
  BY <1>1, <1>3, <1>4 DEF Stored, Pins, To, Bit, Low, High, Lines, a
<1>8. (k = 4 => Lines(p, k + 1)) /\ ~Drives(p)
  BY <1>1 DEF Lines, Drives, Low, High
<1> QED
  BY <1>5, <1>6, <1>7, <1>8 DEF s

LEMMA WriteMoves ==
    ASSUME BusTypes, Writes(call), NEW p \in Pins, NEW k \in 0..6, Lines(p, k)
    PROVE  /\ Program[k + 1] # Load
           /\ Stored(p, Program[k + 1]) \in Pins
           /\ Lines(Stored(p, Program[k + 1]), k + 1)
           /\ Drives(p) <=> k = 5
           /\ Drives(Stored(p, Program[k + 1])) <=> k = 4
<1> DEFINE a == call[2]
           d == call[3]
           s == Program[k + 1]
<1>1. a \in Addresses /\ d \in Values /\ call # Nothing /\ ~Reads(call)
  BY CallParts DEF Writes
<1>2. Program = WriteStores(a, d)
  BY <1>1 DEF Program
<1>3. k \in {0, 1, 2, 3, 4, 5, 6}
  OBVIOUS
<1>4. s = CASE k = 0 -> To("cs", Low) [] k = 1 -> To("rd", High)
            [] k = 2 -> To("addr", a) [] k = 3 -> To("data", d)
            [] k = 4 -> To("wr", Low) [] k = 5 -> To("wr", High) [] k = 6 -> To("cs", High)
  BY <1>2, <1>3 DEF WriteStores
<1> HIDE DEF s, a, d
<1>5. s # Load
  BY <1>3, <1>4 DEF To, Load
<1>6. Stored(p, s) \in Pins
  BY <1>1, <1>3, <1>4 DEF Stored, Pins, To, Bit, Low, High
<1>7. Lines(Stored(p, s), k + 1)
  BY <1>1, <1>3, <1>4 DEF Stored, Pins, To, Bit, Low, High, Lines, a, d
<1>8. (Drives(p) <=> k = 5) /\ (Drives(Stored(p, s)) <=> k = 4)
  BY <1>1, <1>3, <1>7 DEF Lines, Drives, Low, High
<1> QED
  BY <1>5, <1>6, <1>7, <1>8 DEF s

LEMMA InitMoves ==
    ASSUME BusTypes, call = Nothing, ~ready, NEW p \in Pins, NEW k \in 0..9, Lines(p, k)
    PROVE  /\ Program[k + 1] # Load
           /\ Stored(p, Program[k + 1]) \in Pins
           /\ Lines(Stored(p, Program[k + 1]), k + 1)
<1> DEFINE s == Program[k + 1]
<1>1. ~Reads(call)
  BY DEF Reads
<1>2. Program = InitStores
  BY <1>1 DEF Program
<1>3. k \in {0, 1, 2, 3, 4, 5, 6, 7, 8, 9}
  OBVIOUS
<1>4. /\ k \in {0, 8} => s = To("rst", High)
      /\ k \in {1, 9} => s = To("cs", High)
      /\ k = 2 => s = To("rd", High)
      /\ k = 3 => s = To("wr", High)
      /\ k = 4 => s = To("addr", First)
      /\ k = 5 => s = To("data", Zero)
      /\ k = 6 => s = To("cs", Low)
      /\ k = 7 => s = To("rst", Low)
  BY <1>2 DEF InitStores
<1> HIDE DEF s
<1>5. s # Load
  BY <1>3, <1>4 DEF To, Load
<1>6. Stored(p, s) \in Pins
  <2>1. CASE k \in {0, 1, 7, 8, 9}
    BY <1>4, <2>1 DEF Stored, Pins, To, Bit, Low, High
  <2>2. CASE k \in {2, 3, 6}
    BY <1>4, <2>2 DEF Stored, Pins, To, Bit, Low, High
  <2>3. CASE k \in {4, 5}
    BY <1>4, <2>3, Assumed DEF Stored, Pins, To
  <2> QED
    BY <1>3, <2>1, <2>2, <2>3
<1>7. Lines(Stored(p, s), k + 1)
  BY <1>3, <1>4 DEF Stored, Pins, To, Bit, Low, High, Lines
<1> QED
  BY <1>5, <1>6, <1>7 DEF s

-----------------------------------------------------------------------------
(* What a step has to do with the program's place. *)

LEMMA AllLowPins == AllLow \in Pins /\ AllLow.rst = Low /\ AllLow.wr = Low
BY Assumed DEF AllLow, Pins, Bit

\* Neither strobe reaches a chip that is being reset.
LEMMA AllLowQuiet == ~Reading(AllLow) /\ ~Writing(AllLow)
BY AllLowPins DEF Reading, Writing, Selected, Low, High

LEMMA DataLines == ASSUME BusTypes PROVE OTG_DATA \in Words
BY DEF BusTypes, TypeOK, OTG_DATA, Words, Pins

\* The program stays in its call, and so where it is in it.
LEMMA SamePlace ==
    ASSUME UNCHANGED <<call, ready>>
    PROVE  /\ Program' = Program
           /\ Reads(call)' <=> Reads(call)
           /\ Writes(call)' <=> Writes(call)
           /\ Lines(pio, Done)' <=> Lines(pio', Done')
           /\ Lines(pins, Done - 1)' <=> Lines(pins', Done' - 1)
BY DEF Program, Reads, Writes, Lines

LEMMA Advanced ==
    ASSUME BusTypes, OnTrack, todo # <<>>, todo' = Tail(todo), UNCHANGED <<call, ready>>
    PROVE  Done' = Done + 1 /\ OnTrack' /\ Len(todo') <= 10
<1>1. /\ Done \in 0..(Len(Program) - 1)
      /\ todo' = SubSeq(Program, Done + 2, Len(Program))
      /\ Len(todo') = Len(todo) - 1 /\ Len(todo) \in Nat
  BY NextStore
<1>2. Program' = Program
  BY SamePlace
<1>3. Len(Program) \in Int /\ Len(Program) <= 10
  <2>1. Len(Program) \in {0, 7, 10}
    BY ProgramParts
  <2>2. \A l \in {0, 7, 10} : l \in Int /\ l <= 10
    OBVIOUS
  <2> QED
    BY <2>1, <2>2, Zenon
<1>4. Done' = Done + 1
  BY <1>1, <1>2, <1>3 DEF Done
<1>5. Done + 1 + 1 = Done + 2 /\ Done + 1 \in 0..Len(Program)
  BY <1>1, <1>3
<1>6. Len(todo') <= 10
  BY <1>1, <1>3 DEF Done
<1> QED
  BY <1>1, <1>2, <1>4, <1>5, <1>6 DEF OnTrack

(* A store moves the PIO one place on; the pins stay behind until the next *)
(* clock edge.                                                             *)
LEMMA StoreMoves ==
    ASSUME BusTypes, PlaceInv, Store
    PROVE  /\ Done' = Done + 1 /\ OnTrack' /\ gap > 0
           /\ Reads(call) => Done \in 0..6 /\ Done # 4
           /\ Writes(call) => Done \in 0..6
           /\ call = Nothing => ~ready /\ Done \in 0..9
           /\ TypeOK' /\ Lines(pio, Done)'
           /\ Writes(call) /\ Done = 5 => held' = pins.data
<1>1. /\ gap = MinGap /\ todo # <<>> /\ Head(todo) # Load
      /\ pio' = [pio EXCEPT ![Head(todo)[1]] = Head(todo)[2]]
      /\ held' = IF Drives(pio) /\ ~Drives(pio') THEN OTG_DATA ELSE held
      /\ todo' = Tail(todo) /\ gap' = 0
      /\ UNCHANGED <<temp, ready, interface, Reset, strobe, register, history>>
  BY DEF Store, MayStore
<1>2. UNCHANGED <<temp, ready, pins, data_in, readdata, Reset, strobe, register,
                  call, landed, seen, disturbed, result>>
  BY <1>1 DEF interface, history
<1>3. Done' = Done + 1 /\ OnTrack' /\ Len(todo') <= 10
  BY <1>1, <1>2, Advanced DEF PlaceInv
<1>4. /\ Done \in 0..(Len(Program) - 1)
      /\ Head(todo) = Program[Done + 1]
  BY <1>1, NextStore DEF PlaceInv
<1>5. pio' = Stored(pio, Program[Done + 1]) /\ Program[Done + 1] # Load
  BY <1>1, <1>4 DEF Stored
<1>6. pio \in Pins /\ Lines(pio, Done) /\ gap > 0 /\ MinGap \in Nat
  BY <1>1, Assumed DEF BusTypes, TypeOK, PlaceInv
<1>7. /\ Reads(call) => Done \in 0..6 /\ Done # 4
      /\ Writes(call) => Done \in 0..6
      /\ call = Nothing => ~ready /\ Done \in 0..9
      /\ pio' \in Pins /\ Lines(pio', Done + 1)
      /\ Writes(call) => (Drives(pio) <=> Done = 5) /\ (Drives(pio') <=> Done = 4)
  <2>1. CASE Reads(call)
    <3>1. Len(Program) = 7 /\ ~Writes(call) /\ call # Nothing
      BY <2>1, CallParts, ProgramParts
    <3>2. Done \in 0..6
      BY <1>4, <3>1
    <3> QED
      BY <1>5, <1>6, <2>1, <3>1, <3>2, ReadMoves
  <2>2. CASE Writes(call)
    <3>1. Len(Program) = 7 /\ ~Reads(call) /\ call # Nothing
      BY <2>2, CallParts, ProgramParts DEF Writes
    <3>2. Done \in 0..6
      BY <1>4, <3>1
    <3> QED
      BY <1>5, <1>6, <2>2, <3>1, <3>2, WriteMoves
  <2>3. CASE call = Nothing
    <3>1. Len(Program) = IF ready THEN 0 ELSE 10
      BY <2>3, ProgramParts
    <3>2. ~ready /\ Done \in 0..9
      BY <1>4, <3>1
    <3> QED
      BY <1>5, <1>6, <2>3, <3>2, InitMoves DEF Reads, Writes
  <2> QED
    BY <2>1, <2>2, <2>3, CallParts
<1>8. Lines(pio, Done)'
  BY <1>2, <1>3, <1>7, SamePlace
<1>9. held' \in Words
  BY <1>1, DataLines DEF BusTypes, TypeOK
<1>10. TypeOK'
  <2>1. gap' \in 0..MinGap
    BY <1>1, <1>6
  <2> QED
    BY <1>2, <1>3, <1>7, <1>9, <2>1 DEF BusTypes, TypeOK
<1>11. Writes(call) /\ Done = 5 => held' = pins.data
  <2> SUFFICES ASSUME Writes(call), Done = 5 PROVE held' = pins.data
    OBVIOUS
  <2>1. Drives(pio) /\ ~Drives(pio')
    BY <1>7
  <2>2. pins = AllLow \/ pins = pio
    BY <1>6 DEF PlaceInv, PinsFollow
  <2>3. ~Reading(pio)
    BY <1>6, CallParts DEF Lines, Reading, Low, High
  <2>4. OTG_DATA = pins.data
    BY <2>1, <2>2, <2>3, AllLowQuiet DEF OTG_DATA
  <2> QED
    BY <1>1, <2>1, <2>4
<1> QED
  BY <1>3, <1>6, <1>7, <1>8, <1>10, <1>11

LEMMA StorePlace == ASSUME BusTypes, PlaceInv, Store PROVE BusTypes' /\ PlaceInv'
<1>1. /\ Done' = Done + 1 /\ OnTrack' /\ gap > 0 /\ Done \in Nat
      /\ TypeOK' /\ Lines(pio, Done)'
      /\ Writes(call) /\ Done = 5 => held' = pins.data
  BY StoreMoves, CallParts
<1>2. gap' = 0 /\ UNCHANGED <<pins, call, ready, disturbed>>
  BY DEF Store, interface, history
<1>3. PinsFollow'
  <2>1. pins = AllLow \/ pins = pio
    BY <1>1 DEF PlaceInv, PinsFollow
  <2>2. pins = pio => Lines(pins', Done' - 1)
    BY <1>1, <1>2 DEF PlaceInv
  <2> QED
    BY <1>1, <1>2, <2>1, <2>2, SamePlace DEF PinsFollow, AllLow
<1>4. WordHeld'
  BY <1>1, <1>2, SamePlace DEF WordHeld
<1> QED
  BY <1>1, <1>2, <1>3, <1>4 DEF BusTypes, PlaceInv

LEMMA StoreCall == ASSUME BusInv, Store PROVE CallInv'
<1>1. /\ Done' = Done + 1 /\ gap > 0
      /\ Reads(call) => Done \in 0..6 /\ Done # 4
      /\ Writes(call) => Done \in 0..6
      /\ call = Nothing => ~ready /\ Done \in 0..9
      /\ Done \in Nat
  BY StoreMoves, CallParts DEF BusInv
<1>2. gap = MinGap /\ gap' = 0
      /\ UNCHANGED <<temp, ready, pins, data_in, readdata, Reset, strobe, register,
                     call, landed, seen, disturbed, result>>
  BY DEF Store, MayStore, interface, history
<1>3. (Reads(call)' <=> Reads(call)) /\ (Writes(call)' <=> Writes(call))
  BY <1>2, SamePlace
<1> USE DEF BusInv, CallInv
<1>4. HistoryOK'
  BY <1>2, <1>3 DEF HistoryOK
<1>5. NoReset'
  <2>1. Undisturbed /\ Done' > 1 => Lines(pins', Done' - 1)
    BY <1>1, <1>2 DEF NoReset, PlaceInv
  <2> QED
    BY <1>2, <2>1, SamePlace DEF NoReset, Undisturbed
<1>6. LongEnough'
  <2>1. strobe \in 0..Access /\ MinGap - 1 > Access
    BY Assumed DEF BusTypes, TypeOK
  <2>2. Undisturbed /\ Writes(call) /\ Done' = 6 => strobe = Access
    BY <1>1, <1>2, <2>1, Assumed DEF LongEnough, Reads, Writes
  <2> QED
    BY <1>2, <1>3, <2>2 DEF LongEnough, Undisturbed
<1>7. Answer'
  BY <1>1, <1>2, <1>3, Assumed DEF Answer, Undisturbed
<1>8. TakenOnce'
  BY <1>1, <1>2, <1>3 DEF TakenOnce, Undisturbed
<1>9. InitClears'
  BY <1>1, <1>2 DEF InitClears, Cleared
<1> QED
  BY <1>4, <1>5, <1>6, <1>7, <1>8, <1>9

(* The load of a read: readdata has had its two edges since the chip       *)
(* answered.                                                               *)
LEMMA LoadKeeps == ASSUME BusInv, LoadData PROVE BusInv'
<1>1. /\ gap = MinGap /\ gap' = 0 /\ todo # <<>> /\ Head(todo) = Load
      /\ temp' = readdata /\ todo' = Tail(todo)
      /\ UNCHANGED <<pio, ready, pins, data_in, readdata, Reset, held, strobe, register,
                     call, landed, seen, disturbed, result>>
  BY DEF LoadData, MayStore, interface, history
<1>2. Done' = Done + 1 /\ OnTrack' /\ Len(todo') <= 10
  BY <1>1, Advanced DEF BusInv, PlaceInv
<1>3. /\ Done \in 0..(Len(Program) - 1) /\ Program[Done + 1] = Load
      /\ pio \in Pins /\ Lines(pio, Done) /\ MinGap \in Nat /\ gap > 0
  BY <1>1, NextStore, Assumed DEF BusInv, BusTypes, TypeOK, PlaceInv
<1>4. Reads(call) /\ Done = 4 /\ Lines(pio, Done + 1)
  <2>1. CASE Reads(call)
    <3>1. Len(Program) = 7
      BY <2>1, CallParts, ProgramParts DEF BusInv
    <3>2. Done \in 0..6
      BY <1>3, <3>1
    <3> QED
      BY <1>3, <2>1, <3>2, ReadMoves DEF BusInv
  <2>2. CASE Writes(call)
    <3>1. Len(Program) = 7
      BY <2>2, CallParts, ProgramParts DEF BusInv, Writes
    <3>2. Done \in 0..6
      BY <1>3, <3>1
    <3> QED
      BY <1>3, <2>2, <3>2, WriteMoves DEF BusInv
  <2>3. CASE call = Nothing
    <3>1. Len(Program) = IF ready THEN 0 ELSE 10
      BY <2>3, ProgramParts DEF BusInv
    <3>2. ~ready /\ Done \in 0..9
      BY <1>3, <3>1
    <3> QED
      BY <1>3, <2>3, <3>2, InitMoves DEF BusInv
  <2> QED
    BY <2>1, <2>2, <2>3, CallParts DEF BusInv
<1>5. ~Writes(call) /\ call # Nothing
  BY <1>4, CallParts DEF BusInv
<1>6. (Reads(call)' <=> Reads(call)) /\ (Writes(call)' <=> Writes(call))
  BY <1>1, SamePlace
<1>7. BusTypes'
  <2>1. gap' \in 0..MinGap
    BY <1>1, <1>3
  <2> QED
    BY <1>1, <1>2, <2>1 DEF BusInv, BusTypes, TypeOK
<1>8. PlaceInv'
  <2>1. Lines(pio, Done)'
    BY <1>1, <1>2, <1>4, SamePlace
  <2>2. pins = AllLow \/ pins = pio
    BY <1>3 DEF BusInv, PlaceInv, PinsFollow
  <2>3. PinsFollow'
    BY <1>1, <1>2, <1>3, <1>4, <2>2, SamePlace DEF PinsFollow, AllLow
  <2> QED
    BY <1>2, <1>5, <1>6, <2>1, <2>3 DEF PlaceInv, WordHeld
<1>9. HistoryOK' /\ NoReset' /\ LongEnough' /\ TakenOnce' /\ InitClears'
  <2>1. HistoryOK'
    BY <1>1, <1>6 DEF BusInv, CallInv, HistoryOK
  <2>2. Undisturbed => Lines(pins', Done' - 1)
    BY <1>1, <1>2, <1>3, <1>4 DEF BusInv, CallInv, NoReset
  <2>3. NoReset'
    BY <1>1, <2>2, SamePlace DEF BusInv, CallInv, NoReset, Undisturbed
  <2> QED
    BY <1>1, <1>2, <1>4, <1>5, <1>6, <2>1, <2>3
       DEF BusInv, CallInv, LongEnough, TakenOnce, InitClears, HistoryOK, Undisturbed
<1>10. Answer'
  BY <1>1, <1>2, <1>4, <1>6, Assumed DEF BusInv, CallInv, Answer, Undisturbed
<1> QED
  BY <1>7, <1>8, <1>9, <1>10 DEF BusInv, CallInv

(* KEY[0] disturbs the call it comes in.                                   *)
LEMMA Key0Keeps == ASSUME BusInv, Key0 PROVE BusInv'
<1>1. /\ Reset' = ~Reset /\ disturbed' = (call # Nothing)
      /\ UNCHANGED <<todo, temp, gap, pio, ready, pins, data_in, readdata, held, strobe,
                     register, call, landed, seen, result>>
  BY DEF Key0, software, interface
<1>2. Program' = Program /\ Done' = Done
      /\ (Reads(call)' <=> Reads(call)) /\ (Writes(call)' <=> Writes(call))
  BY <1>1, SamePlace DEF Done
<1>3. BusTypes'
  BY <1>1 DEF BusInv, BusTypes, TypeOK
<1>4. PlaceInv'
  BY <1>1, <1>2, SamePlace DEF BusInv, PlaceInv, OnTrack, PinsFollow, WordHeld, AllLow
<1>5. ~Undisturbed'
  BY <1>1 DEF Undisturbed
<1>6. HistoryOK' /\ InitClears'
  BY <1>1, <1>2 DEF BusInv, CallInv, HistoryOK, InitClears, Cleared
<1> QED
  BY <1>3, <1>4, <1>5, <1>6
     DEF BusInv, CallInv, NoReset, LongEnough, Answer, TakenOnce

(* The chip's own changes are seen by a read in progress.                  *)
LEMMA ChipSetsKeeps ==
    ASSUME BusInv, NEW a \in Addresses, NEW v \in Values, ChipSets(a, v)
    PROVE  BusInv'
<1>1. /\ ready /\ register' = [register EXCEPT ![a] = v] /\ seen' = Noticed(register')
      /\ UNCHANGED <<todo, temp, gap, pio, ready, pins, data_in, readdata, Reset, held,
                     strobe, call, landed, disturbed, result>>
  BY DEF ChipSets, software, interface
<1>2. Program' = Program /\ Done' = Done
      /\ (Reads(call)' <=> Reads(call)) /\ (Writes(call)' <=> Writes(call))
  BY <1>1, SamePlace DEF Done
<1>3. BusTypes'
  BY <1>1 DEF BusInv, BusTypes, TypeOK, Words
<1>4. PlaceInv'
  BY <1>1, <1>2, SamePlace DEF BusInv, PlaceInv, OnTrack, PinsFollow, WordHeld, AllLow
<1>5. Undisturbed' <=> Undisturbed
  BY <1>1 DEF Undisturbed
<1>6. HistoryOK' /\ seen \subseteq seen'
  BY <1>1, <1>2 DEF BusInv, CallInv, HistoryOK, Noticed
<1>7. NoReset'
  BY <1>1, <1>2, <1>5, SamePlace DEF BusInv, CallInv, NoReset
<1>8. LongEnough' /\ TakenOnce' /\ InitClears'
  BY <1>1, <1>2, <1>5 DEF BusInv, CallInv, LongEnough, TakenOnce, InitClears
<1>9. Answer'
  BY <1>1, <1>2, <1>5, <1>6 DEF BusInv, CallInv, Answer
<1> QED
  BY <1>3, <1>4, <1>6, <1>7, <1>8, <1>9 DEF BusInv, CallInv

(* A call begins with all its stores still to make.                        *)
LEMMA CallBegins ==
    ASSUME BusInv, (\E a \in Addresses : IO_read(a))
                   \/ (\E a \in Addresses, d \in Values : IO_write(a, d))
    PROVE  BusInv'
<1>1. /\ ready /\ todo = <<>> /\ call = Nothing /\ gap = MinGap
      /\ landed' = 0 /\ disturbed' = Reset
      /\ UNCHANGED <<temp, gap, pio, ready, pins, data_in, readdata, Reset, held, strobe,
                     register, result>>
  BY DEF IO_read, IO_write, Idle, MayStore, interface
<1>2. PICK a \in Addresses, d \in Values :
         \/ call' = <<"read", a, Zero>> /\ todo' = ReadStores(a) /\ seen' = {register[a]}
         \/ call' = <<"write", a, d>> /\ todo' = WriteStores(a, d) /\ seen' = {}
  BY Assumed DEF IO_read, IO_write
<1>3. /\ call' \in Calls /\ call' # Nothing
      /\ call'[2] = a
      /\ Reads(call)' => call' = <<"read", a, Zero>>
      /\ Writes(call)' => call' = <<"write", a, d>>
      /\ Reads(call)' <=> ~Writes(call)'
  BY <1>2, Assumed DEF Calls, Reads, Writes
<1>4. todo' = Program' /\ Program' \in Seq(StoreSet) /\ Len(Program') = 7
  <2>1. CASE Reads(call)'
    <3>1. call' = <<"read", a, Zero>> /\ todo' = ReadStores(a)
      BY <1>2, <1>3, <2>1
    <3> QED
      BY <2>1, <3>1, Sequences, Assumed DEF Program
  <2>2. CASE Writes(call)'
    <3>1. call' = <<"write", a, d>> /\ todo' = WriteStores(a, d) /\ ~Reads(call)'
      BY <1>2, <1>3, <2>2
    <3> QED
      BY <1>3, <3>1, Sequences DEF Program
  <2> QED
    BY <1>3, <2>1, <2>2
<1>5. Done' = 0 /\ OnTrack' /\ Len(todo') <= 10
  <2>1. Done' = 0 /\ Len(todo') <= 10
    BY <1>4 DEF Done
  <2>2. SubSeq(Program', 1, Len(Program')) = Program'
    BY <1>4, SubSeqFull
  <2> QED
    BY <1>4, <2>1, <2>2 DEF OnTrack
<1>6. BusTypes'
  BY <1>1, <1>3, <1>5 DEF BusInv, BusTypes, TypeOK
<1>7. PlaceInv'
  <2>1. Lines(pio, Done)'
    BY <1>1, <1>3, <1>5 DEF BusInv, PlaceInv, Lines
  <2>2. gap' > 0 /\ MinGap \in Nat
    BY <1>1, Assumed
  <2>3. PinsFollow'
    BY <1>1, <2>2 DEF BusInv, PlaceInv, PinsFollow, AllLow
  <2> QED
    BY <1>5, <2>1, <2>3 DEF PlaceInv, WordHeld
<1>8. HistoryOK'
  BY <1>1, <1>2, <1>3 DEF HistoryOK, Reads, Writes
<1>9. NoReset' /\ LongEnough' /\ Answer' /\ TakenOnce' /\ InitClears'
  BY <1>1, <1>5 DEF NoReset, LongEnough, Answer, TakenOnce, InitClears, Undisturbed
<1> QED
  BY <1>6, <1>7, <1>8, <1>9 DEF BusInv, CallInv

(* When all stores have been made the PIO is at rest.                      *)
LEMMA AtEnd ==
    ASSUME BusInv, todo = <<>>
    PROVE  /\ Done = Len(Program)
           /\ call # Nothing => Done = 7
           /\ call = Nothing /\ ~ready => Done = 10
           /\ pio.rst = High /\ pio.cs = High /\ pio.rd = High /\ pio.wr = High
<1>1. Len(todo) = 0
  OBVIOUS
<1>2. Len(Program) \in {0, 7, 10}
  BY ProgramParts DEF BusInv
<1>3. \A l \in {0, 7, 10} : l - 0 = l
  OBVIOUS
<1>4. Done = Len(Program)
  BY <1>1, <1>2, <1>3 DEF Done
<1>5. (call # Nothing => Done = 7) /\ (call = Nothing /\ ~ready => Done = 10)
  BY <1>4, ProgramParts DEF BusInv
<1>6. Lines(pio, Done)
  BY DEF BusInv, PlaceInv
<1> DEFINE AtRest == pio.rst = High /\ pio.cs = High /\ pio.rd = High /\ pio.wr = High
<1>7. Lines(pio, 7) /\ call # Nothing => AtRest
  BY DEF Lines
<1>8. Lines(pio, 10) /\ call = Nothing /\ ~ready => AtRest
  BY DEF Lines
<1>9. Lines(pio, Done) /\ call = Nothing /\ ready => AtRest
  BY DEF Lines
<1> HIDE DEF AtRest
<1>10. AtRest
  BY <1>5, <1>6, <1>7, <1>8, <1>9, Zenon
<1> QED
  BY <1>4, <1>5, <1>10 DEF AtRest

LEMMA ReturnKeeps == ASSUME BusInv, Return PROVE BusInv'
<1>1. /\ todo = <<>> /\ gap = MinGap /\ ready' = TRUE /\ temp' = Zero
      /\ call' = Nothing /\ landed' = 0 /\ seen' = {} /\ disturbed' = FALSE
      /\ UNCHANGED <<todo, gap, pio, pins, data_in, readdata, Reset, held, strobe, register>>
  BY DEF Return, MayStore, interface
<1>2. ~Reads(call)' /\ ~Writes(call)' /\ Program' = <<>>
  BY <1>1 DEF Program, Reads, Writes
<1>3. Done' = 0 /\ OnTrack'
  <2>1. Done' = 0
    BY <1>1, <1>2 DEF Done
  <2>2. SubSeq(<<>>, 1, 0) = <<>>
    BY SubSeqEmpty
  <2> QED
    BY <1>1, <1>2, <2>1, <2>2 DEF OnTrack
<1>4. BusTypes'
  BY <1>1, Assumed DEF BusInv, BusTypes, TypeOK, Words
<1>5. PlaceInv'
  <2>1. Lines(pio, Done)'
    BY <1>1, AtEnd DEF Lines
  <2>2. gap' > 0 /\ MinGap \in Nat
    BY <1>1, Assumed
  <2>3. PinsFollow'
    BY <1>1, <2>2 DEF BusInv, PlaceInv, PinsFollow, AllLow
  <2> QED
    BY <1>2, <1>3, <2>1, <2>3 DEF PlaceInv, WordHeld
<1>6. CallInv'
  BY <1>1, <1>2
     DEF CallInv, HistoryOK, NoReset, LongEnough, Answer, TakenOnce, InitClears, Undisturbed
<1> QED
  BY <1>4, <1>5, <1>6 DEF BusInv

-----------------------------------------------------------------------------
(* Clock edges. *)

LEMMA EdgeParts ==
    ASSUME BusInv, Edge
    PROVE  /\ UNCHANGED <<todo, temp, pio, ready, Reset, call, disturbed, result>>
           /\ pins' = NextPins /\ gap' = (IF gap < MinGap THEN gap + 1 ELSE gap)
           /\ gap \in Nat /\ gap' \in 1..MinGap
           /\ Program' = Program /\ Done' = Done
           /\ (Reads(call)' <=> Reads(call)) /\ (Writes(call)' <=> Writes(call))
           /\ seen \subseteq seen'
           /\ pins \in Pins /\ pio \in Pins
<1>1. /\ UNCHANGED <<todo, temp, pio, ready, Reset, call, disturbed, result>>
      /\ pins' = NextPins /\ gap' = (IF gap < MinGap THEN gap + 1 ELSE gap)
      /\ seen' = Noticed(register')
  BY DEF Edge
<1>2. gap \in Nat /\ gap' \in 1..MinGap
  BY <1>1, Assumed DEF BusInv, BusTypes, TypeOK
<1>3. Program' = Program /\ Done' = Done
      /\ (Reads(call)' <=> Reads(call)) /\ (Writes(call)' <=> Writes(call))
  BY <1>1, SamePlace DEF Done
<1>4. seen \subseteq seen'
  BY <1>1 DEF BusInv, CallInv, HistoryOK, Noticed
<1> QED
  BY <1>1, <1>2, <1>3, <1>4 DEF BusInv, BusTypes, TypeOK

LEMMA EdgePlace == ASSUME BusInv, Edge PROVE BusTypes' /\ PlaceInv'
<1>1. /\ UNCHANGED <<todo, temp, pio, ready, Reset, call, disturbed>>
      /\ pins' = NextPins /\ gap' \in 1..MinGap /\ Done' = Done /\ Program' = Program
      /\ pins \in Pins /\ pio \in Pins
  BY EdgeParts
<1>2. /\ data_in' = IF Reset THEN Zero ELSE OTG_DATA
      /\ readdata' = data_in
      /\ held' = IF Drives(pio) THEN held ELSE Unknown
      /\ strobe' = IF pins' = pins /\ (Reading(pins) \/ Writing(pins))
                   THEN IF strobe < Access THEN strobe + 1 ELSE strobe
                   ELSE 0
      /\ register' = IF NextPins.rst = Low THEN [a \in Addresses |-> Zero]
                     ELSE IF Takes THEN [register EXCEPT ![pins.addr] = Word]
                     ELSE register
  BY DEF Edge
<1>3. NextPins \in Pins /\ (NextPins = AllLow \/ NextPins = pio)
  BY <1>1, AllLowPins DEF NextPins, ForcedPins
<1>4. OTG_DATA \in Words /\ Word \in Words /\ Zero \in Words
  BY DataLines, Assumed DEF BusInv, Word, Words
<1>5. register' \in [Addresses -> Words] /\ strobe' \in 0..Access
  <2>1. pins.addr \in Addresses
    BY <1>1 DEF Pins
  <2> QED
    BY <1>2, <1>4, <2>1, Assumed DEF BusInv, BusTypes, TypeOK
<1>6. TypeOK'
  <2>1. gap' \in 0..MinGap
    BY <1>1, Assumed
  <2>2. held' \in Words /\ data_in' \in Words /\ readdata' \in Words
    BY <1>2, <1>4 DEF BusInv, BusTypes, TypeOK, Words
  <2> QED
    BY <1>1, <1>3, <1>5, <2>1, <2>2 DEF BusInv, BusTypes, TypeOK
<1>7. BusTypes'
  BY <1>1, <1>6 DEF BusInv, BusTypes
<1>8. PlaceInv'
  <2>1. gap' > 0
    BY <1>1, Assumed
  <2>2. Lines(pio, Done)'
    BY <1>1, SamePlace DEF BusInv, PlaceInv
  <2>3. PinsFollow' /\ WordHeld'
    BY <1>1, <1>3, <2>1 DEF PinsFollow, WordHeld, AllLow
  <2> QED
    BY <1>1, <2>2, <2>3 DEF BusInv, PlaceInv, OnTrack
<1> QED
  BY <1>7, <1>8

(* The chip takes a word only at the first edge after the store that ends  *)
(* the write strobe, and then it is the word of the call.                  *)
LEMMA TakesWhen ==
    ASSUME BusInv, Takes
    PROVE  /\ ready => Writes(call) /\ Done = 6 /\ gap = 0
                       /\ pins.addr = call[2] /\ pins.data = call[3] /\ held = pins.data
           /\ ~ready => Done < 8
           /\ ~Reset
<1>1. /\ Writing(pins) /\ ~Writing(NextPins) /\ NextPins.rst = High
      /\ pins # AllLow /\ ~Reset /\ NextPins = pio
  BY AllLowPins, AllLowQuiet DEF Takes, NextPins, ForcedPins, Low, High
<1>2. pins # pio
  BY <1>1
<1>3. gap = 0 /\ Done > 0 /\ Lines(pins, Done - 1)
  BY <1>1, <1>2 DEF BusInv, PlaceInv, PinsFollow
<1>4. pins.wr = Low /\ pins.cs = Low /\ pins.rst = High
  BY <1>1 DEF Writing, Selected
<1>5. Done \in Nat
  BY ProgramParts DEF BusInv, PlaceInv, OnTrack
<1>6. ready => call # Nothing /\ ~Reads(call) /\ Done = 6
  BY <1>3, <1>4, <1>5 DEF Lines, Low, High
<1>7. ready => pins.addr = call[2] /\ pins.data = call[3]
  BY <1>3, <1>6 DEF Lines
<1>8. ready => Writes(call)
  BY <1>6, CallParts DEF BusInv
<1>9. ready => held = pins.data
  BY <1>3, <1>6, <1>8 DEF BusInv, PlaceInv, WordHeld
<1>10. ~ready => Done < 8
  <2>1. ~ready => call = Nothing
    BY DEF BusInv, CallInv, HistoryOK
  <2> QED
    BY <1>3, <1>4, <1>5, <2>1 DEF Lines, Low, High
<1> QED
  BY <1>1, <1>3, <1>6, <1>7, <1>8, <1>9, <1>10

(* What the chip answers a read and how long the strobe has lasted.        *)
LEMMA StrobeLasts ==
    ASSUME BusInv, Edge, Undisturbed, gap > 0, Done = (IF Reads(call) THEN 4 ELSE 5)
    PROVE  /\ pins = pio /\ pins' = pio
           /\ strobe' = IF strobe < Access THEN strobe + 1 ELSE strobe
           /\ Reads(call) => ~Drives(pio) /\ Reading(pins) /\ pins.addr = call[2]
<1>1. ~Reset /\ pins = pio /\ call # Nothing
  BY DEF BusInv, CallInv, NoReset, Undisturbed
<1>2. pins' = pio
  BY <1>1 DEF Edge, NextPins
<1>3. Lines(pio, Done)
  BY DEF BusInv, PlaceInv
<1>4. CASE Reads(call)
  <2>1. /\ pio.rst = High /\ pio.cs = Low /\ pio.rd = Low /\ pio.wr = High
        /\ pio.addr = call[2]
    BY <1>1, <1>3, <1>4 DEF Lines
  <2>2. ~Drives(pio) /\ Reading(pins) /\ pins.addr = call[2]
    BY <1>1, <2>1 DEF Drives, Reading, Selected, Low, High
  <2> QED
    BY <1>1, <1>2, <2>2 DEF Edge
<1>5. CASE ~Reads(call)
  <2>1. pio.rst = High /\ pio.cs = Low /\ pio.wr = Low
    BY <1>1, <1>3, <1>5 DEF Lines
  <2>2. Writing(pins)
    BY <1>1, <2>1 DEF Writing, Selected
  <2> QED
    BY <1>1, <1>2, <1>5, <2>2 DEF Edge
<1> QED
  BY <1>4, <1>5

LEMMA EdgeCall == ASSUME BusInv, Edge PROVE CallInv'
<1>1. /\ UNCHANGED <<todo, temp, pio, ready, Reset, call, disturbed, result>>
      /\ pins' = NextPins /\ gap' = (IF gap < MinGap THEN gap + 1 ELSE gap)
      /\ gap \in Nat /\ gap' \in 1..MinGap /\ Done' = Done
      /\ (Reads(call)' <=> Reads(call)) /\ (Writes(call)' <=> Writes(call))
      /\ seen \subseteq seen'
  BY EdgeParts
<1>2. Undisturbed' <=> Undisturbed
  BY <1>1 DEF Undisturbed
<1>3. strobe \in 0..Access /\ strobe' \in 0..Access
  BY EdgePlace DEF BusInv, BusTypes, TypeOK
<1>4. Writes(call) => ~Reads(call)
  BY CallParts DEF BusInv
<1>5. gap' > 0 /\ MinGap \in Nat /\ Access \in Nat /\ Access > 0 /\ MinGap >= Access + 3
  BY <1>1, Assumed
<1>6. HistoryOK'
  <2>1. seen' = Noticed(register')
    BY DEF Edge
  <2> QED
    BY <1>1, <2>1 DEF BusInv, CallInv, HistoryOK, Noticed
<1>7. NoReset'
  BY <1>1, <1>2, <1>5 DEF BusInv, CallInv, NoReset, NextPins
<1>8. LongEnough'
  <2> SUFFICES ASSUME Undisturbed, Done = (IF Reads(call) THEN 4 ELSE 5)
               PROVE  strobe' >= gap' - 1 \/ strobe' = Access
    BY <1>1, <1>2, <1>5 DEF LongEnough
  <2>1. CASE gap = 0
    BY <1>1, <1>3, <1>5, <2>1
  <2>2. CASE gap > 0
    <3>1. strobe >= gap - 1 \/ strobe = Access
      BY <2>2 DEF BusInv, CallInv, LongEnough
    <3>2. strobe' = IF strobe < Access THEN strobe + 1 ELSE strobe
      BY <2>2, StrobeLasts
    <3> QED
      BY <1>1, <1>3, <1>5, <3>1, <3>2
  <2> QED
    BY <1>1, <2>1, <2>2
<1>9. Answer'
  <2>1. Undisturbed /\ Reads(call) /\ Done = 4 /\ gap' >= Access + 2 => data_in' \in seen'
    <3> SUFFICES ASSUME Undisturbed, Reads(call), Done = 4, gap' >= Access + 2
                 PROVE  data_in' \in seen
      BY <1>1
    <3>1. gap >= Access + 1
      BY <1>1, <1>5
    <3>2. gap > 0 /\ gap - 1 >= Access
      BY <1>1, <1>5, <3>1
    <3>3. strobe >= gap - 1 \/ strobe = Access
      BY <3>2 DEF BusInv, CallInv, LongEnough
    <3>4. strobe = Access
      BY <1>1, <1>3, <1>5, <3>2, <3>3
    <3>5. ~Drives(pio) /\ Reading(pins) /\ pins.addr = call[2]
      BY <3>2, StrobeLasts
    <3>6. OTG_DATA = register[call[2]]
      BY <1>5, <3>4, <3>5 DEF OTG_DATA
    <3>7. ~Reset
      BY DEF BusInv, CallInv, NoReset
    <3> QED
      BY <3>6, <3>7 DEF Edge, BusInv, CallInv, HistoryOK
  <2>2. Undisturbed /\ Reads(call) /\ Done = 4 /\ gap' >= Access + 3 => readdata' \in seen'
    <3> SUFFICES ASSUME Undisturbed, Reads(call), Done = 4, gap' >= Access + 3
                 PROVE  readdata' \in seen
      BY <1>1
    <3>1. gap >= Access + 2
      BY <1>1, <1>5
    <3>2. data_in \in seen
      BY <3>1 DEF BusInv, CallInv, Answer
    <3> QED
      BY <3>2 DEF Edge
  <2>3. Undisturbed /\ Reads(call) /\ Done > 4 => temp' \in seen'
    BY <1>1 DEF BusInv, CallInv, Answer
  <2> QED
    BY <1>1, <1>2, <2>1, <2>2, <2>3 DEF Answer
<1>10. TakenOnce'
  <2> SUFFICES ASSUME Undisturbed, Writes(call)
               PROVE  landed' = IF Done \in {6, 7} THEN 1 ELSE 0
    BY <1>1, <1>2, <1>5 DEF TakenOnce
  <2>1. landed' = IF Takes THEN landed + 1 ELSE landed
    BY DEF Edge
  <2>2. landed = IF Done = 7 \/ (Done = 6 /\ gap > 0) THEN 1 ELSE 0
    BY DEF BusInv, CallInv, TakenOnce
  <2>3. Takes <=> Done = 6 /\ gap = 0
    <3>1. Takes => Done = 6 /\ gap = 0
      BY TakesWhen DEF BusInv, CallInv, HistoryOK, Undisturbed
    <3>2. ASSUME Done = 6, gap = 0 PROVE Takes
      <4>1. ~Reset /\ Lines(pins, 5) /\ Lines(pio, 6) /\ call # Nothing
        BY <3>2 DEF BusInv, CallInv, PlaceInv, NoReset, Undisturbed
      <4>2. /\ pins.rst = High /\ pins.cs = Low /\ pins.wr = Low
            /\ pio.rst = High /\ pio.wr = High
        BY <1>4, <4>1 DEF Lines
      <4> QED
        BY <4>1, <4>2 DEF Takes, Writing, Selected, NextPins, Low, High
    <3> QED
      BY <3>1, <3>2
  <2> QED
    BY <1>1, <2>1, <2>2, <2>3
<1>11. InitClears'
  <2> SUFFICES ASSUME ~ready, Done >= 8 PROVE register' = Cleared
    <3>1. Done \in Nat
      BY ProgramParts DEF BusInv, PlaceInv, OnTrack
    <3> QED
      BY <1>1, <3>1 DEF InitClears, Cleared
  <2>1. ~Takes /\ Done \in Nat
    BY TakesWhen, ProgramParts DEF BusInv, PlaceInv, OnTrack
  <2>2. CASE NextPins.rst = Low
    BY <2>2 DEF Edge, Cleared
  <2>3. CASE NextPins.rst # Low
    <3>1. NextPins = pio
      BY <2>3, AllLowPins DEF NextPins, ForcedPins
    <3>2. call = Nothing /\ Lines(pio, Done)
      BY DEF BusInv, CallInv, HistoryOK, PlaceInv
    <3>3. Done # 8
      BY <2>3, <3>1, <3>2 DEF Lines
    <3>4. register = Cleared
      BY <2>1, <3>3 DEF BusInv, CallInv, InitClears
    <3> QED
      BY <2>1, <2>3, <3>4 DEF Edge
  <2> QED
    BY <2>2, <2>3
<1> QED
  BY <1>6, <1>7, <1>8, <1>9, <1>10, <1>11 DEF CallInv

-----------------------------------------------------------------------------
LEMMA BusStart == Init => BusInv
<1> SUFFICES ASSUME Init PROVE BusInv
  OBVIOUS
<1>1. /\ todo = InitStores /\ temp = Zero /\ gap = MinGap /\ pio = AllLow /\ ready = FALSE
      /\ pins = AllLow /\ data_in = Zero /\ readdata = Zero /\ Reset = FALSE
      /\ held = Unknown /\ strobe = 0 /\ register = [a \in Addresses |-> Zero]
      /\ call = Nothing /\ landed = 0 /\ seen = {} /\ disturbed = FALSE
  BY DEF Init
<1>2. ~Reads(call) /\ ~Writes(call) /\ Program = InitStores
  BY <1>1 DEF Reads, Writes, Program
<1>3. Done = 0 /\ OnTrack
  <2>1. Done = 0
    BY <1>1, <1>2, Sequences, Assumed DEF Done
  <2>2. SubSeq(InitStores, 1, Len(InitStores)) = InitStores /\ Len(InitStores) = 10
    BY Sequences, Assumed, SubSeqFull
  <2> QED
    BY <1>1, <1>2, <2>1, <2>2 DEF OnTrack
<1>4. BusTypes
  <2>1. Len(todo) <= 10
    <3>1. Len(todo) = 10
      BY <1>1, Sequences, Assumed
    <3>2. 10 <= 10
      OBVIOUS
    <3> QED
      BY <3>1, <3>2, Zenon
  <2>2. gap \in 0..MinGap /\ strobe \in 0..Access
    BY <1>1, Assumed
  <2>3. Zero \in Words /\ Unknown \in Words
    BY Assumed DEF Words
  <2>4. register \in [Addresses -> Words]
    BY <1>1, <2>3
  <2>5. pio \in Pins /\ pins \in Pins
    BY <1>1, AllLowPins
  <2> QED
    BY <1>1, <2>1, <2>2, <2>3, <2>4, <2>5 DEF BusTypes, TypeOK
<1>5. Lines(pio, 0)
  BY <1>1 DEF Lines, AllLow
<1>6. PlaceInv
  BY <1>1, <1>2, <1>3, <1>5 DEF PlaceInv, PinsFollow, WordHeld
<1>7. CallInv
  BY <1>1, <1>2, <1>3
     DEF CallInv, HistoryOK, NoReset, LongEnough, Answer, TakenOnce, InitClears, Undisturbed
<1> QED
  BY <1>4, <1>6, <1>7 DEF BusInv

LEMMA StutterKeeps == ASSUME BusInv, UNCHANGED vars PROVE BusInv'
<1>1. UNCHANGED <<todo, temp, gap, pio, ready, pins, data_in, readdata, Reset, held, strobe,
                  register, call, landed, seen, disturbed, result>>
  BY DEF vars, software, interface, history
<1>2. Program' = Program /\ Done' = Done
      /\ (Reads(call)' <=> Reads(call)) /\ (Writes(call)' <=> Writes(call))
  BY <1>1, SamePlace DEF Done
<1>3. BusTypes'
  BY <1>1 DEF BusInv, BusTypes, TypeOK
<1>4. PlaceInv'
  BY <1>1, <1>2, SamePlace DEF BusInv, PlaceInv, OnTrack, PinsFollow, WordHeld, AllLow
<1>5. Undisturbed' <=> Undisturbed
  BY <1>1 DEF Undisturbed
<1>6. HistoryOK' /\ InitClears'
  BY <1>1, <1>2 DEF BusInv, CallInv, HistoryOK, InitClears, Cleared
<1>7. NoReset'
  BY <1>1, <1>2, <1>5, SamePlace DEF BusInv, CallInv, NoReset
<1>8. LongEnough' /\ Answer' /\ TakenOnce'
  BY <1>1, <1>2, <1>5 DEF BusInv, CallInv, LongEnough, Answer, TakenOnce
<1> QED
  BY <1>3, <1>4, <1>6, <1>7, <1>8 DEF BusInv, CallInv

LEMMA BusStep == BusInv /\ [Next]_vars => BusInv'
<1> SUFFICES ASSUME BusInv, [Next]_vars PROVE BusInv'
  OBVIOUS
<1>1. CASE UNCHANGED vars
  BY <1>1, StutterKeeps
<1>2. CASE Store
  BY <1>2, StorePlace, StoreCall DEF BusInv
<1>3. CASE Edge
  BY <1>3, EdgePlace, EdgeCall DEF BusInv
<1> QED
  BY <1>1, <1>2, <1>3, CallBegins, LoadKeeps, ReturnKeeps, Key0Keeps, ChipSetsKeeps
     DEF Next

LEMMA BusInvariance == Spec => []BusInv
BY BusStart, BusStep, PTL DEF Spec

\* Every register and wire of the bus has a value it can have; io_handler.c,
\* hpi_io_intf.sv.
THEOREM TypeCorrect == Spec => []TypeOK
<1>1. BusInv => TypeOK
  BY DEF BusInv, BusTypes
<1> QED
  BY <1>1, BusInvariance, PTL

-----------------------------------------------------------------------------
(* The discipline of the bus. *)

\* The FPGA drives only while the program holds wr low, and rd is high then.
LEMMA DrivesAlone == ASSUME BusInv, ready, Drives(pio) PROVE ~Reading(pins) /\ Writes(call)
<1>1. Lines(pio, Done) /\ PinsFollow /\ pio.wr = Low
  BY DEF BusInv, PlaceInv, Drives
<1>2. call # Nothing /\ ~Reads(call) /\ Done = 5
  BY <1>1 DEF Lines, Low, High
<1>3. pins # AllLow => pins.rd = High
  BY <1>1, <1>2 DEF PinsFollow, Lines
<1> QED
  BY <1>2, <1>3, AllLowQuiet, CallParts DEF Reading, Low, High, BusInv

\* Where a write strobe can be at the chip's pin: between the store of wr and the
\* clock edge after the next one.
LEMMA WritingWhen ==
    ASSUME BusInv, ready, Writing(pins)
    PROVE  /\ Writes(call) /\ ~Reading(pins)
           /\ \/ Drives(pio) /\ pins = pio
              \/ Done = 6 /\ gap = 0 /\ ~Drives(pio)
<1>1. Lines(pio, Done) /\ PinsFollow /\ pins # AllLow /\ pins.wr = Low
  BY AllLowQuiet DEF BusInv, PlaceInv, Writing
<1>2. pins = pio \/ (gap = 0 /\ Lines(pins, Done - 1))
  BY <1>1 DEF PinsFollow
<1>3. call # Nothing /\ ~Reads(call) /\ pins.rd = High
  BY <1>1, <1>2 DEF Lines, Low, High
<1>4. Writes(call) /\ ~Reading(pins)
  BY <1>3, CallParts DEF BusInv, Reading, Low, High
<1>5. CASE pins = pio
  BY <1>1, <1>4, <1>5 DEF Drives
<1>6. CASE gap = 0 /\ Lines(pins, Done - 1)
  <2>1. Done \in Int
    BY ProgramParts DEF BusInv, PlaceInv, OnTrack
  <2>2. Done = 6
    BY <1>1, <1>3, <1>6, <2>1 DEF Lines, Low, High
  <2>3. ~Drives(pio)
    BY <1>1, <1>3, <2>2 DEF Lines, Drives, Low, High
  <2> QED
    BY <1>4, <1>6, <2>2, <2>3
<1> QED
  BY <1>2, <1>5, <1>6

\* Once IO_init has returned the data lines have one driver, the chip sees one
\* strobe, and no write strobe is over lines that nobody drives
\* (hpi_io_intf.sv:19-43, io_handler.c:20-53).
THEOREM OneDriver == Spec => []BusDiscipline
<1>1. BusInv => BusDiscipline
  <2> SUFFICES ASSUME BusInv, ready
               PROVE  NoContention /\ StrobeOverKnownData /\ OneStrobe
    BY DEF BusDiscipline
  <2>1. NoContention
    BY DrivesAlone DEF NoContention
  <2>2. StrobeOverKnownData
    <3> SUFFICES ASSUME Writing(pins) PROVE OTG_DATA # Unknown
      BY DEF StrobeOverKnownData
    <3>1. pins.data # Unknown
      BY Assumed DEF BusInv, BusTypes, TypeOK, Pins
    <3>2. Writes(call) /\ Done = 6 /\ gap = 0 => held = pins.data
      BY DEF BusInv, PlaceInv, WordHeld
    <3>3. OTG_DATA = pins.data
      BY <3>2, WritingWhen DEF OTG_DATA
    <3> QED
      BY <3>1, <3>3
  <2>3. OneStrobe
    BY WritingWhen DEF OneStrobe
  <2> QED
    BY <2>1, <2>2, <2>3
<1> QED
  BY <1>1, BusInvariance, PTL

-----------------------------------------------------------------------------
(* The calls are the transfers of HpiPort. *)

LEMMA PortStart == Init => Port!Init
BY DEF Init, Port!Init

\* The end of a write strobe is where a word lands.
LEMMA TakesIsLand ==
    ASSUME BusInv, Edge, ready, Takes
    PROVE  Port!Land \/ Port!LandDisturbed
<1>1. /\ Writes(call) /\ Done = 6 /\ gap = 0
      /\ pins.addr = call[2] /\ pins.data = call[3] /\ held = pins.data
  BY TakesWhen
<1>2. ~Reads(call) /\ call # Nothing
  BY <1>1, CallParts DEF BusInv, Writes
<1>3. NextPins.rst # Low
  BY DEF Takes, Low, High
<1>4. /\ register' = [register EXCEPT ![call[2]] = Word]
      /\ landed' = landed + 1 /\ seen' = {} /\ seen = {}
      /\ UNCHANGED <<ready, call, disturbed, result>>
  BY <1>1, <1>2, <1>3 DEF Edge, Noticed, BusInv, CallInv, HistoryOK
<1>5. CASE disturbed
  <2>1. Word \in Words
    BY DataLines DEF BusInv, Word, Words
  <2> QED
    BY <1>2, <1>4, <1>5, <2>1
       DEF Port!LandDisturbed, Port!Noticed, Port!Reads, Reads, Port!Words, Words
<1>6. CASE ~disturbed
  <2>1. landed = 0 /\ strobe = Access
    BY <1>1, <1>2, <1>6 DEF BusInv, CallInv, TakenOnce, LongEnough, Undisturbed
  <2>2. ~Reading(pins) /\ (Drives(pio) => pins = pio)
    BY WritingWhen DEF Takes
  <2>3. OTG_DATA = call[3]
    BY <1>1, <2>2 DEF OTG_DATA
  <2>4. Word = call[3]
    BY <2>1, <2>3, Assumed DEF Word
  <2> QED
    BY <1>1, <1>4, <2>1, <2>4 DEF Port!Land, Port!Writes, Writes
<1> QED
  BY <1>5, <1>6

LEMMA EdgeRefines == ASSUME BusInv, Edge PROVE [Port!Next]_(Port!vars)
<1>1. /\ UNCHANGED <<ready, call, disturbed, result>>
      /\ register' = IF NextPins.rst = Low THEN Cleared
                     ELSE IF Takes THEN [register EXCEPT ![pins.addr] = Word]
                     ELSE register
      /\ landed' = IF Takes THEN landed + 1 ELSE landed
      /\ seen' = Noticed(register')
  BY DEF Edge, Cleared
<1>2. /\ call # Nothing => ready
      /\ ~Reads(call) => seen = {}
      /\ Reads(call) => register[call[2]] \in seen
  BY DEF BusInv, CallInv, HistoryOK
<1>3. CASE ~ready
  <2>1. seen' = seen
    BY <1>1, <1>2, <1>3 DEF Noticed, Reads
  <2> QED
    BY <1>1, <1>3, <2>1 DEF Port!vars
<1>4. CASE ready /\ NextPins.rst = Low
  <2>1. Lines(pio, Done)
    BY DEF BusInv, PlaceInv
  <2>2. pio.rst = High
    BY <1>4, <2>1 DEF Lines
  <2>3. Reset
    BY <1>4, <2>2 DEF NextPins, Low, High
  <2>4. call # Nothing => disturbed
    BY <2>3 DEF BusInv, CallInv, NoReset, Undisturbed
  <2>5. ~Takes
    BY <1>4 DEF Takes, Low, High
  <2>6. register' = Cleared /\ landed' = landed
    BY <1>1, <1>4, <2>5
  <2>7. Port!ResetChip
    BY <1>1, <1>4, <2>4, <2>6
       DEF Port!ResetChip, Port!Noticed, Port!Reads, Noticed, Reads, Cleared
  <2> QED
    BY <2>7 DEF Port!Next
<1>5. CASE ready /\ Takes
  BY <1>5, TakesIsLand DEF Port!Next
<1>6. CASE NextPins.rst # Low /\ ~Takes
  <2>1. register' = register /\ landed' = landed
    BY <1>1, <1>6
  <2>2. seen' = seen
    BY <1>1, <1>2, <2>1 DEF Noticed
  <2> QED
    BY <1>1, <2>1, <2>2 DEF Port!vars
<1> QED
  BY <1>3, <1>4, <1>5, <1>6

LEMMA BeginRefines ==
    ASSUME BusInv, (\E a \in Addresses : IO_read(a))
                   \/ (\E a \in Addresses, d \in Values : IO_write(a, d))
    PROVE  Port!Begin
<1>1. /\ ready /\ call = Nothing /\ landed' = 0 /\ disturbed' = Reset
      /\ UNCHANGED <<ready, register, result>>
  BY DEF IO_read, IO_write, Idle
<1>2. Reset \in BOOLEAN
  BY DEF BusInv, BusTypes, TypeOK
<1>3. CASE \E a \in Addresses : IO_read(a)
  <2>1. PICK a \in Addresses : IO_read(a)
    BY <1>3
  <2>2. call' = <<"read", a, Zero>> /\ seen' = {register[a]}
    BY <2>1 DEF IO_read
  <2>3. call' \in Calls /\ call' # Nothing
    BY <2>2, Assumed DEF Calls
  <2> QED
    BY <1>1, <1>2, <2>2, <2>3 DEF Port!Begin, Port!Calls, Calls, Port!Reads
<1>4. CASE \E a \in Addresses, d \in Values : IO_write(a, d)
  <2>1. PICK a \in Addresses, d \in Values : IO_write(a, d)
    BY <1>4
  <2>2. call' = <<"write", a, d>> /\ seen' = {}
    BY <2>1 DEF IO_write
  <2>3. call' \in Calls
    BY <2>2 DEF Calls
  <2> QED
    BY <1>1, <1>2, <2>2, <2>3 DEF Port!Begin, Port!Calls, Calls, Port!Reads
<1> QED
  BY <1>3, <1>4

\* The end of IO_init is nobody's business: the chip is in its reset state.
LEMMA ReturnRefines == ASSUME BusInv, Return PROVE [Port!Next]_(Port!vars)
<1>1. /\ todo = <<>> /\ (call # Nothing \/ ~ready) /\ ready' = TRUE
      /\ result' = IF Reads(call) THEN temp ELSE result
      /\ call' = Nothing /\ landed' = 0 /\ seen' = {} /\ disturbed' = FALSE
      /\ register' = register
  BY DEF Return
<1>2. /\ call # Nothing => ready
      /\ call = Nothing => ~disturbed
      /\ ~Reads(call) => seen = {}
  BY DEF BusInv, CallInv, HistoryOK
<1>3. CASE ~ready
  <2>1. call = Nothing /\ Done = 10 /\ ~Reads(call) /\ disturbed = FALSE
    BY <1>2, <1>1, <1>3, AtEnd DEF Reads, BusInv, BusTypes, CallInv, HistoryOK
  <2>2. register = Cleared
    BY <1>3, <2>1 DEF BusInv, CallInv, InitClears
  <2> QED
    BY <1>1, <1>2, <1>3, <2>1, <2>2 DEF Port!vars, Cleared
<1>4. CASE ready
  <2>1. call # Nothing /\ Done = 7 /\ (Writes(call) <=> ~Reads(call))
    BY <1>1, <1>4, AtEnd, CallParts DEF BusInv
  <2>2. ~disturbed /\ Writes(call) => landed = 1
    BY <2>1 DEF BusInv, CallInv, TakenOnce, Undisturbed
  <2>3. ~disturbed /\ Reads(call) => temp \in seen
    BY <2>1 DEF BusInv, CallInv, Answer, Undisturbed
  <2>4. Port!Return
    BY <1>1, <1>4, <2>1, <2>2, <2>3 DEF Port!Return, Port!Writes, Writes
  <2> QED
    BY <2>4 DEF Port!Next
<1> QED
  BY <1>3, <1>4

LEMMA Key0Refines == ASSUME BusInv, Key0 PROVE [Port!Next]_(Port!vars)
<1>1. /\ disturbed' = (call # Nothing)
      /\ UNCHANGED <<ready, register, call, landed, seen, result>>
  BY DEF Key0, software
<1>2. CASE call # Nothing
  BY <1>1, <1>2 DEF Port!KeyPressed, Port!Next
<1>3. CASE call = Nothing
  <2>1. disturbed \in BOOLEAN /\ ~disturbed
    BY <1>3 DEF BusInv, BusTypes, CallInv, HistoryOK
  <2>2. disturbed = FALSE /\ disturbed' = FALSE
    BY <1>1, <1>3, <2>1
  <2> QED
    BY <1>1, <2>2 DEF Port!vars
<1> QED
  BY <1>2, <1>3

\* Between the stores and the clock edges of io_handler.c and hpi_io_intf.sv every
\* IO_write makes one change of the register it names, and every IO_read answers with
\* a value that its register had since it was called; the program, the interface and
\* the chip together do nothing else to the registers, but for resets.
THEOREM TransfersAtomic == Spec => PortSpec
<1>1. BusInv /\ [Next]_vars => [Port!Next]_(Port!vars)
  <2> SUFFICES ASSUME BusInv, [Next]_vars PROVE [Port!Next]_(Port!vars)
    OBVIOUS
  <2>1. CASE UNCHANGED vars \/ Store \/ LoadData
    <3>1. UNCHANGED <<ready, register, call, landed, seen, disturbed, result>>
      BY <2>1 DEF vars, software, history, Store, LoadData
    <3> QED
      BY <3>1 DEF Port!vars
  <2>2. CASE \E a \in Addresses, v \in Values : ChipSets(a, v)
    <3>1. PICK a \in Addresses, v \in Values : ChipSets(a, v)
      BY <2>2
    <3>2. /\ ready /\ register' = [register EXCEPT ![a] = v] /\ seen' = Noticed(register')
          /\ UNCHANGED <<ready, call, landed, disturbed, result>>
      BY <3>1 DEF ChipSets, software
    <3>3. Port!ChipSets
      BY <3>2 DEF Port!ChipSets, Port!Noticed, Port!Reads, Noticed, Reads
    <3> QED
      BY <3>3 DEF Port!Next
  <2> QED
    BY <2>1, <2>2, BeginRefines, ReturnRefines, EdgeRefines, Key0Refines
       DEF Next, Port!Next
<1> QED
  BY <1>1, PortStart, BusInvariance, PTL DEF Spec, PortSpec, Port!Spec
=============================================================================
