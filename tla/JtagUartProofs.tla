--------------------------- MODULE JtagUartProofs ---------------------------
(* The ring buffers of the JTAG UART's driver, for every length of the     *)
(* buffers, every depth and threshold of the FIFOs and every order of the  *)
(* steps of the program, the interrupt routine, the alarm and the host.    *)
EXTENDS JtagUart, SequenceTheorems, TLAPS

Character == 0..(Numbers - 1)

\* What is needed of the types, and that a copy is no longer than the call asks.
Shape ==
    /\ left \in Nat /\ n \in 0..BufLen /\ seen \in Index
    /\ tx_in \in Index /\ tx_out \in Index /\ rx_in \in Index /\ rx_out \in Index
    /\ space \in Nat
    /\ txNext \in Int /\ tx_buf \in [Index -> Character]
    /\ wfifo \in Seq(Character) /\ Len(wfifo) <= WriteDepth
    /\ pc \in {"w_copy", "w_store", "r_copy", "r_store"} => n <= left

\* Where characters are left to be moved, and what the writer knows when it has
\* found no room: tx_out was the index behind tx_in, which stays where it is.
Positions ==
    /\ pc \in {"w_look", "w_copy", "w_store", "w_wait", "w_after",
               "r_look", "r_copy", "r_store", "r_wait", "r_after"} => left > 0
    /\ (pc = "w_kick" /\ left > 0) \/ pc = "w_wait" => Wrap(tx_in + 1) = seen

DriverInv == Shape /\ Positions /\ CopiesInBounds /\ NoStrandedOutput /\ NoStrandedInput

-----------------------------------------------------------------------------
(* Arithmetic on indices. *)

LEMMA Bounds ==
    /\ BufLen \in Nat /\ BufLen >= 2
    /\ WriteDepth \in Nat /\ ReadDepth \in Nat /\ Numbers \in Nat /\ Numbers > 0
    /\ Counts \subseteq Nat \ {0}
    /\ IntMax \in Nat /\ Timeout \in 2..(IntMax - 1) /\ Requests \subseteq Int
BY JtagUartAssumption DEF JtagUartAssumption

LEMMA Wrapping ==
    ASSUME NEW x \in Int
    PROVE  /\ x % BufLen \in Index
           /\ x \in 0..(BufLen - 1) => x % BufLen = x
           /\ x \in BufLen..(2 * BufLen - 1) => x % BufLen = x - BufLen
           /\ x \in (-BufLen)..(-1) => x % BufLen = x + BufLen
BY Bounds, SMT DEF Index

LEMMA Numbering ==
    ASSUME NEW x \in Int
    PROVE  x % Numbers \in Character
BY Bounds, SMT DEF Character

\* The index behind i.
LEMMA Behind ==
    ASSUME NEW i \in Index
    PROVE  /\ Wrap(i + 1) = IF i = BufLen - 1 THEN 0 ELSE i + 1
           /\ Wrap(i + 1) \in Index /\ Wrap(i + 1) # i
<1>1. i + 1 \in Int /\ BufLen - BufLen = 0
  BY Bounds DEF Index
<1> QED
  BY <1>1, Bounds, Wrapping DEF Index, Wrap

\* A piece of m cells from index i on that does not pass the end of the array.
LEMMA Advancing ==
    ASSUME NEW i \in Index, NEW m \in Nat, i + m <= BufLen
    PROVE  Wrap(i + m) \in Index
BY Bounds, Wrapping DEF Index, Wrap

LEMMA UsedCells ==
    ASSUME NEW in \in Index, NEW out \in Index
    PROVE  /\ Used(in, out) = IF in >= out THEN in - out ELSE in - out + BufLen
           /\ Used(in, out) \in Index
<1>1. in - out \in Int
  BY Bounds DEF Index
<1> QED
  BY <1>1, Bounds, Wrapping DEF Index, Used

\* What Room promises the writer.
LEMMA RoomFits ==
    ASSUME NEW in \in Index, NEW out \in Index
    PROVE  /\ Room(in, out) \in 0..BufLen
           /\ in + Room(in, out) <= BufLen
           /\ Used(in, out) + Room(in, out) < BufLen
           /\ Room(in, out) = 0 => Wrap(in + 1) = out
<1>1. Wrap(in + 1) = IF in = BufLen - 1 THEN 0 ELSE in + 1
  BY Behind
<1>2. Used(in, out) = IF in >= out THEN in - out ELSE in - out + BufLen
  BY UsedCells
<1>3. /\ BufLen \in Nat /\ BufLen >= 2
      /\ in \in Nat /\ in < BufLen /\ out \in Nat /\ out < BufLen
  BY Bounds DEF Index
<1> QED
  BY <1>1, <1>2, <1>3 DEF Room

\* What Ready promises the reader.
LEMMA ReadyFits ==
    ASSUME NEW in \in Index, NEW out \in Index
    PROVE  /\ Ready(in, out) \in 0..BufLen
           /\ out + Ready(in, out) <= BufLen
           /\ Ready(in, out) <= Used(in, out)
           /\ Ready(in, out) = 0 => in = out
BY Bounds, UsedCells DEF Index, Ready

\* The interrupt routine takes a character out.
LEMMA UsedLess ==
    ASSUME NEW in \in Index, NEW out \in Index, in # out
    PROVE  Used(in, Wrap(out + 1)) = Used(in, out) - 1
<1> DEFINE next == Wrap(out + 1)
<1>1. next = (IF out = BufLen - 1 THEN 0 ELSE out + 1) /\ next \in Index
  BY Behind
<1> HIDE DEF next
<1>2. /\ Used(in, out) = IF in >= out THEN in - out ELSE in - out + BufLen
      /\ Used(in, next) = IF in >= next THEN in - next ELSE in - next + BufLen
  BY <1>1, UsedCells
<1>3. Used(in, next) = Used(in, out) - 1
  BY <1>1, <1>2, Bounds DEF Index
<1> QED
  BY <1>3 DEF next

\* The interrupt routine puts a character in.
LEMMA UsedMore ==
    ASSUME NEW in \in Index, NEW out \in Index, Wrap(in + 1) # out
    PROVE  Used(Wrap(in + 1), out) = Used(in, out) + 1
<1> DEFINE next == Wrap(in + 1)
<1>1. next = (IF in = BufLen - 1 THEN 0 ELSE in + 1) /\ next \in Index
  BY Behind
<1> HIDE DEF next
<1>2. /\ Used(in, out) = IF in >= out THEN in - out ELSE in - out + BufLen
      /\ Used(next, out) = IF next >= out THEN next - out ELSE next - out + BufLen
  BY <1>1, UsedCells
<1>3. next # out
  BY DEF next
<1>4. Used(next, out) = Used(in, out) + 1
  BY <1>1, <1>2, <1>3, Bounds DEF Index
<1> QED
  BY <1>4 DEF next

LEMMA FullBuffer ==
    ASSUME NEW in \in Index, NEW out \in Index, Wrap(in + 1) = out
    PROVE  Used(in, out) = BufLen - 1
<1>1. out = IF in = BufLen - 1 THEN 0 ELSE in + 1
  BY Behind
<1>2. Used(in, out) = IF in >= out THEN in - out ELSE in - out + BufLen
  BY UsedCells
<1> QED
  BY <1>1, <1>2, Bounds DEF Index

\* Less than all the room, and less than all that is ready, fits too.
LEMMA RoomTaken ==
    ASSUME NEW in \in Index, NEW out \in Index, NEW m \in Nat, m <= Room(in, out)
    PROVE  in + m <= BufLen /\ Used(in, out) + m < BufLen
<1> DEFINE r == Room(in, out)
           u == Used(in, out)
<1>1. r \in Nat /\ in + r <= BufLen /\ u + r < BufLen /\ m <= r
  BY RoomFits, Bounds
<1>2. in \in Nat /\ u \in Nat /\ BufLen \in Nat
  BY UsedCells, Bounds DEF Index
<1> HIDE DEF r, u
<1>3. in + m <= BufLen /\ u + m < BufLen
  BY <1>1, <1>2, SMT
<1> QED
  BY <1>3 DEF u

LEMMA ReadyTaken ==
    ASSUME NEW in \in Index, NEW out \in Index, NEW m \in Nat, m <= Ready(in, out)
    PROVE  out + m <= BufLen /\ m <= Used(in, out)
<1> DEFINE r == Ready(in, out)
           u == Used(in, out)
<1>1. r \in Nat /\ out + r <= BufLen /\ r <= u /\ m <= r
  BY ReadyFits, Bounds
<1>2. out \in Nat /\ u \in Nat /\ BufLen \in Nat
  BY UsedCells, Bounds DEF Index
<1> HIDE DEF r, u
<1>3. out + m <= BufLen /\ m <= u
  BY <1>1, <1>2, SMT
<1> QED
  BY <1>3 DEF u

LEMMA LesserFits ==
    ASSUME NEW a \in Nat, NEW b \in Nat, a <= BufLen
    PROVE  /\ Lesser(a, b) \in 0..BufLen /\ Lesser(a, b) <= a /\ Lesser(a, b) <= b
           /\ a > 0 /\ b > 0 => Lesser(a, b) > 0
BY Bounds DEF Lesser

-----------------------------------------------------------------------------
(* Shape is an invariant. *)

LEMMA ShapeInit == Init => Shape
BY Bounds DEF Init, Shape, Index, Character

LEMMA ShapeStep == Shape /\ CopiesInBounds /\ [Next]_vars => Shape'
<1> SUFFICES ASSUME Shape, CopiesInBounds, [Next]_vars PROVE Shape'
  OBVIOUS
<1> USE DEF elsewhere, outside, fifos, enables, routine, clock, rx, tx, call,
            Goto, Stay, Leave
<1>0. 0 \in Nat /\ 0 \in 0..BufLen /\ 0 \in Index
  BY Bounds DEF Index
<1>1. ASSUME NEW count \in Counts, NEW label \in {"w_look", "r_look"}, Call(label, count)
      PROVE  Shape'
  <2>1. count \in Nat
    BY Bounds
  <2> QED
    BY <1>1, <2>1 DEF Call, Shape
<1>2. CASE Call("c_wait", 0)
  BY <1>0, <1>2 DEF Call, Shape
<1>3. ASSUME NEW t \in Requests, SetTimeout(t) PROVE Shape'
  BY <1>3 DEF SetTimeout, Shape
<1>4. CASE WriteLook
  <2>1. Room(tx_in, tx_out) \in Nat /\ Room(tx_in, tx_out) <= BufLen
    BY Bounds, RoomFits DEF Shape
  <2>2. n' \in 0..BufLen /\ n' <= left
    <3>1. n' = Lesser(Room(tx_in, tx_out), left)
      BY <1>4 DEF WriteLook
    <3> QED
      BY <2>1, <3>1, LesserFits DEF Shape
  <2>3. seen' \in Index
    BY <1>0, <1>4 DEF WriteLook, Shape
  <2> QED
    BY <1>4, <2>2, <2>3 DEF WriteLook, Shape
<1>5. CASE WriteCopy
  <2>1. tx_buf' \in [Index -> Character]
    <3>1. ASSUME NEW i \in Index PROVE (txNext + i - tx_in) % Numbers \in Character
      BY Numbering DEF Shape, Index
    <3> QED
      BY <1>5, <3>1 DEF WriteCopy, Shape
  <2> QED
    BY <1>5, <2>1 DEF WriteCopy, Shape
<1>6. CASE WriteStore
  <2>1. tx_in' \in Index
    BY <1>6, Advancing DEF WriteStore, Shape, CopiesInBounds
  <2>2. txNext' \in Int
    BY <1>6, Numbering DEF WriteStore, Shape, Character
  <2>3. left' \in Nat /\ n' \in 0..BufLen
    BY <1>0, <1>6 DEF WriteStore, Shape
  <2> QED
    BY <1>6, <2>1, <2>2, <2>3 DEF WriteStore, Shape
<1>7. CASE WriteKick
  BY <1>0, <1>7 DEF WriteKick, Shape
<1>8. CASE WriteWait \/ WriteAfter
  BY <1>0, <1>8 DEF WriteWait, WriteAfter, Shape
<1>9. CASE ReadLook
  <2>1. Ready(rx_in, rx_out) \in Nat /\ Ready(rx_in, rx_out) <= BufLen
    BY Bounds, ReadyFits DEF Shape
  <2>2. /\ Lesser(Ready(rx_in, rx_out), left) \in 0..BufLen
        /\ Lesser(Ready(rx_in, rx_out), left) <= left
    BY <2>1, LesserFits DEF Shape
  <2> QED
    BY <1>0, <1>9, <2>2 DEF ReadLook, Shape
<1>10. CASE ReadCopy
  BY <1>10 DEF ReadCopy, Shape
<1>11. CASE ReadStore
  <2>1. rx_out' \in Index
    BY <1>11, Advancing DEF ReadStore, Shape, CopiesInBounds
  <2>2. left' \in Nat /\ n' \in 0..BufLen
    <3>1. left' = left - n /\ n' = 0 /\ n <= left
      BY <1>11 DEF ReadStore, Shape
    <3> QED
      BY <1>0, <3>1 DEF Shape
  <2> QED
    BY <1>11, <2>1, <2>2 DEF ReadStore, Shape
<1>12. CASE ReadWait \/ ReadAfter \/ ReadEnable \/ CloseWait
  BY <1>0, <1>12 DEF ReadWait, ReadAfter, ReadEnable, CloseWait, Shape
<1>13. CASE ReadControl
  <2>1. space' \in Nat
    BY <1>13, Bounds DEF ReadControl, Shape
  <2> QED
    BY <1>13, <2>1 DEF ReadControl, Shape
<1>14. CASE ReceiveChar
  <2>1. rx_in' \in Index
    BY <1>14, Behind DEF ReceiveChar, Shape
  <2> QED
    BY <1>14, <2>1 DEF ReceiveChar, Shape
<1>15. CASE ReceiveNone \/ ReceiveFull
  BY <1>15 DEF ReceiveNone, ReceiveFull, Shape
<1>16. CASE TransmitChar
  <2>1. tx_out' \in Index
    BY <1>16, Behind DEF TransmitChar, Shape
  <2>2. space' \in Nat
    BY <1>16 DEF TransmitChar, SpaceLeft, Shape
  <2>3. wfifo' \in Seq(Character) /\ Len(wfifo') <= WriteDepth
    <3>1. tx_buf[tx_out] \in Character
      BY DEF Shape
    <3> QED
      BY <1>16, <3>1, Bounds DEF TransmitChar, Shape
  <2> QED
    BY <1>16, <2>1, <2>2, <2>3 DEF TransmitChar, Shape
<1>17. CASE TransmitEnd
  BY <1>0, <1>17 DEF TransmitEnd, Shape
<1>18. CASE HostTake
  <2>1. wfifo' \in Seq(Character) /\ Len(wfifo') <= WriteDepth
    BY <1>18, Bounds DEF HostTake, Shape
  <2> QED
    BY <1>18, <2>1 DEF HostTake, Shape
<1>19. CASE Alarm \/ HostSend \/ HostPause
  BY <1>19 DEF Alarm, HostSend, HostPause, Shape
<1>20. CASE UNCHANGED vars
  BY <1>20 DEF vars, Shape
<1> QED
  BY <1>1, <1>2, <1>3, <1>4, <1>5, <1>6, <1>7, <1>8, <1>9, <1>10, <1>11, <1>12,
     <1>13, <1>14, <1>15, <1>16, <1>17, <1>18, <1>19, <1>20
     DEF Next, CallDriver, ProgramStep, IsrStep
-----------------------------------------------------------------------------
(* The steps of the invariant. *)

LEMMA PositionsStep == Shape /\ Positions /\ [Next]_vars => Positions'
<1> SUFFICES ASSUME Shape, Positions, [Next]_vars PROVE Positions'
  OBVIOUS
<1> USE DEF elsewhere, outside, fifos, enables, routine, clock, rx, tx, call,
            Goto, Stay, Leave
<1>1. ASSUME NEW count \in Counts, NEW label \in {"w_look", "r_look"}, Call(label, count)
      PROVE  Positions'
  <2>1. count > 0
    BY Bounds
  <2> QED
    BY <1>1, <2>1 DEF Call, Positions
<1>2. CASE Call("c_wait", 0)
  BY <1>2 DEF Call, Positions
<1>3. CASE WriteLook
  <2>1. CASE Room(tx_in, tx_out) = 0
    <3>1. Wrap(tx_in + 1) = tx_out
      BY <2>1, RoomFits DEF Shape
    <3> QED
      BY <1>3, <2>1, <3>1 DEF WriteLook, Positions
  <2>2. CASE Room(tx_in, tx_out) # 0
    BY <1>3, <2>2 DEF WriteLook, Positions
  <2> QED
    BY <2>1, <2>2
<1>4. CASE WriteStore \/ ReadStore
  <2>1. left' > 0 \/ (pc' \in {"w_kick", "r_enable"} /\ left' = 0)
    BY <1>4 DEF WriteStore, ReadStore, Shape
  <2>2. pc' \in {"w_kick", "r_enable", "w_look", "r_look"} /\ (left' > 0 => pc' # "w_kick")
    BY <1>4 DEF WriteStore, ReadStore, Shape
  <2> QED
    BY <2>1, <2>2 DEF Positions
<1>5. CASE WriteCopy \/ WriteKick \/ WriteWait \/ WriteAfter
  BY <1>5 DEF WriteCopy, WriteKick, WriteWait, WriteAfter, Shape, Positions
<1>6. CASE ReadLook
  BY <1>6 DEF ReadLook, Positions
<1>7. CASE ReadCopy \/ ReadWait \/ ReadAfter \/ ReadEnable \/ CloseWait
  BY <1>7 DEF ReadCopy, ReadWait, ReadAfter, ReadEnable, CloseWait, Positions
<1>8. ASSUME UNCHANGED <<pc, left, seen, tx_in>> PROVE Positions'
  BY <1>8 DEF Positions
<1>9. CASE IsrStep \/ Alarm \/ HostTake \/ HostSend \/ HostPause \/ UNCHANGED vars
  BY <1>8, <1>9 DEF IsrStep, ReadControl, ReceiveChar, ReceiveNone, ReceiveFull,
     TransmitChar, TransmitEnd, Alarm, HostTake, HostSend, HostPause, vars
<1>10. ASSUME NEW t \in Requests, SetTimeout(t) PROVE Positions'
  BY <1>8, <1>10 DEF SetTimeout
<1> QED
  BY <1>1, <1>2, <1>3, <1>4, <1>5, <1>6, <1>7, <1>9, <1>10
     DEF Next, CallDriver, ProgramStep

LEMMA CopiesStep ==
    Shape /\ Positions /\ CopiesInBounds /\ [Next]_vars => CopiesInBounds'
<1> SUFFICES ASSUME Shape, Positions, CopiesInBounds, [Next]_vars PROVE CopiesInBounds'
  OBVIOUS
<1> USE DEF elsewhere, outside, fifos, enables, routine, clock, rx, tx, call,
            Goto, Stay, Leave
<1>1. CASE WriteLook
  <2>1. CASE Room(tx_in, tx_out) = 0
    BY <1>1, <2>1 DEF WriteLook, CopiesInBounds
  <2>2. CASE Room(tx_in, tx_out) # 0
    <3>1. /\ Room(tx_in, tx_out) \in Nat /\ Room(tx_in, tx_out) <= BufLen
          /\ tx_in + Room(tx_in, tx_out) <= BufLen
          /\ Used(tx_in, tx_out) + Room(tx_in, tx_out) < BufLen
      BY RoomFits, Bounds DEF Shape
    <3>2. /\ n' = Lesser(Room(tx_in, tx_out), left) /\ left > 0
          /\ UNCHANGED <<tx_in, tx_out>> /\ pc' = "w_copy"
      BY <1>1, <2>2 DEF WriteLook, Positions
    <3>3. n' \in 0..BufLen /\ n' <= Room(tx_in, tx_out) /\ n' > 0
      <4>1. left \in Nat /\ Room(tx_in, tx_out) > 0
        BY <2>2, <3>1 DEF Shape
      <4> QED
        BY <3>1, <3>2, <4>1, LesserFits
    <3>4. tx_in \in Index /\ tx_out \in Index /\ n' \in Nat
      BY <3>3, Bounds DEF Shape
    <3>5. tx_in + n' <= BufLen /\ Used(tx_in, tx_out) + n' < BufLen
      BY <3>3, <3>4, RoomTaken
    <3>6. Used(tx_in, tx_out)' = Used(tx_in, tx_out)
      BY <3>2 DEF Used
    <3> QED
      BY <3>2, <3>3, <3>5, <3>6 DEF CopiesInBounds
  <2> QED
    BY <2>1, <2>2
<1>2. CASE ReadLook
  <2>1. CASE Ready(rx_in, rx_out) = 0
    BY <1>2, <2>1 DEF ReadLook, CopiesInBounds
  <2>2. CASE Ready(rx_in, rx_out) # 0
    <3>1. /\ Ready(rx_in, rx_out) \in Nat /\ Ready(rx_in, rx_out) <= BufLen
          /\ rx_out + Ready(rx_in, rx_out) <= BufLen
          /\ Ready(rx_in, rx_out) <= Used(rx_in, rx_out)
      BY ReadyFits, Bounds DEF Shape
    <3>2. /\ n' = Lesser(Ready(rx_in, rx_out), left) /\ left > 0
          /\ UNCHANGED <<rx_in, rx_out>> /\ pc' = "r_copy"
      BY <1>2, <2>2 DEF ReadLook, Positions
    <3>3. n' \in 0..BufLen /\ n' <= Ready(rx_in, rx_out) /\ n' > 0
      <4>1. left \in Nat /\ Ready(rx_in, rx_out) > 0
        BY <2>2, <3>1 DEF Shape
      <4> QED
        BY <3>1, <3>2, <4>1, LesserFits
    <3>4. rx_in \in Index /\ rx_out \in Index /\ n' \in Nat
      BY <3>3, Bounds DEF Shape
    <3>5. rx_out + n' <= BufLen /\ n' <= Used(rx_in, rx_out)
      BY <3>3, <3>4, ReadyTaken
    <3>6. Used(rx_in, rx_out)' = Used(rx_in, rx_out)
      BY <3>2 DEF Used
    <3> QED
      BY <3>2, <3>3, <3>5, <3>6 DEF CopiesInBounds
  <2> QED
    BY <2>1, <2>2
<1>3. CASE ReceiveChar
  <2>1. Used(rx_in', rx_out) = Used(rx_in, rx_out) + 1
    BY <1>3, UsedMore DEF ReceiveChar, BufferFull, Shape
  <2>2. Used(rx_in, rx_out)' = Used(rx_in', rx_out)
    BY <1>3 DEF ReceiveChar, Used
  <2>3. Used(tx_in, tx_out)' = Used(tx_in, tx_out)
    BY <1>3 DEF ReceiveChar, Used
  <2>4. Used(rx_in, rx_out) \in Nat
    BY UsedCells DEF Shape, Index
  <2>5. UNCHANGED <<pc, n, tx_in, rx_out>> /\ n \in Nat
    BY <1>3 DEF ReceiveChar, Shape
  <2> QED
    BY <2>1, <2>2, <2>3, <2>4, <2>5 DEF CopiesInBounds
<1>4. CASE TransmitChar
  <2>1. Used(tx_in, tx_out') = Used(tx_in, tx_out) - 1
    BY <1>4, UsedLess DEF TransmitChar, Shape
  <2>2. Used(tx_in, tx_out)' = Used(tx_in, tx_out')
    BY <1>4 DEF TransmitChar, Used
  <2>3. Used(rx_in, rx_out)' = Used(rx_in, rx_out)
    BY <1>4 DEF TransmitChar, Used
  <2>4. Used(tx_in, tx_out) \in Nat
    BY UsedCells DEF Shape, Index
  <2>5. UNCHANGED <<pc, n, tx_in, rx_out>> /\ n \in Nat
    BY <1>4 DEF TransmitChar, Shape
  <2> QED
    BY <2>1, <2>2, <2>3, <2>4, <2>5, Bounds DEF CopiesInBounds
<1>5. CASE WriteCopy \/ ReadCopy
  BY <1>5 DEF WriteCopy, ReadCopy, CopiesInBounds, Used
<1>6. ASSUME pc' \notin {"w_copy", "w_store", "r_copy", "r_store"} PROVE CopiesInBounds'
  BY <1>6 DEF CopiesInBounds
<1>7. CASE WriteStore \/ WriteKick \/ WriteWait \/ WriteAfter \/ ReadStore
           \/ ReadWait \/ ReadAfter \/ ReadEnable \/ CloseWait
  BY <1>6, <1>7 DEF WriteStore, WriteKick, WriteWait, WriteAfter, ReadStore,
     ReadWait, ReadAfter, ReadEnable, CloseWait
<1>8. ASSUME NEW label \in {"w_look", "r_look", "c_wait"}, NEW count \in Nat, Call(label, count)
      PROVE  CopiesInBounds'
  BY <1>6, <1>8 DEF Call
<1>9. ASSUME UNCHANGED <<pc, n, tx_in, tx_out, rx_in, rx_out>> PROVE CopiesInBounds'
  BY <1>9 DEF CopiesInBounds, Used
<1>10. CASE ReadControl \/ ReceiveNone \/ ReceiveFull \/ TransmitEnd \/ Alarm
            \/ HostTake \/ HostSend \/ HostPause \/ UNCHANGED vars
  BY <1>9, <1>10 DEF ReadControl, ReceiveNone, ReceiveFull, TransmitEnd, Alarm,
     HostTake, HostSend, HostPause, vars
<1>11. ASSUME NEW t \in Requests, SetTimeout(t) PROVE CopiesInBounds'
  BY <1>9, <1>11 DEF SetTimeout
<1> QED
  BY <1>1, <1>2, <1>3, <1>4, <1>5, <1>7, <1>8, <1>10, <1>11, Bounds
     DEF Next, CallDriver, ProgramStep, IsrStep

LEMMA OutputStep == Shape /\ NoStrandedOutput /\ [Next]_vars => NoStrandedOutput'
<1> SUFFICES ASSUME Shape, NoStrandedOutput, [Next]_vars PROVE NoStrandedOutput'
  OBVIOUS
<1> USE DEF elsewhere, outside, fifos, enables, routine, clock, rx, tx, call,
            Goto, Stay, Leave, NoStrandedOutput
<1>1. CASE WriteLook \/ WriteCopy \/ WriteStore \/ WriteKick
  BY <1>1 DEF WriteLook, WriteCopy, WriteStore, WriteKick
<1>2. CASE WriteWait \/ WriteAfter \/ ReadLook \/ ReadCopy \/ ReadStore \/ ReadWait
           \/ ReadAfter \/ ReadEnable \/ CloseWait
  BY <1>2 DEF WriteWait, WriteAfter, ReadLook, ReadCopy, ReadStore, ReadWait,
     ReadAfter, ReadEnable, CloseWait
<1>3. CASE TransmitChar
  BY <1>3 DEF TransmitChar
<1>4. CASE TransmitEnd
  <2>1. space > 0 \/ space = 0
    BY DEF Shape
  <2> QED
    BY <1>4, <2>1 DEF TransmitEnd, TransmitOn
<1>5. CASE ReadControl \/ ReceiveChar \/ ReceiveNone \/ ReceiveFull \/ Alarm
           \/ HostTake \/ HostSend \/ HostPause \/ UNCHANGED vars
  BY <1>5 DEF ReadControl, ReceiveChar, ReceiveNone, ReceiveFull, Alarm, HostTake,
     HostSend, HostPause, vars
<1>6. CASE CallDriver
  BY <1>6 DEF CallDriver, Call, SetTimeout
<1> QED
  BY <1>1, <1>2, <1>3, <1>4, <1>5, <1>6 DEF Next, ProgramStep, IsrStep

LEMMA InputStep == Shape /\ NoStrandedInput /\ [Next]_vars => NoStrandedInput'
<1> SUFFICES ASSUME Shape, NoStrandedInput, [Next]_vars PROVE NoStrandedInput'
  OBVIOUS
<1> USE DEF elsewhere, outside, fifos, enables, routine, clock, rx, tx, call,
            Goto, Stay, Leave, NoStrandedInput
<1>1. CASE ReadLook
  <2>1. Ready(rx_in, rx_out) = 0 => rx_in = rx_out
    BY ReadyFits DEF Shape
  <2> QED
    BY <1>1, <2>1 DEF ReadLook
<1>2. CASE ReadCopy \/ ReadStore \/ ReadWait \/ ReadAfter \/ ReadEnable \/ CloseWait
  BY <1>2 DEF ReadCopy, ReadStore, ReadWait, ReadAfter, ReadEnable, CloseWait
<1>3. CASE WriteLook \/ WriteCopy \/ WriteStore \/ WriteKick \/ WriteWait \/ WriteAfter
  BY <1>3 DEF WriteLook, WriteCopy, WriteStore, WriteKick, WriteWait, WriteAfter
<1>4. CASE ReceiveChar
  BY <1>4 DEF ReceiveChar, BufferFull
<1>5. CASE ReceiveFull
  <2>1. rx_in # rx_out
    BY <1>5, Behind DEF ReceiveFull, BufferFull, Shape
  <2> QED
    BY <1>5, <2>1 DEF ReceiveFull
<1>6. CASE ReadControl \/ ReceiveNone \/ TransmitChar \/ TransmitEnd \/ Alarm
           \/ HostTake \/ HostSend \/ HostPause \/ UNCHANGED vars
  BY <1>6 DEF ReadControl, ReceiveNone, TransmitChar, TransmitEnd, Alarm, HostTake,
     HostSend, HostPause, vars
<1>7. CASE CallDriver
  BY <1>7 DEF CallDriver, Call, SetTimeout
<1> QED
  BY <1>1, <1>2, <1>3, <1>4, <1>5, <1>6, <1>7 DEF Next, ProgramStep, IsrStep

-----------------------------------------------------------------------------
(* The theorems. *)

LEMMA DriverInvariant == Spec => []DriverInv
<1>1. Init => DriverInv
  <2>1. Init => Positions /\ CopiesInBounds /\ NoStrandedOutput /\ NoStrandedInput
    BY DEF Init, Positions, CopiesInBounds, NoStrandedOutput, NoStrandedInput
  <2> QED
    BY <2>1, ShapeInit DEF DriverInv
<1>2. DriverInv /\ [Next]_vars => DriverInv'
  BY ShapeStep, PositionsStep, CopiesStep, OutputStep, InputStep DEF DriverInv
<1> QED
  BY <1>1, <1>2, PTL DEF Spec

\* No copy leaves the array or touches a cell of the other side, for every length
\* of the buffer; write.c:105-126, read.c:122-140.
THEOREM InBounds == Spec => []CopiesInBounds
BY DriverInvariant, PTL DEF DriverInv

\* Output in the buffer has its interrupt, on or about to be turned on, and
\* receive interrupts that are off have a reader to turn them on; write.c:136-139,
\* read.c:188-195, init.c:156-162, 186-190.
THEOREM EverybodyServed == Spec => []NothingStranded
<1>1. DriverInv => NothingStranded
  BY DEF DriverInv, NothingStranded
<1> QED
  BY <1>1, DriverInvariant, PTL

\* The writer waits on an old tx_out only with the buffer full; write.c:183.
THEOREM WaitsForRoom == Spec => []WaitsOnlyWhenFull
<1>1. DriverInv => WaitsOnlyWhenFull
  BY FullBuffer DEF DriverInv, Shape, Positions, WaitsOnlyWhenFull
<1> QED
  BY <1>1, DriverInvariant, PTL
-----------------------------------------------------------------------------
(* Ring buffers as sequences. *)

LEMMA OneTurn ==
    \A x \in 0..(2 * BufLen - 1) :
       /\ x % BufLen \in Index
       /\ x < BufLen => x % BufLen = x
       /\ ~(x < BufLen) => x % BufLen = x - BufLen
<1> SUFFICES ASSUME NEW x \in 0..(2 * BufLen - 1)
             PROVE  /\ x % BufLen \in Index
                    /\ x < BufLen => x % BufLen = x
                    /\ ~(x < BufLen) => x % BufLen = x - BufLen
  OBVIOUS
<1>1. x \in Int /\ BufLen \in Nat
  BY Bounds
<1>2. /\ x % BufLen \in Index
      /\ x \in 0..(BufLen - 1) => x % BufLen = x
      /\ x \in BufLen..(2 * BufLen - 1) => x % BufLen = x - BufLen
  BY <1>1, Wrapping
<1> QED
  BY <1>1, <1>2

LEMMA UsedNat ==
    ASSUME NEW in \in Index, NEW out \in Index
    PROVE  /\ Used(in, out) \in Nat /\ Used(in, out) < BufLen
           /\ in # out => Used(in, out) >= 1
<1> DEFINE u == Used(in, out)
<1>1. u \in Index /\ u = IF in >= out THEN in - out ELSE in - out + BufLen
  BY UsedCells
<1> HIDE DEF u
<1>2. u \in Nat /\ u < BufLen /\ (in # out => u >= 1)
  BY <1>1, Bounds DEF Index
<1> QED
  BY <1>2 DEF u

\* The cell of the i-th character behind out.
LEMMA Cell ==
    ASSUME NEW out \in Index, NEW i \in 1..BufLen
    PROVE  /\ (out + i - 1) % BufLen \in Index
           /\ out + i - 1 < BufLen => (out + i - 1) % BufLen = out + i - 1
           /\ ~(out + i - 1 < BufLen) => (out + i - 1) % BufLen = (out + i - 1) - BufLen
<1>1. out + i - 1 \in 0..(2 * BufLen - 1)
  BY Bounds DEF Index
<1> QED
  BY <1>1, OneTurn, Zenon

LEMMA ContentsSeq ==
    ASSUME NEW buf \in [Index -> Character], NEW in \in Index, NEW out \in Index
    PROVE  /\ Contents(buf, in, out) \in Seq(Character)
           /\ Len(Contents(buf, in, out)) = Used(in, out)
           /\ \A i \in 1..Used(in, out) :
                 Contents(buf, in, out)[i] = buf[(out + i - 1) % BufLen]
<1> DEFINE u == Used(in, out)
           c == [i \in 1..u |-> buf[(out + i - 1) % BufLen]]
<1>1. u \in Nat /\ u < BufLen
  <2>1. u \in Index
    BY UsedCells
  <2> HIDE DEF u
  <2> QED
    BY <2>1, Bounds DEF Index
<1>2. ASSUME NEW i \in 1..u PROVE (out + i - 1) % BufLen \in Index
  BY <1>1, <1>2, Cell, Bounds
<1>3. c \in [1..u -> Character]
  BY <1>2
<1> HIDE DEF u
<1>4. c \in Seq(Character) /\ Len(c) = u /\ \A i \in 1..u : c[i] = buf[(out + i - 1) % BufLen]
  BY <1>1, <1>3
<1> QED
  BY <1>4 DEF Contents, u

\* A piece of m cells may end where the array ends.
LEMMA PieceEnd ==
    ASSUME NEW i \in Index, NEW m \in Nat, i + m <= BufLen
    PROVE  /\ Wrap(i + m) \in Index
           /\ Wrap(i + m) = IF i + m = BufLen THEN 0 ELSE i + m
<1> DEFINE x == i + m
<1>1. x \in Int /\ x \in 0..BufLen /\ BufLen \in Nat /\ BufLen > 0
  BY Bounds DEF Index
<1> HIDE DEF x
<1>2. /\ x % BufLen \in Index
      /\ x \in 0..(BufLen - 1) => x % BufLen = x
      /\ x \in BufLen..(2 * BufLen - 1) => x % BufLen = x - BufLen
  BY <1>1, Wrapping
<1>3. x % BufLen \in Index /\ x % BufLen = IF x = BufLen THEN 0 ELSE x
  BY <1>1, <1>2
<1> QED
  BY <1>3 DEF x, Wrap

\* Characters that are written behind the last one and then counted in.
LEMMA Appending ==
    ASSUME NEW buf \in [Index -> Character], NEW after \in [Index -> Character],
           NEW in \in Index, NEW out \in Index, NEW s \in Seq(Character), Len(s) > 0,
           in + Len(s) <= BufLen, Used(in, out) + Len(s) < BufLen,
           \A j \in Index : j \notin in..(in + Len(s) - 1) => after[j] = buf[j],
           \A k \in 1..Len(s) : after[in + k - 1] = s[k]
    PROVE  /\ Wrap(in + Len(s)) \in Index
           /\ Contents(after, Wrap(in + Len(s)), out) = Contents(buf, in, out) \o s
<1> DEFINE m == Len(s)
           to == Wrap(in + m)
           u == Used(in, out)
           old == Contents(buf, in, out)
           new == Contents(after, to, out)
<1>1. m \in Nat /\ m > 0
  OBVIOUS
<1>2. BufLen \in Nat /\ in \in Nat /\ out \in Nat /\ in < BufLen /\ out < BufLen
  BY Bounds DEF Index
<1>3. to \in Index /\ to = IF in + m = BufLen THEN 0 ELSE in + m
  BY <1>1, PieceEnd
<1>4. u \in Nat /\ u = IF in >= out THEN in - out ELSE in - out + BufLen
  BY <1>2, UsedCells DEF Index
<1>5. Used(to, out) = u + m
  <2>1. Used(to, out) = IF to >= out THEN to - out ELSE to - out + BufLen
    BY <1>3, UsedCells
  <2>2. u + m < BufLen /\ in + m <= BufLen
    OBVIOUS
  <2> DEFINE v == Used(to, out)
  <2>3. v = IF to >= out THEN to - out ELSE to - out + BufLen
    BY <2>1
  <2> HIDE DEF u, to, m, v
  <2>4. v = u + m
    BY <1>1, <1>2, <1>3, <1>4, <2>3, <2>2
  <2> QED
    BY <2>4 DEF v
<1>6. /\ old \in Seq(Character) /\ Len(old) = u
      /\ \A i \in 1..u : old[i] = buf[(out + i - 1) % BufLen]
  BY ContentsSeq
<1>7. /\ new \in Seq(Character) /\ Len(new) = u + m
      /\ \A i \in 1..(u + m) : new[i] = after[(out + i - 1) % BufLen]
  BY <1>3, <1>5, ContentsSeq
<1>8. /\ old \o s \in Seq(Character) /\ Len(old \o s) = u + m
      /\ \A i \in 1..(u + m) : (old \o s)[i] = IF i <= u THEN old[i] ELSE s[i - u]
  <2> HIDE DEF u, old
  <2>1. old \in Seq(Character) /\ s \in Seq(Character) /\ Len(old) = u /\ Len(s) = m
    BY <1>6
  <2> HIDE DEF m
  <2> QED
    BY <2>1, ConcatProperties
<1>9. ASSUME NEW i \in 1..(u + m) PROVE new[i] = (old \o s)[i]
  <2> DEFINE j == (out + i - 1) % BufLen
  <2>1. u + m < BufLen /\ in + m <= BufLen /\ i \in 1..BufLen
    BY <1>1, <1>2, <1>4, <1>9
  <2>2. j \in Index /\ (out + i - 1 < BufLen => j = out + i - 1)
        /\ (~(out + i - 1 < BufLen) => j = (out + i - 1) - BufLen)
    BY <2>1, Cell
  <2> HIDE DEF j, u, m, old, new
  <2>3. CASE i <= u
    <3>1. j \notin in..(in + m - 1)
      BY <1>1, <1>2, <1>4, <2>1, <2>2, <2>3
    <3>2. after[j] = buf[j]
      BY <2>2, <3>1 DEF m
    <3> QED
      BY <1>1, <1>4, <1>6, <1>7, <1>8, <1>9, <2>3, <3>2 DEF j
  <2>4. CASE i > u
    <3>1. j = in + (i - u) - 1 /\ i - u \in 1..m
      BY <1>1, <1>2, <1>4, <1>9, <2>1, <2>2, <2>4
    <3>2. after[j] = s[i - u]
      BY <3>1 DEF m
    <3> QED
      BY <1>1, <1>4, <1>7, <1>8, <1>9, <2>4, <3>2 DEF j
  <2>5. i <= u \/ i > u
    BY <1>1, <1>4, <1>9
  <2> QED
    BY <2>3, <2>4, <2>5
<1> HIDE DEF u, m, old, new, to
<1>10. new = old \o s
  BY <1>7, <1>8, <1>9, SeqEqual
<1> QED
  BY <1>3, <1>10 DEF new, old, to, m

\* Characters that are counted out.
LEMMA Dropping ==
    ASSUME NEW buf \in [Index -> Character], NEW in \in Index, NEW out \in Index,
           NEW m \in Nat, m > 0, out + m <= BufLen, m <= Used(in, out)
    PROVE  /\ Wrap(out + m) \in Index
           /\ Used(in, Wrap(out + m)) = Used(in, out) - m
           /\ Contents(buf, in, Wrap(out + m)) =
                 SubSeq(Contents(buf, in, out), m + 1, Used(in, out))
<1> DEFINE to == Wrap(out + m)
           u == Used(in, out)
           old == Contents(buf, in, out)
           new == Contents(buf, in, to)
           rest == SubSeq(old, m + 1, u)
<1>2. BufLen \in Nat /\ in \in Nat /\ out \in Nat /\ in < BufLen /\ out < BufLen
  BY Bounds DEF Index
<1>3. to \in Index /\ to = IF out + m = BufLen THEN 0 ELSE out + m
  BY PieceEnd
<1>4. u \in Nat /\ u < BufLen /\ u = IF in >= out THEN in - out ELSE in - out + BufLen
  BY <1>2, UsedCells DEF Index
<1>5. Used(in, to) = u - m
  <2>1. Used(in, to) = IF in >= to THEN in - to ELSE in - to + BufLen
    BY <1>3, UsedCells
  <2>2. out + m <= BufLen /\ m <= u
    OBVIOUS
  <2> DEFINE v == Used(in, to)
  <2>3. v = IF in >= to THEN in - to ELSE in - to + BufLen
    BY <2>1
  <2> HIDE DEF u, to, v
  <2>4. v = u - m
    BY <1>2, <1>3, <1>4, <2>3, <2>2
  <2> QED
    BY <2>4 DEF v
<1>6. /\ old \in Seq(Character) /\ Len(old) = u
      /\ \A i \in 1..u : old[i] = buf[(out + i - 1) % BufLen]
  BY ContentsSeq
<1>7. /\ new \in Seq(Character) /\ Len(new) = u - m
      /\ \A i \in 1..(u - m) : new[i] = buf[(to + i - 1) % BufLen]
  BY <1>3, <1>5, ContentsSeq
<1>8. /\ rest \in Seq(Character) /\ Len(rest) = u - m
      /\ \A i \in 1..(u - m) : rest[i] = old[m + i]
  <2> HIDE DEF old, u
  <2>1. \A i \in (m + 1)..u : old[i] \in Character
    BY <1>4, <1>6, ElementOfSeq
  <2>2. m <= u
    BY DEF u
  <2>3. /\ rest \in Seq(Character)
        /\ Len(rest) = IF m + 1 <= u THEN u - (m + 1) + 1 ELSE 0
        /\ \A i \in 1..(u - (m + 1) + 1) : rest[i] = old[m + 1 + i - 1]
    BY <1>4, <2>1, SubSeqProperties
  <2>4. u - (m + 1) + 1 = u - m
    BY <1>4
  <2>5. Len(rest) = u - m
    BY <1>4, <2>2, <2>3
  <2>6. ASSUME NEW i \in 1..(u - m) PROVE rest[i] = old[m + i]
    <3>1. m + 1 + i - 1 = m + i
      OBVIOUS
    <3> QED
      BY <2>3, <2>4, <2>6, <3>1
  <2> QED
    BY <2>3, <2>5, <2>6
<1>9. ASSUME NEW i \in 1..(u - m) PROVE new[i] = rest[i]
  <2>1. i \in 1..BufLen /\ m + i \in 1..BufLen /\ m + i \in 1..u
    BY <1>2, <1>4, <1>9
  <2>2. /\ to + i - 1 < BufLen => (to + i - 1) % BufLen = to + i - 1
        /\ ~(to + i - 1 < BufLen) => (to + i - 1) % BufLen = (to + i - 1) - BufLen
    BY <1>3, <2>1, Cell
  <2>3. /\ out + (m + i) - 1 < BufLen => (out + (m + i) - 1) % BufLen = out + (m + i) - 1
        /\ ~(out + (m + i) - 1 < BufLen)
              => (out + (m + i) - 1) % BufLen = (out + (m + i) - 1) - BufLen
    BY <2>1, Cell
  <2>4. (to + i - 1) % BufLen = (out + (m + i) - 1) % BufLen
    <3>1. i \in Nat /\ i >= 1
      BY <1>9
    <3> HIDE DEF to
    <3> QED
      BY <1>2, <1>3, <2>1, <2>2, <2>3, <3>1
  <2> HIDE DEF old, new, rest, u, to
  <2> QED
    BY <1>6, <1>7, <1>8, <1>9, <2>1, <2>4
<1> HIDE DEF u, old, new, rest, to
<1>10. new = rest
  BY <1>7, <1>8, <1>9, SeqEqual
<1> QED
  BY <1>3, <1>5, <1>10 DEF new, rest, old, to, u
-----------------------------------------------------------------------------
(* The output implements the FIFO of CharFifo. *)

\* There is room in the device for every character the interrupt routine is going
\* to move, and the characters of a copy lie behind the last one of the buffer.
TxInv ==
    /\ space + Len(wfifo) <= WriteDepth
    /\ pc = "w_store" => \A i \in tx_in..(tx_in + n - 1) :
                            tx_buf[i] = (txNext + i - tx_in) % Numbers

LEMMA TxInvInit == Init => TxInv
BY Bounds DEF Init, TxInv

LEMMA TxInvStep == Shape /\ CopiesInBounds /\ TxInv /\ [Next]_vars => TxInv'
<1> SUFFICES ASSUME Shape, CopiesInBounds, TxInv, [Next]_vars PROVE TxInv'
  OBVIOUS
<1> USE DEF elsewhere, outside, fifos, enables, routine, clock, rx, tx, call,
            Goto, Stay, Leave
<1>1. Len(wfifo) \in Nat /\ space \in Nat
  BY DEF Shape
<1>2. ASSUME UNCHANGED <<pc, n, tx_in, tx_buf, txNext, wfifo, space>> PROVE TxInv'
  BY <1>2 DEF TxInv
<1>3. ASSUME UNCHANGED <<wfifo, space>>, pc' # "w_store" PROVE TxInv'
  BY <1>3 DEF TxInv
<1>4. CASE WriteCopy
  <2>1. tx_in \in Index /\ n \in Nat /\ tx_in + n <= BufLen
    BY <1>4, Bounds DEF WriteCopy, CopiesInBounds, Shape
  <2>2. ASSUME NEW i \in tx_in..(tx_in + n - 1) PROVE i \in Index
    BY <2>1, <2>2, Bounds DEF Index
  <2>3. UNCHANGED <<tx_in, n, txNext, wfifo, space>>
    BY <1>4 DEF WriteCopy
  <2>4. ASSUME NEW i \in tx_in..(tx_in + n - 1)
        PROVE  tx_buf'[i] = (txNext + i - tx_in) % Numbers
    BY <1>4, <2>2, <2>4 DEF WriteCopy
  <2> QED
    BY <2>3, <2>4 DEF TxInv
<1>5. CASE WriteLook \/ WriteStore \/ WriteKick \/ WriteWait \/ WriteAfter \/ ReadLook
           \/ ReadCopy \/ ReadStore \/ ReadWait \/ ReadAfter \/ ReadEnable \/ CloseWait
  BY <1>3, <1>5 DEF WriteLook, WriteStore, WriteKick, WriteWait, WriteAfter, ReadLook,
     ReadCopy, ReadStore, ReadWait, ReadAfter, ReadEnable, CloseWait
<1>6. CASE CallDriver
  BY <1>2, <1>3, <1>6 DEF CallDriver, Call, SetTimeout
<1>7. CASE ReadControl
  <2>1. space' + Len(wfifo) <= WriteDepth
    BY <1>1, <1>7, Bounds DEF ReadControl, Shape
  <2> QED
    BY <1>7, <2>1 DEF ReadControl, TxInv
<1>8. CASE TransmitChar
  <2>1. space' = space - 1 /\ space > 0
    BY <1>8 DEF TransmitChar, SpaceLeft
  <2>2. Len(wfifo') <= Len(wfifo) + 1 /\ Len(wfifo') \in Nat
    <3>1. tx_buf[tx_out] \in Character /\ wfifo \in Seq(Character)
      BY DEF Shape
    <3> QED
      BY <1>1, <1>8, <3>1 DEF TransmitChar
  <2>3. space' + Len(wfifo') <= WriteDepth
    <3>1. space + Len(wfifo) <= WriteDepth
      BY DEF TxInv
    <3> QED
      BY <1>1, <2>1, <2>2, <3>1, Bounds
  <2> QED
    BY <1>8, <2>3 DEF TransmitChar, TxInv
<1>9. CASE TransmitEnd
  <2>1. space' = 0 /\ UNCHANGED wfifo
    BY <1>9 DEF TransmitEnd
  <2>2. space' + Len(wfifo') <= WriteDepth
    BY <1>1, <2>1, Bounds DEF Shape
  <2> QED
    BY <1>9, <2>2 DEF TransmitEnd, TxInv
<1>10. CASE HostTake
  <2>1. Len(wfifo') <= Len(wfifo) /\ Len(wfifo') \in Nat /\ UNCHANGED space
    BY <1>10 DEF HostTake, Shape
  <2>2. space' + Len(wfifo') <= WriteDepth
    <3>1. space + Len(wfifo) <= WriteDepth
      BY DEF TxInv
    <3> QED
      BY <1>1, <2>1, <3>1, Bounds
  <2> QED
    BY <1>10, <2>2 DEF HostTake, TxInv
<1>11. CASE ReceiveChar \/ ReceiveNone \/ ReceiveFull \/ Alarm \/ HostSend \/ HostPause
            \/ UNCHANGED vars
  BY <1>2, <1>11 DEF ReceiveChar, ReceiveNone, ReceiveFull, Alarm, HostSend, HostPause, vars
<1> QED
  BY <1>4, <1>5, <1>6, <1>7, <1>8, <1>9, <1>10, <1>11 DEF Next, ProgramStep, IsrStep

TxQueue == wfifo \o Contents(tx_buf, tx_in, tx_out)

LEMMA TxQueueSeq ==
    ASSUME Shape
    PROVE  /\ Contents(tx_buf, tx_in, tx_out) \in Seq(Character)
           /\ TxQueue \in Seq(Character)
           /\ Len(TxQueue) = Len(wfifo) + Used(tx_in, tx_out)
           /\ Used(tx_in, tx_out) \in Nat /\ Used(tx_in, tx_out) < BufLen
<1>1. /\ wfifo \in Seq(Character) /\ tx_in \in Index /\ tx_out \in Index
      /\ tx_buf \in [Index -> Character]
  BY DEF Shape
<1>2. /\ Contents(tx_buf, tx_in, tx_out) \in Seq(Character)
      /\ Len(Contents(tx_buf, tx_in, tx_out)) = Used(tx_in, tx_out)
  BY <1>1, ContentsSeq
<1>3. Used(tx_in, tx_out) \in Nat /\ Used(tx_in, tx_out) < BufLen
  BY <1>1, UsedNat
<1> QED
  BY <1>1, <1>2, <1>3, ConcatProperties DEF TxQueue

\* write.c:108-124: a copy does not touch the characters on their way.
LEMMA TxCopy ==
    ASSUME Shape, CopiesInBounds, WriteCopy
    PROVE  UNCHANGED <<TxQueue, txNext, txDone>>
<1> DEFINE u == Used(tx_in, tx_out)
<1>1. /\ UNCHANGED <<tx_in, tx_out, txNext, txDone, wfifo>>
      /\ n \in Nat /\ tx_in + n <= BufLen /\ u + n < BufLen
      /\ \A j \in Index : j \notin tx_in..(tx_in + n - 1) => tx_buf'[j] = tx_buf[j]
  BY Bounds DEF WriteCopy, Stay, Goto, CopiesInBounds, Shape, elsewhere, fifos
<1>2. /\ tx_in \in Nat /\ tx_out \in Nat /\ tx_in < BufLen /\ tx_out < BufLen
      /\ tx_in \in Index /\ tx_out \in Index /\ BufLen \in Nat
  BY Bounds DEF Shape, Index
<1>3. u \in Nat /\ u = IF tx_in >= tx_out THEN tx_in - tx_out ELSE tx_in - tx_out + BufLen
  BY <1>2, UsedCells DEF Index
<1>4. ASSUME NEW i \in 1..u
      PROVE  tx_buf'[(tx_out + i - 1) % BufLen] = tx_buf[(tx_out + i - 1) % BufLen]
  <2> DEFINE j == (tx_out + i - 1) % BufLen
  <2>1. i \in 1..BufLen
    BY <1>1, <1>2, <1>3
  <2>2. /\ j \in Index
        /\ tx_out + i - 1 < BufLen => j = tx_out + i - 1
        /\ ~(tx_out + i - 1 < BufLen) => j = (tx_out + i - 1) - BufLen
    BY <1>2, <2>1, Cell
  <2> HIDE DEF j, u
  <2>3. j \notin tx_in..(tx_in + n - 1)
    BY <1>1, <1>2, <1>3, <2>1, <2>2
  <2> QED
    BY <1>1, <2>2, <2>3 DEF j
<1>5. Contents(tx_buf, tx_in, tx_out)' = Contents(tx_buf, tx_in, tx_out)
  BY <1>1, <1>4 DEF Contents, Used
<1> QED
  BY <1>1, <1>5 DEF TxQueue

\* write.c:126: the characters of the copy go in, in their order.
LEMMA TxStore ==
    ASSUME Shape, CopiesInBounds, TxInv, WriteStore
    PROVE  Tx!Put(n) /\ n \in 1..(BufLen - 1 + WriteDepth)
<1> DEFINE s == [k \in 1..n |-> (txNext + k - 1) % Numbers]
<1>1. /\ UNCHANGED <<tx_out, tx_buf, txDone, wfifo>>
      /\ tx_in' = Wrap(tx_in + n) /\ txNext' = (txNext + n) % Numbers
      /\ n \in Nat /\ n > 0 /\ tx_in + n <= BufLen /\ Used(tx_in, tx_out) + n < BufLen
  BY Bounds DEF WriteStore, Goto, CopiesInBounds, Shape, elsewhere, fifos
<1>2. s \in Seq(Character) /\ Len(s) = n /\ \A k \in 1..n : s[k] = (txNext + k - 1) % Numbers
  <2>1. ASSUME NEW k \in 1..n PROVE (txNext + k - 1) % Numbers \in Character
    <3>1. txNext + k - 1 \in Int
      BY DEF Shape
    <3> QED
      BY <3>1, Numbering
  <2>2. s \in [1..n -> Character]
    BY <2>1
  <2> QED
    BY <1>1, <2>2
<1> HIDE DEF s
<1>3. \A k \in 1..Len(s) : tx_buf[tx_in + k - 1] = s[k]
  <2> SUFFICES ASSUME NEW k \in 1..n PROVE tx_buf[tx_in + k - 1] = s[k]
    BY <1>2
  <2>1. /\ tx_in + k - 1 \in tx_in..(tx_in + n - 1)
        /\ txNext + (tx_in + k - 1) - tx_in = txNext + k - 1
    BY <1>1 DEF Shape, Index
  <2>2. tx_buf[tx_in + k - 1] = (txNext + (tx_in + k - 1) - tx_in) % Numbers
    BY <2>1 DEF TxInv, WriteStore
  <2> QED
    BY <1>2, <2>1, <2>2
<1>4. Contents(tx_buf, Wrap(tx_in + n), tx_out) = Contents(tx_buf, tx_in, tx_out) \o s
  <2>1. /\ tx_buf \in [Index -> Character] /\ tx_in \in Index /\ tx_out \in Index
        /\ Len(s) > 0 /\ tx_in + Len(s) <= BufLen /\ Used(tx_in, tx_out) + Len(s) < BufLen
    BY <1>1, <1>2 DEF Shape
  <2>2. Contents(tx_buf, Wrap(tx_in + Len(s)), tx_out) = Contents(tx_buf, tx_in, tx_out) \o s
    BY <1>2, <1>3, <2>1, Appending
  <2> QED
    BY <1>2, <2>2
<1>5. TxQueue' = TxQueue \o s
  <2>1. TxQueue' = wfifo \o (Contents(tx_buf, tx_in, tx_out) \o s)
    BY <1>1, <1>4 DEF TxQueue, Contents, Used
  <2>2. wfifo \in Seq(Character) /\ Contents(tx_buf, tx_in, tx_out) \in Seq(Character)
    BY TxQueueSeq DEF Shape
  <2>3. (wfifo \o Contents(tx_buf, tx_in, tx_out)) \o s
          = wfifo \o (Contents(tx_buf, tx_in, tx_out) \o s)
    BY <1>2, <2>2, ConcatAssociative
  <2> QED
    BY <2>1, <2>3 DEF TxQueue
<1>6. Len(TxQueue) + n <= BufLen - 1 + WriteDepth /\ n <= BufLen - 1 + WriteDepth
  <2>1. /\ Len(wfifo) \in Nat /\ Len(wfifo) <= WriteDepth
        /\ Used(tx_in, tx_out) \in Nat /\ Len(TxQueue) = Len(wfifo) + Used(tx_in, tx_out)
    BY TxQueueSeq DEF Shape
  <2> QED
    BY <1>1, <2>1, Bounds
<1>7. Tx!Put(n)
  BY <1>1, <1>5, <1>6 DEF Tx!Put, TxQueue, s
<1> QED
  BY <1>1, <1>6, <1>7, Bounds

\* init.c:171-184: the interrupt routine takes the oldest character of the buffer
\* and the device has room for it.
LEMMA TxMove ==
    ASSUME Shape, TxInv, TransmitChar
    PROVE  UNCHANGED <<TxQueue, txNext, txDone>>
<1> DEFINE c == Contents(tx_buf, tx_in, tx_out)
           u == Used(tx_in, tx_out)
           x == tx_buf[tx_out]
<1>1. /\ tx_in \in Index /\ tx_out \in Index /\ tx_buf \in [Index -> Character]
      /\ wfifo \in Seq(Character) /\ x \in Character
  BY DEF Shape
<1>2. wfifo' = wfifo \o <<x>>
  <2>1. Len(wfifo) < WriteDepth
    BY Bounds DEF TransmitChar, TxInv, Shape
  <2> QED
    BY <1>1, <2>1 DEF TransmitChar
<1>3. /\ tx_out' = Wrap(tx_out + 1) /\ tx_in # tx_out
      /\ UNCHANGED <<tx_in, tx_buf, txNext, txDone>>
  BY DEF TransmitChar
<1>4. u \in Nat /\ u >= 1 /\ u < BufLen /\ tx_out + 1 <= BufLen
  <2>1. u \in Nat /\ u >= 1 /\ u < BufLen
    BY <1>1, <1>3, UsedNat
  <2>2. tx_out + 1 <= BufLen
    BY <1>1, Bounds DEF Index
  <2> QED
    BY <2>1, <2>2
<1>5. Contents(tx_buf, tx_in, Wrap(tx_out + 1)) = SubSeq(c, 2, u)
  BY <1>1, <1>4, Dropping
<1>6. c \in Seq(Character) /\ Len(c) = u /\ c[1] = x
  <2>1. /\ c \in Seq(Character) /\ Len(c) = u
        /\ \A i \in 1..u : c[i] = tx_buf[(tx_out + i - 1) % BufLen]
    BY <1>1, ContentsSeq
  <2>2. (tx_out + 1 - 1) % BufLen = tx_out
    BY <1>1, Bounds, Wrapping DEF Index
  <2> QED
    BY <1>4, <2>1, <2>2
<1> HIDE DEF c, u, x
<1>7. c = <<x>> \o SubSeq(c, 2, u)
  <2>1. SubSeq(c, 1, u) = <<c[1]>> \o SubSeq(c, 1 + 1, u)
    BY <1>4, <1>6, SubSeqRecursiveFirst
  <2>2. SubSeq(c, 1, u) = c
    BY <1>6, SubSeqFull
  <2> QED
    BY <1>6, <2>1, <2>2
<1>8. TxQueue' = (wfifo \o <<x>>) \o SubSeq(c, 2, u)
  BY <1>2, <1>3, <1>5 DEF TxQueue, Contents, Used
<1>9. SubSeq(c, 2, u) \in Seq(Character) /\ <<x>> \in Seq(Character)
  <2>1. <<x>> \in Seq(Character)
    BY <1>1 DEF x
  <2>2. \A i \in 2..u : c[i] \in Character
    BY <1>4, <1>6, ElementOfSeq
  <2> QED
    BY <1>4, <2>1, <2>2, SubSeqProperties
<1>10. TxQueue = wfifo \o c
  BY DEF TxQueue, c
<1>11. TxQueue' = TxQueue
  BY <1>1, <1>7, <1>8, <1>9, <1>10, ConcatAssociative
<1> QED
  BY <1>3, <1>11

\* The host takes the oldest character of all.
LEMMA TxTake ==
    ASSUME Shape, HostTake
    PROVE  Tx!Get(1)
<1> DEFINE c == Contents(tx_buf, tx_in, tx_out)
<1>1. /\ wfifo \in Seq(Character) /\ wfifo # <<>> /\ c \in Seq(Character)
      /\ wfifo' = Tail(wfifo) /\ txDone' = (txDone + 1) % Numbers
      /\ UNCHANGED <<tx_in, tx_out, tx_buf, txNext>>
  BY TxQueueSeq DEF HostTake, Shape
<1> HIDE DEF c
<1>2. TxQueue = wfifo \o c /\ TxQueue' = Tail(wfifo) \o c
  BY <1>1 DEF TxQueue, c, Contents, Used
<1>3. /\ TxQueue \in Seq(Character) /\ Len(TxQueue) = Len(wfifo) + Len(c)
      /\ Len(wfifo) \in Nat /\ Len(wfifo) >= 1 /\ Len(c) \in Nat
  <2>1. Len(wfifo) \in Nat /\ Len(wfifo) >= 1 /\ Len(c) \in Nat
    BY <1>1, EmptySeq, LenProperties
  <2> QED
    BY <1>1, <1>2, <2>1, ConcatProperties
<1>4. Tail(TxQueue) = Tail(wfifo) \o c
  <2>1. /\ \A i \in 1..(Len(wfifo) + Len(c)) :
              TxQueue[i] = IF i <= Len(wfifo) THEN wfifo[i] ELSE c[i - Len(wfifo)]
    BY <1>1, <1>2, ConcatProperties
  <2>2. /\ Tail(wfifo) \in Seq(Character) /\ Len(Tail(wfifo)) = Len(wfifo) - 1
        /\ \A i \in 1..(Len(wfifo) - 1) : Tail(wfifo)[i] = wfifo[i + 1]
    BY <1>1, HeadTailProperties
  <2> DEFINE t == Tail(wfifo) \o c
             q == Tail(TxQueue)
  <2>3. /\ t \in Seq(Character) /\ Len(t) = (Len(wfifo) - 1) + Len(c)
        /\ \A i \in 1..((Len(wfifo) - 1) + Len(c)) :
              t[i] = IF i <= Len(wfifo) - 1 THEN Tail(wfifo)[i]
                     ELSE c[i - (Len(wfifo) - 1)]
    BY <1>1, <2>2, ConcatProperties
  <2>4. TxQueue # <<>>
    BY <1>3, EmptySeq
  <2>5. /\ q \in Seq(Character) /\ Len(q) = Len(TxQueue) - 1
        /\ \A i \in 1..(Len(TxQueue) - 1) : q[i] = TxQueue[i + 1]
    BY <1>3, <2>4, HeadTailProperties
  <2> HIDE DEF t, q
  <2>6. Len(q) = Len(t) /\ Len(t) = (Len(wfifo) - 1) + Len(c)
    BY <1>3, <2>3, <2>5
  <2>7. ASSUME NEW i \in 1..Len(t) PROVE q[i] = t[i]
    <3>1. /\ i \in 1..((Len(wfifo) - 1) + Len(c)) /\ i + 1 \in 1..(Len(wfifo) + Len(c))
          /\ i \in 1..(Len(TxQueue) - 1)
      BY <1>3, <2>6
    <3>2. q[i] = TxQueue[i + 1]
      BY <2>5, <3>1
    <3>3. CASE i <= Len(wfifo) - 1
      <4>1. t[i] = wfifo[i + 1]
        BY <1>3, <2>2, <2>3, <3>1, <3>3
      <4>2. i + 1 <= Len(wfifo)
        BY <1>3, <3>3
      <4> QED
        BY <2>1, <3>1, <3>2, <4>1, <4>2
    <3>4. CASE ~(i <= Len(wfifo) - 1)
      <4>1. ~(i + 1 <= Len(wfifo)) /\ (i + 1) - Len(wfifo) = i - (Len(wfifo) - 1)
        BY <1>3, <3>4
      <4>2. t[i] = c[i - (Len(wfifo) - 1)]
        BY <2>3, <3>1, <3>4
      <4>3. TxQueue[i + 1] = c[(i + 1) - Len(wfifo)]
        BY <2>1, <3>1, <4>1
      <4> QED
        BY <3>2, <4>1, <4>2, <4>3
    <3> QED
      BY <3>3, <3>4
  <2>8. q = t
    BY <2>3, <2>5, <2>6, <2>7, SeqEqual
  <2> QED
    BY <2>8 DEF q, t
<1>5. Tail(TxQueue) = SubSeq(TxQueue, 1 + 1, Len(TxQueue))
  <2>1. TxQueue # <<>>
    BY <1>3, EmptySeq
  <2> QED
    BY <1>3, <2>1, TailIsSubSeq
<1>6. 1 <= Len(TxQueue)
  <2> DEFINE k == Len(wfifo)
             l == Len(c)
  <2>1. Len(TxQueue) = k + l /\ k \in Nat /\ k >= 1 /\ l \in Nat
    BY <1>3
  <2> HIDE DEF k, l
  <2> QED
    BY <2>1
<1>7. TxQueue' = SubSeq(TxQueue, 1 + 1, Len(TxQueue))
  BY <1>2, <1>4, <1>5, Zenon
<1> QED
  BY <1>1, <1>6, <1>7 DEF Tx!Get, TxQueue

\* write.c:87-160, init.c:163-192: for every length of the buffer and every depth
\* of the FIFO, and in every interleaving, the output is a FIFO: no character is
\* lost, made up, repeated or overtaken.
THEOREM OutputIsFifo == Spec => TxSpec
<1>1. Init => Tx!Init
  <2> SUFFICES ASSUME Init PROVE Tx!Init
    OBVIOUS
  <2>1. tx_in = 0 /\ tx_out = 0 /\ wfifo = <<>> /\ txNext = 0 /\ txDone = 0
    BY DEF Init
  <2>2. Shape
    BY ShapeInit
  <2>3. Len(TxQueue) = 0 /\ TxQueue \in Seq(Character)
    <3>1. 0 \in Index /\ Used(0, 0) = 0
      <4>1. 0 \in Index
        BY Bounds DEF Index
      <4> QED
        BY <4>1, UsedCells
    <3>2. Len(<<>>) = 0
      BY EmptySeq
    <3>3. Len(TxQueue) = Len(wfifo) + Used(tx_in, tx_out) /\ TxQueue \in Seq(Character)
      BY <2>2, TxQueueSeq
    <3> QED
      BY <2>1, <3>1, <3>2, <3>3
  <2>4. TxQueue = <<>>
    BY <2>3, EmptySeq
  <2> QED
    BY <2>1, <2>4 DEF Tx!Init, TxQueue
<1>2. DriverInv /\ TxInv /\ [Next]_vars => [Tx!Next]_(Tx!vars)
  <2> SUFFICES ASSUME DriverInv, TxInv, [Next]_vars
               PROVE  Tx!Next \/ UNCHANGED <<TxQueue, txNext, txDone>>
    BY DEF Tx!vars, TxQueue
  <2> USE DEF elsewhere, outside, fifos, enables, routine, clock, rx, tx, call,
              Goto, Stay, Leave
  <2>1. Shape /\ CopiesInBounds
    BY DEF DriverInv
  <2>2. ASSUME UNCHANGED <<tx_in, tx_out, tx_buf, txNext, txDone, wfifo>>
        PROVE  UNCHANGED <<TxQueue, txNext, txDone>>
    BY <2>2 DEF TxQueue, Contents, Used
  <2>3. CASE WriteCopy
    BY <2>1, <2>3, TxCopy
  <2>4. CASE WriteStore
    BY <2>1, <2>4, TxStore DEF Tx!Next
  <2>5. CASE TransmitChar
    BY <2>1, <2>5, TxMove
  <2>6. CASE HostTake
    <3>1. 1 \in 1..(BufLen - 1 + WriteDepth)
      BY Bounds
    <3> QED
      BY <2>1, <2>6, <3>1, TxTake DEF Tx!Next
  <2>7. CASE WriteLook \/ WriteKick \/ WriteWait \/ WriteAfter \/ ReadLook
             \/ ReadCopy \/ ReadStore \/ ReadWait \/ ReadAfter \/ ReadEnable \/ CloseWait
    BY <2>2, <2>7 DEF WriteLook, WriteKick, WriteWait, WriteAfter, ReadLook,
       ReadCopy, ReadStore, ReadWait, ReadAfter, ReadEnable, CloseWait
  <2>8. CASE CallDriver
    BY <2>2, <2>8 DEF CallDriver, Call, SetTimeout
  <2>9. CASE ReadControl \/ ReceiveChar \/ ReceiveNone \/ ReceiveFull \/ TransmitEnd
             \/ Alarm \/ HostSend \/ HostPause \/ UNCHANGED vars
    BY <2>2, <2>9 DEF ReadControl, ReceiveChar, ReceiveNone, ReceiveFull, TransmitEnd,
       Alarm, HostSend, HostPause, vars
  <2> QED
    BY <2>3, <2>4, <2>5, <2>6, <2>7, <2>8, <2>9 DEF Next, ProgramStep, IsrStep
<1>3. DriverInv /\ TxInv /\ [Next]_vars => TxInv'
  BY TxInvStep DEF DriverInv
<1> QED
  BY <1>1, <1>2, <1>3, TxInvInit, DriverInvariant, PTL DEF Spec, TxSpec, Tx!Spec
-----------------------------------------------------------------------------
(* The input implements the FIFO of CharFifo. *)

LEMMA FrontAndRest ==
    ASSUME NEW c \in Seq(Character), NEW k \in 0..Len(c), NEW d, d = SubSeq(c, 1, k)
    PROVE  d \o SubSeq(c, Len(d) + 1, Len(c)) = c
<1> DEFINE l == Len(c)
<1>1. l \in Nat /\ k \in Nat /\ k <= l
  <2>1. l \in Nat
    OBVIOUS
  <2> HIDE DEF l
  <2> QED
    BY <2>1 DEF l
<1>2. \A i \in 1..k : c[i] \in Character
  <2> HIDE DEF l
  <2>1. \A i \in 1..k : i \in 1..l
    BY <1>1
  <2> QED
    BY <2>1, ElementOfSeq DEF l
<1>3. Len(d) = k
  <2> HIDE DEF l
  <2>1. Len(SubSeq(c, 1, k)) = IF 1 <= k THEN k - 1 + 1 ELSE 0
    BY <1>1, <1>2, SubSeqProperties
  <2> QED
    BY <1>1, <2>1
<1>4. SubSeq(c, 1, k) \o SubSeq(c, k + 1, l) = SubSeq(c, 1, l)
  <2> HIDE DEF l
  <2>1. 1 \in 1..(l + 1) /\ k \in (1 - 1)..l /\ l \in k..l
    BY <1>1
  <2> QED
    BY <2>1, ConcatAdjacentSubSeq DEF l
<1>5. SubSeq(c, 1, l) = c
  BY SubSeqFull
<1> QED
  BY <1>3, <1>4, <1>5

\* What is left of two sequences in a row when a part of the first is taken.
LEMMA DropFront ==
    ASSUME NEW c \in Seq(Character), NEW f \in Seq(Character), NEW k \in 0..Len(c)
    PROVE  SubSeq(c, k + 1, Len(c)) \o f = SubSeq(c \o f, k + 1, Len(c \o f))
<1> DEFINE l == Len(c)
           m == Len(f)
           w == c \o f
           rest == SubSeq(c, k + 1, l)
           a == rest \o f
           b == SubSeq(w, k + 1, l + m)
<1>1. l \in Nat /\ m \in Nat
  OBVIOUS
<1>2. k \in Nat /\ k <= l
  <2> HIDE DEF l
  <2> QED
    BY <1>1 DEF l
<1>3. /\ w \in Seq(Character) /\ Len(w) = l + m
      /\ \A i \in 1..(l + m) : w[i] = IF i <= l THEN c[i] ELSE f[i - l]
  BY ConcatProperties
<1>4. (\A i \in 1..l : c[i] \in Character) /\ (\A i \in 1..(l + m) : w[i] \in Character)
  <2> HIDE DEF w
  <2> QED
    BY <1>3, ElementOfSeq
<1> HIDE DEF l, m, w
<1>5. /\ rest \in Seq(Character) /\ Len(rest) = l - k
      /\ \A i \in 1..(l - k) : rest[i] = c[k + i]
  <2>1. \A i \in (k + 1)..l : c[i] \in Character
    BY <1>1, <1>2, <1>4
  <2>2. /\ rest \in Seq(Character)
        /\ Len(rest) = IF k + 1 <= l THEN l - (k + 1) + 1 ELSE 0
        /\ \A i \in 1..(l - (k + 1) + 1) : rest[i] = c[k + 1 + i - 1]
    BY <1>1, <1>2, <2>1, SubSeqProperties
  <2>3. l - (k + 1) + 1 = l - k /\ Len(rest) = l - k
    BY <1>1, <1>2, <2>2
  <2>4. \A i \in 1..(l - k) : k + 1 + i - 1 = k + i
    BY <1>2
  <2> QED
    BY <2>2, <2>3, <2>4
<1>6. /\ b \in Seq(Character) /\ Len(b) = (l - k) + m
      /\ \A i \in 1..((l - k) + m) : b[i] = w[k + i]
  <2>1. \A i \in (k + 1)..(l + m) : w[i] \in Character
    BY <1>1, <1>2, <1>4
  <2>2. /\ b \in Seq(Character)
        /\ Len(b) = IF k + 1 <= l + m THEN (l + m) - (k + 1) + 1 ELSE 0
        /\ \A i \in 1..((l + m) - (k + 1) + 1) : b[i] = w[k + 1 + i - 1]
    BY <1>1, <1>2, <2>1, SubSeqProperties
  <2>3. (l + m) - (k + 1) + 1 = (l - k) + m /\ Len(b) = (l - k) + m
    BY <1>1, <1>2, <2>2
  <2>4. \A i \in 1..((l - k) + m) : k + 1 + i - 1 = k + i
    BY <1>2
  <2> QED
    BY <2>2, <2>3, <2>4
<1> HIDE DEF rest, b
<1>7. /\ a \in Seq(Character) /\ Len(a) = (l - k) + m
      /\ \A i \in 1..((l - k) + m) : a[i] = IF i <= l - k THEN rest[i] ELSE f[i - (l - k)]
  BY <1>5, ConcatProperties DEF m
<1> HIDE DEF a
<1>8. ASSUME NEW i \in 1..((l - k) + m) PROVE a[i] = b[i]
  <2>1. k + i \in 1..(l + m) /\ i \in Nat /\ i >= 1
    BY <1>1, <1>2
  <2>2. b[i] = IF k + i <= l THEN c[k + i] ELSE f[(k + i) - l]
    BY <1>3, <1>6, <2>1
  <2>3. CASE i <= l - k
    <3>1. k + i <= l /\ i \in 1..(l - k)
      BY <1>1, <1>2, <2>1, <2>3
    <3> QED
      BY <1>5, <1>7, <2>2, <2>3, <3>1
  <2>4. CASE ~(i <= l - k)
    <3>1. ~(k + i <= l) /\ (k + i) - l = i - (l - k)
      BY <1>1, <1>2, <2>1, <2>4
    <3> QED
      BY <1>7, <2>2, <2>4, <3>1
  <2> QED
    BY <2>3, <2>4
<1>9. a = b
  BY <1>6, <1>7, <1>8, SeqEqual
<1> QED
  BY <1>3, <1>9 DEF a, b, rest, w, l, m

\* init.c:147-150: a character is stored behind the last one.
LEMMA ReceivedBehind ==
    ASSUME NEW buf \in [Index -> Character], NEW in \in Index, NEW out \in Index,
           NEW x \in Character, Wrap(in + 1) # out
    PROVE  Contents([buf EXCEPT ![in] = x], Wrap(in + 1), out)
              = Contents(buf, in, out) \o <<x>>
<1> DEFINE after == [buf EXCEPT ![in] = x]
           s == <<x>>
<1>1. after \in [Index -> Character] /\ s \in Seq(Character) /\ Len(s) = 1 /\ s[1] = x
  OBVIOUS
<1>2. in + 1 <= BufLen
  BY Bounds DEF Index
<1>3. Used(in, out) + 1 < BufLen
  <2>1. out # (IF in = BufLen - 1 THEN 0 ELSE in + 1)
    BY Behind
  <2> DEFINE u == Used(in, out)
  <2>2. u = IF in >= out THEN in - out ELSE in - out + BufLen
    BY UsedCells
  <2> HIDE DEF u
  <2>3. u + 1 < BufLen
    BY <2>1, <2>2, Bounds DEF Index
  <2> QED
    BY <2>3 DEF u
<1>4. \A j \in Index : j \notin in..(in + Len(s) - 1) => after[j] = buf[j]
  BY <1>1 DEF Index
<1>5. \A k \in 1..Len(s) : after[in + k - 1] = s[k]
  <2>1. \A k \in 1..1 : k = 1 /\ in + k - 1 = in
    BY DEF Index
  <2> QED
    BY <1>1, <2>1
<1> HIDE DEF after, s
<1>6. Contents(after, Wrap(in + Len(s)), out) = Contents(buf, in, out) \o s
  <2>1. Len(s) > 0 /\ in + Len(s) <= BufLen /\ Used(in, out) + Len(s) < BufLen
    BY <1>1, <1>2, <1>3
  <2> QED
    BY <1>1, <1>4, <1>5, <2>1, Appending
<1> QED
  BY <1>1, <1>6 DEF after, s

\* What a read has copied are the oldest characters of the buffer, also when the
\* interrupt routine has stored others since.
RxInv ==
    /\ rx_buf \in [Index -> Character] /\ rxNext \in Character
    /\ rfifo \in Seq(Character) /\ Len(rfifo) <= ReadDepth
    /\ copied = SubSeq(Contents(rx_buf, rx_in, rx_out), 1,
                       IF pc = "r_store" THEN n ELSE 0)

LEMMA RxInvInit == Init => RxInv
<1> SUFFICES ASSUME Init PROVE RxInv
  OBVIOUS
<1>1. SubSeq(Contents(rx_buf, rx_in, rx_out), 1, 0) = <<>>
  BY SubSeqEmpty
<1>2. rx_buf = [i \in Index |-> 0] /\ 0 \in Character
  BY Bounds DEF Init, Character
<1>3. <<>> \in Seq(Character) /\ Len(<<>>) = 0
  BY EmptySeq
<1> QED
  BY <1>1, <1>2, <1>3, Bounds DEF Init, RxInv

LEMMA RxInvStep == Shape /\ CopiesInBounds /\ RxInv /\ [Next]_vars => RxInv'
<1> SUFFICES ASSUME Shape, CopiesInBounds, RxInv, [Next]_vars PROVE RxInv'
  OBVIOUS
<1> USE DEF elsewhere, outside, fifos, enables, routine, clock, rx, tx, call,
            Goto, Stay, Leave
<1> DEFINE c == Contents(rx_buf, rx_in, rx_out)
           u == Used(rx_in, rx_out)
<1>0. /\ rx_in \in Index /\ rx_out \in Index /\ rx_buf \in [Index -> Character]
      /\ n \in Nat /\ rxNext \in Int
  BY DEF Shape, RxInv, Character
<1>1. /\ c \in Seq(Character) /\ Len(c) = u /\ u \in Nat /\ u < BufLen
      /\ \A i \in 1..u : c[i] = rx_buf[(rx_out + i - 1) % BufLen]
  BY <1>0, ContentsSeq, UsedNat
<1>2. ASSUME UNCHANGED <<rx_buf, rx_in, rx_out, copied>> PROVE c' = c /\ copied' = copied
  BY <1>2 DEF Contents, Used
<1>3. ASSUME UNCHANGED <<pc, n, rx_buf, rx_in, rx_out, copied, rxNext, rfifo>> PROVE RxInv'
  BY <1>2, <1>3 DEF RxInv
<1>4. ASSUME UNCHANGED <<rx_buf, rx_in, rx_out, copied, rxNext, rfifo>>,
             pc # "r_store", pc' # "r_store"
      PROVE RxInv'
  BY <1>2, <1>4 DEF RxInv
<1>5. CASE ReadCopy
  <2>1. /\ UNCHANGED <<rx_buf, rx_in, rx_out, rxNext, rfifo, n>> /\ pc' = "r_store"
        /\ copied' = [i \in 1..n |-> Oldest(i)]
        /\ n > 0 /\ rx_out + n <= BufLen /\ n <= u
    BY <1>5 DEF ReadCopy, CopiesInBounds
  <2> HIDE DEF c, u
  <2>2. \A i \in 1..n : c[i] \in Character
    <3>1. \A i \in 1..n : i \in 1..u
      BY <1>0, <1>1, <2>1
    <3> QED
      BY <1>1, <3>1, ElementOfSeq
  <2> DEFINE f == SubSeq(c, 1, n)
             g == [i \in 1..n |-> Oldest(i)]
  <2>3. f \in Seq(Character) /\ Len(f) = n /\ \A i \in 1..n : f[i] = c[i]
    <3>1. /\ f \in Seq(Character) /\ Len(f) = IF 1 <= n THEN n - 1 + 1 ELSE 0
          /\ \A i \in 1..(n - 1 + 1) : f[i] = c[1 + i - 1]
      BY <1>0, <2>2, SubSeqProperties
    <3>2. n - 1 + 1 = n /\ (1 <= n) /\ \A i \in 1..n : 1 + i - 1 = i
      BY <1>0, <2>1
    <3> QED
      BY <3>1, <3>2
  <2>4. \A i \in 1..n : Oldest(i) = c[i]
    <3> SUFFICES ASSUME NEW i \in 1..n PROVE Oldest(i) = c[i]
      OBVIOUS
    <3>1. i \in 1..u /\ i \in 1..BufLen /\ rx_out + i - 1 < BufLen
      BY <1>0, <1>1, <2>1, Bounds DEF Index
    <3>2. (rx_out + i - 1) % BufLen = rx_out + i - 1
      BY <1>0, <3>1, Cell
    <3> QED
      BY <1>1, <3>1, <3>2 DEF Oldest
  <2>5. g \in Seq(Character) /\ Len(g) = n /\ \A i \in 1..n : g[i] = c[i]
    <3>1. g \in [1..n -> Character]
      BY <2>2, <2>4
    <3> QED
      BY <1>0, <2>4, <3>1
  <2> HIDE DEF f, g
  <2>6. g = f
    BY <1>0, <2>3, <2>5, SeqEqual
  <2>7. c' = c
    BY <2>1 DEF c, Contents, Used
  <2> QED
    BY <2>1, <2>6, <2>7 DEF RxInv, f, g, c
<1>6. CASE ReadStore
  <2>1. UNCHANGED <<rx_buf, rxNext, rfifo>> /\ copied' = <<>> /\ pc' # "r_store"
    BY <1>6 DEF ReadStore
  <2>2. SubSeq(c', 1, 0) = <<>>
    BY SubSeqEmpty
  <2> QED
    BY <2>1, <2>2 DEF RxInv
<1>7. CASE ReceiveChar
  <2> DEFINE x == Head(rfifo)
  <2>1. /\ rfifo # <<>> /\ rfifo' = Tail(rfifo) /\ rx_in' = Wrap(rx_in + 1)
        /\ rx_buf' = [rx_buf EXCEPT ![rx_in] = x]
        /\ UNCHANGED <<pc, n, rx_out, copied, rxNext>> /\ rx_in \in Index
        /\ ~(Wrap(rx_in + 1) = rx_out)
    BY <1>7 DEF ReceiveChar, BufferFull, Shape
  <2>2. x \in Character /\ Tail(rfifo) \in Seq(Character) /\ Len(Tail(rfifo)) <= ReadDepth
    <3>1. rfifo \in Seq(Character) /\ Len(rfifo) <= ReadDepth
      BY DEF RxInv
    <3>2. /\ x \in Character /\ Tail(rfifo) \in Seq(Character)
          /\ Len(Tail(rfifo)) = Len(rfifo) - 1
      BY <2>1, <3>1, HeadTailProperties
    <3> DEFINE l == Len(rfifo)
    <3>3. l \in Nat /\ l <= ReadDepth /\ Len(Tail(rfifo)) = l - 1
      BY <3>1, <3>2
    <3> HIDE DEF l
    <3> QED
      BY <3>2, <3>3, Bounds
  <2> HIDE DEF x
  <2>3. c' = c \o <<x>>
    <3>1. Contents([rx_buf EXCEPT ![rx_in] = x], Wrap(rx_in + 1), rx_out) = c \o <<x>>
      BY <1>0, <2>1, <2>2, ReceivedBehind
    <3>2. c' = Contents([rx_buf EXCEPT ![rx_in] = x], Wrap(rx_in + 1), rx_out)
      BY <2>1 DEF c, Contents, Used
    <3> QED
      BY <3>1, <3>2
  <2>4. rx_buf' \in [Index -> Character]
    BY <1>0, <2>1, <2>2
  <2>5. CASE pc = "r_store"
    <3>1. n > 0 /\ n <= u
      BY <2>5 DEF CopiesInBounds
    <3> HIDE DEF c, u
    <3>2. 1 \in 1..Len(c) /\ n \in 1..Len(c)
      BY <1>0, <1>1, <3>1
    <3>3. <<x>> \in Seq(Character)
      BY <2>2
    <3>4. SubSeq(c \o <<x>>, 1, n) = SubSeq(c, 1, n)
      BY <1>1, <3>2, <3>3, SubSeqOfConcat1
    <3>5. copied = SubSeq(c, 1, n)
      BY <2>5 DEF RxInv, c
    <3>6. copied' = SubSeq(c', 1, n')
      BY <2>1, <2>3, <3>4, <3>5
    <3> QED
      BY <2>1, <2>2, <2>4, <2>5, <3>6 DEF RxInv, c
  <2>6. CASE pc # "r_store"
    <3>1. SubSeq(c, 1, 0) = <<>> /\ SubSeq(c', 1, 0) = <<>>
      BY SubSeqEmpty
    <3> QED
      BY <2>1, <2>2, <2>4, <2>6, <3>1 DEF RxInv
  <2> QED
    BY <2>5, <2>6
<1>8. CASE HostSend
  <2>1. /\ Len(rfifo) < ReadDepth /\ rfifo' = Append(rfifo, rxNext)
        /\ rxNext' = (rxNext + 1) % Numbers
        /\ UNCHANGED <<pc, n, rx_buf, rx_in, rx_out, copied>>
    BY <1>8 DEF HostSend
  <2>2. rxNext' \in Character
    <3>1. rxNext + 1 \in Int
      BY <1>0
    <3> QED
      BY <2>1, <3>1, Numbering
  <2>3. rfifo' \in Seq(Character) /\ Len(rfifo') <= ReadDepth
    <3>1. rfifo \in Seq(Character) /\ rxNext \in Character
      BY DEF RxInv
    <3>2. rfifo' \in Seq(Character) /\ Len(rfifo') = Len(rfifo) + 1
      BY <2>1, <3>1, AppendProperties
    <3> DEFINE l == Len(rfifo)
    <3>3. l \in Nat /\ l < ReadDepth /\ Len(rfifo') = l + 1
      BY <2>1, <3>1, <3>2
    <3> HIDE DEF l
    <3> QED
      BY <3>2, <3>3, Bounds
  <2> QED
    BY <1>2, <2>1, <2>2, <2>3 DEF RxInv
<1>9. CASE WriteLook \/ WriteCopy \/ WriteStore \/ WriteKick \/ WriteWait \/ WriteAfter
           \/ ReadLook \/ ReadWait \/ ReadAfter \/ ReadEnable \/ CloseWait
  BY <1>4, <1>9 DEF WriteLook, WriteCopy, WriteStore, WriteKick, WriteWait, WriteAfter,
     ReadLook, ReadWait, ReadAfter, ReadEnable, CloseWait
<1>10. CASE CallDriver
  BY <1>3, <1>4, <1>10 DEF CallDriver, Call, SetTimeout
<1>11. CASE ReadControl \/ ReceiveNone \/ ReceiveFull \/ TransmitChar \/ TransmitEnd
            \/ Alarm \/ HostTake \/ HostPause \/ UNCHANGED vars
  BY <1>3, <1>11 DEF ReadControl, ReceiveNone, ReceiveFull, TransmitChar, TransmitEnd,
     Alarm, HostTake, HostPause, vars
<1> QED
  BY <1>5, <1>6, <1>7, <1>8, <1>9, <1>10, <1>11 DEF Next, ProgramStep, IsrStep

RxQueue == copied \o NotCopied \o rfifo

\* The copy and what is not copied make up the buffer.
RxWhole == RxQueue = Contents(rx_buf, rx_in, rx_out) \o rfifo

LEMMA OwnNumber ==
    ASSUME NEW x \in Character
    PROVE  (x + 1 - 1) % Numbers = x
<1>1. x \in Int /\ x + 1 - 1 = x /\ 0 <= x /\ x < Numbers /\ Numbers \in Nat
  BY Bounds DEF Character
<1>2. x % Numbers = x
  BY <1>1, SMT
<1> QED
  BY <1>1, <1>2

LEMMA RxContents ==
    ASSUME Shape, RxInv
    PROVE  /\ Contents(rx_buf, rx_in, rx_out) \in Seq(Character)
           /\ Len(Contents(rx_buf, rx_in, rx_out)) = Used(rx_in, rx_out)
           /\ Used(rx_in, rx_out) \in Nat /\ Used(rx_in, rx_out) < BufLen
BY ContentsSeq, UsedNat DEF Shape, RxInv

LEMMA RxWholeQueue == Shape /\ CopiesInBounds /\ RxInv => RxWhole
<1> SUFFICES ASSUME Shape, CopiesInBounds, RxInv PROVE RxWhole
  OBVIOUS
<1> DEFINE c == Contents(rx_buf, rx_in, rx_out)
           u == Used(rx_in, rx_out)
           k == IF pc = "r_store" THEN n ELSE 0
<1>1. c \in Seq(Character) /\ Len(c) = u /\ u \in Nat
  BY RxContents
<1>2. copied = SubSeq(c, 1, k)
  BY DEF RxInv
<1>3. k \in 0..u
  <2>1. n \in Nat
    BY DEF Shape
  <2>2. pc = "r_store" => n <= u
    BY DEF CopiesInBounds
  <2> HIDE DEF u
  <2> QED
    BY <1>1, <2>1, <2>2
<1>4. NotCopied = SubSeq(c, Len(copied) + 1, u)
  BY DEF NotCopied
<1> HIDE DEF c, u, k
<1>5. copied \o NotCopied = c
  BY <1>1, <1>2, <1>3, <1>4, FrontAndRest
<1> QED
  BY <1>5 DEF RxQueue, RxWhole, c

\* init.c:141-161: the interrupt routine moves the oldest character of the device
\* behind the last one of the buffer.
LEMMA RxMove ==
    ASSUME Shape, RxInv, RxWhole, RxWhole', ReceiveChar
    PROVE  UNCHANGED <<RxQueue, rxNext, rxDone>>
<1> DEFINE c == Contents(rx_buf, rx_in, rx_out)
           x == Head(rfifo)
           f == Tail(rfifo)
<1>1. /\ rfifo # <<>> /\ rfifo' = f /\ rx_in' = Wrap(rx_in + 1)
      /\ rx_buf' = [rx_buf EXCEPT ![rx_in] = x]
      /\ UNCHANGED <<rx_out, rxNext, rxDone>> /\ ~(Wrap(rx_in + 1) = rx_out)
      /\ rx_in \in Index /\ rx_out \in Index
      /\ rx_buf \in [Index -> Character] /\ rfifo \in Seq(Character)
  BY DEF ReceiveChar, BufferFull, Shape, RxInv, outside
<1>2. x \in Character /\ f \in Seq(Character) /\ rfifo = <<x>> \o f
  <2>1. x \in Character /\ f \in Seq(Character)
    BY <1>1, HeadTailProperties
  <2> DEFINE l == Len(rfifo)
  <2>2. l \in Nat /\ l # 0
    BY <1>1, EmptySeq
  <2> HIDE DEF l
  <2>3. 1 \in 1..l /\ l \in 1..l
    BY <2>2
  <2>4. SubSeq(rfifo, 1, l) = <<rfifo[1]>> \o SubSeq(rfifo, 1 + 1, l)
    BY <1>1, <2>3, SubSeqRecursiveFirst DEF l
  <2>5. SubSeq(rfifo, 1, l) = rfifo /\ f = SubSeq(rfifo, 2, l)
    BY <1>1, SubSeqFull, TailIsSubSeq DEF l
  <2>6. x = rfifo[1]
    OBVIOUS
  <2> QED
    BY <2>1, <2>4, <2>5, <2>6
<1> HIDE DEF x, f
<1>3. Contents(rx_buf, rx_in, rx_out)' = c \o <<x>>
  <2>1. Contents([rx_buf EXCEPT ![rx_in] = x], Wrap(rx_in + 1), rx_out) = c \o <<x>>
    BY <1>1, <1>2, ReceivedBehind
  <2> QED
    BY <1>1, <2>1 DEF Contents, Used
<1>4. c \in Seq(Character)
  BY RxContents
<1> HIDE DEF c
<1>5. <<x>> \in Seq(Character)
  BY <1>2
<1>6. (c \o <<x>>) \o f = c \o (<<x>> \o f)
  BY <1>2, <1>4, <1>5, ConcatAssociative
<1> QED
  BY <1>1, <1>2, <1>3, <1>6 DEF RxWhole, c

\* read.c:140: the characters of the copy, the oldest ones, come out.
LEMMA RxTake ==
    ASSUME Shape, CopiesInBounds, RxInv, RxWhole, RxWhole', ReadStore
    PROVE  Rx!Get(n) /\ n \in 1..(BufLen - 1 + ReadDepth)
<1> DEFINE c == Contents(rx_buf, rx_in, rx_out)
           u == Used(rx_in, rx_out)
<1>1. /\ rx_out' = Wrap(rx_out + n) /\ rxDone' = (rxDone + n) % Numbers
      /\ UNCHANGED <<rx_in, rx_buf, rfifo, rxNext>>
      /\ n \in Nat /\ n > 0 /\ rx_out + n <= BufLen /\ n <= u
      /\ rx_in \in Index /\ rx_out \in Index
      /\ rx_buf \in [Index -> Character] /\ rfifo \in Seq(Character)
  BY DEF ReadStore, CopiesInBounds, Shape, RxInv, elsewhere, fifos, outside
<1>2. c \in Seq(Character) /\ Len(c) = u /\ u \in Nat /\ u < BufLen
  BY RxContents
<1>3. Contents(rx_buf, rx_in, rx_out)' = SubSeq(c, n + 1, u)
  <2>1. Contents(rx_buf, rx_in, Wrap(rx_out + n)) = SubSeq(c, n + 1, u)
    BY <1>1, Dropping
  <2> QED
    BY <1>1, <2>1 DEF Contents, Used
<1> HIDE DEF c, u
<1>4. RxQueue' = SubSeq(RxQueue, n + 1, Len(RxQueue))
  <2>1. n \in 0..Len(c)
    BY <1>1, <1>2
  <2>2. SubSeq(c, n + 1, u) \o rfifo = SubSeq(c \o rfifo, n + 1, Len(c \o rfifo))
    BY <1>1, <1>2, <2>1, DropFront
  <2> QED
    BY <1>1, <1>3, <2>2 DEF RxWhole, c
<1>5. n <= Len(RxQueue) /\ n \in 1..(BufLen - 1 + ReadDepth)
  <2>1. Len(RxQueue) = Len(c) + Len(rfifo)
    BY <1>1, <1>2, ConcatProperties DEF RxWhole, c
  <2> DEFINE l == Len(rfifo)
  <2>2. Len(RxQueue) = u + l /\ l \in Nat
    BY <1>1, <1>2, <2>1
  <2> HIDE DEF l
  <2> QED
    BY <1>1, <1>2, <2>2, Bounds
<1> QED
  BY <1>1, <1>4, <1>5 DEF Rx!Get, RxQueue

\* The host sends a character.
LEMMA RxSend ==
    ASSUME Shape, RxInv, RxWhole, RxWhole', HostSend
    PROVE  Rx!Put(1)
<1> DEFINE c == Contents(rx_buf, rx_in, rx_out)
           u == Used(rx_in, rx_out)
           s == [i \in 1..1 |-> (rxNext + i - 1) % Numbers]
<1>1. /\ Len(rfifo) < ReadDepth /\ rfifo' = Append(rfifo, rxNext)
      /\ rxNext' = (rxNext + 1) % Numbers
      /\ UNCHANGED <<rx_in, rx_out, rx_buf, rxDone>>
      /\ rfifo \in Seq(Character) /\ rxNext \in Character
  BY DEF HostSend, RxInv, rx
<1>2. c \in Seq(Character) /\ Len(c) = u /\ u \in Nat /\ u < BufLen
  BY RxContents
<1>3. Contents(rx_buf, rx_in, rx_out)' = c
  BY <1>1 DEF Contents, Used
<1> HIDE DEF c, u
<1>4. s = <<rxNext>> /\ s \in Seq(Character)
  <2>1. (rxNext + 1 - 1) % Numbers = rxNext
    BY <1>1, OwnNumber
  <2>2. s = [i \in 1..1 |-> rxNext]
    BY <2>1
  <2>3. s \in Seq(Character) /\ Len(s) = 1 /\ s[1] = rxNext
    BY <1>1, <2>2
  <2>4. <<rxNext>> \in Seq(Character) /\ Len(<<rxNext>>) = 1 /\ <<rxNext>>[1] = rxNext
    BY <1>1
  <2>5. \A i \in 1..1 : s[i] = <<rxNext>>[i]
    BY <2>3, <2>4
  <2> HIDE DEF s
  <2>6. s = <<rxNext>>
    BY <2>3, <2>4, <2>5, SeqEqual
  <2> QED
    BY <2>3, <2>6
<1> HIDE DEF s
<1>5. RxQueue' = RxQueue \o s
  <2>1. rfifo' = rfifo \o <<rxNext>>
    BY <1>1, AppendIsConcat
  <2>2. (c \o rfifo) \o s = c \o (rfifo \o s)
    BY <1>1, <1>2, <1>4, ConcatAssociative
  <2>3. RxQueue = c \o rfifo /\ RxQueue' = c \o rfifo'
    BY <1>3 DEF RxWhole, c
  <2> QED
    BY <1>4, <2>1, <2>2, <2>3
<1>6. Len(RxQueue) + 1 <= BufLen - 1 + ReadDepth
  <2>1. Len(RxQueue) = Len(c) + Len(rfifo)
    BY <1>1, <1>2, ConcatProperties DEF RxWhole, c
  <2> DEFINE l == Len(rfifo)
  <2>2. Len(RxQueue) = u + l /\ l \in Nat /\ l < ReadDepth
    BY <1>1, <1>2, <2>1
  <2> HIDE DEF l
  <2> QED
    BY <1>2, <2>2, Bounds
<1> QED
  BY <1>1, <1>5, <1>6 DEF Rx!Put, RxQueue, s

\* read.c:87-140, init.c:119-161: in every interleaving of a read, the interrupt
\* routine and the host, the input is a FIFO: what a read returns are the oldest
\* characters, each once, and none of them is overwritten before it is returned.
THEOREM InputIsFifo == Spec => RxSpec
<1>1. Init => Rx!Init
  <2> SUFFICES ASSUME Init PROVE Rx!Init
    OBVIOUS
  <2>1. rx_in = 0 /\ rx_out = 0 /\ rfifo = <<>> /\ rxNext = 0 /\ rxDone = 0 /\ pc = "idle"
    BY DEF Init
  <2>2. Shape /\ RxInv
    BY ShapeInit, RxInvInit
  <2>3. CopiesInBounds
    BY <2>1 DEF CopiesInBounds
  <2>4. RxWhole
    BY <2>2, <2>3, RxWholeQueue
  <2> DEFINE c == Contents(rx_buf, rx_in, rx_out)
  <2>5. c \in Seq(Character) /\ Len(c) = Used(0, 0)
    BY <2>1, <2>2, RxContents
  <2>6. Used(0, 0) = 0
    <3>1. 0 \in Index
      BY Bounds DEF Index
    <3> QED
      BY <3>1, UsedCells
  <2> HIDE DEF c
  <2>7. c = <<>>
    BY <2>5, <2>6, EmptySeq
  <2>8. RxQueue = <<>>
    <3>1. RxQueue = <<>> \o <<>>
      BY <2>1, <2>4, <2>7 DEF RxWhole, c
    <3> QED
      BY <3>1, EmptySeq, ConcatEmptySeq
  <2> QED
    BY <2>1, <2>8 DEF Rx!Init, RxQueue
<1>2. DriverInv /\ RxInv /\ RxWhole /\ RxWhole' /\ [Next]_vars => [Rx!Next]_(Rx!vars)
  <2> SUFFICES ASSUME DriverInv, RxInv, RxWhole, RxWhole', [Next]_vars
               PROVE  Rx!Next \/ UNCHANGED <<RxQueue, rxNext, rxDone>>
    BY DEF Rx!vars, RxQueue
  <2> USE DEF elsewhere, outside, fifos, enables, routine, clock, rx, tx, call,
              Goto, Stay, Leave
  <2>1. Shape /\ CopiesInBounds
    BY DEF DriverInv
  <2>2. ASSUME UNCHANGED <<rx_in, rx_out, rx_buf, rxNext, rxDone, rfifo>>
        PROVE  UNCHANGED <<RxQueue, rxNext, rxDone>>
    BY <2>2 DEF RxWhole, Contents, Used
  <2>3. CASE ReceiveChar
    BY <2>1, <2>3, RxMove
  <2>4. CASE ReadStore
    BY <2>1, <2>4, RxTake DEF Rx!Next
  <2>5. CASE HostSend
    <3>1. 1 \in 1..(BufLen - 1 + ReadDepth)
      BY Bounds
    <3> QED
      BY <2>1, <2>5, <3>1, RxSend DEF Rx!Next
  <2>6. CASE WriteLook \/ WriteCopy \/ WriteStore \/ WriteKick \/ WriteWait \/ WriteAfter
             \/ ReadLook \/ ReadCopy \/ ReadWait \/ ReadAfter \/ ReadEnable \/ CloseWait
    BY <2>2, <2>6 DEF WriteLook, WriteCopy, WriteStore, WriteKick, WriteWait, WriteAfter,
       ReadLook, ReadCopy, ReadWait, ReadAfter, ReadEnable, CloseWait
  <2>7. CASE CallDriver
    BY <2>2, <2>7 DEF CallDriver, Call, SetTimeout
  <2>8. CASE ReadControl \/ ReceiveNone \/ ReceiveFull \/ TransmitChar \/ TransmitEnd
             \/ Alarm \/ HostTake \/ HostPause \/ UNCHANGED vars
    BY <2>2, <2>8 DEF ReadControl, ReceiveNone, ReceiveFull, TransmitChar, TransmitEnd,
       Alarm, HostTake, HostPause, vars
  <2> QED
    BY <2>3, <2>4, <2>5, <2>6, <2>7, <2>8 DEF Next, ProgramStep, IsrStep
<1>3. DriverInv /\ RxInv /\ [Next]_vars => RxInv'
  BY RxInvStep DEF DriverInv
<1>4. DriverInv /\ RxInv => RxWhole
  BY RxWholeQueue DEF DriverInv
<1> QED
  BY <1>1, <1>2, <1>3, <1>4, RxInvInit, DriverInvariant, PTL DEF Spec, RxSpec, Rx!Spec
-----------------------------------------------------------------------------
(* Type correctness. *)

\* The part of TypeOK that Shape, TxInv and RxInv do not say.
Kinds ==
    /\ pc \in {"idle", "w_look", "w_copy", "w_store", "w_kick", "w_wait",
               "w_after", "r_look", "r_copy", "r_store", "r_wait", "r_after",
               "r_enable", "c_wait"}
    /\ isr \in {"off", "control", "receive", "transmit"}
    /\ moved \in BOOLEAN /\ nonblock \in BOOLEAN /\ wi \in BOOLEAN /\ ravail \in BOOLEAN
    /\ re \in BOOLEAN /\ we \in BOOLEAN /\ pause_irq \in BOOLEAN /\ ac \in BOOLEAN

Clock == host_inactive \in 0..IntMax /\ timeout \in 2..IntMax

LEMMA KindsInit == Init => Kinds
BY DEF Init, Kinds

LEMMA KindsStep == Kinds /\ [Next]_vars => Kinds'
<1> SUFFICES ASSUME Kinds, [Next]_vars PROVE Kinds'
  OBVIOUS
<1> USE DEF elsewhere, outside, fifos, enables, routine, clock, rx, tx, call,
            Goto, Stay, Leave, Kinds
<1>1. CASE WriteLook \/ WriteCopy \/ WriteStore \/ WriteKick \/ WriteWait \/ WriteAfter
  <2>1. CASE WriteLook \/ WriteCopy
    <3>1. /\ pc' \in {"w_kick", "w_copy", "w_store"}
          /\ UNCHANGED <<isr, moved, nonblock, wi, ravail, re, we, pause_irq, ac>>
      BY <2>1 DEF WriteLook, WriteCopy
    <3> QED
      BY <3>1
  <2>2. CASE WriteStore
    <3>1. /\ pc' \in {"w_kick", "w_look"} /\ moved' = TRUE
          /\ UNCHANGED <<isr, nonblock, wi, ravail, re, we, pause_irq, ac>>
      BY <2>2 DEF WriteStore
    <3> QED
      BY <3>1
  <2>3. CASE WriteKick \/ WriteWait \/ WriteAfter
    BY <2>3, Zenon DEF WriteKick, WriteWait, WriteAfter
  <2> QED
    BY <1>1, <2>1, <2>2, <2>3
<1>2. CASE ReadLook \/ ReadCopy \/ ReadStore \/ ReadWait \/ ReadAfter \/ ReadEnable \/ CloseWait
  BY <1>2 DEF ReadLook, ReadCopy, ReadStore, ReadWait, ReadAfter, ReadEnable, CloseWait
<1>3. CASE CallDriver
  BY <1>3 DEF CallDriver, Call, SetTimeout
<1>4. CASE IsrStep
  BY <1>4 DEF IsrStep, ReadControl, ReceiveChar, ReceiveNone, ReceiveFull, TransmitChar,
     TransmitEnd, AfterReceive, ReceiveOn, TransmitOn, RI, WI
<1>5. CASE Alarm \/ HostTake \/ HostSend \/ HostPause \/ UNCHANGED vars
  <2>1. ASSUME HostSend \/ HostPause PROVE ac' \in BOOLEAN
    BY <2>1, Zenon DEF HostSend, HostPause, HostActive, HasClock
  <2>2. ASSUME HostPause PROVE pause_irq' \in BOOLEAN
    BY <2>2, Zenon DEF HostPause
  <2>3. CASE HostSend
    BY <2>1, <2>3 DEF HostSend
  <2>4. CASE HostPause
    BY <2>1, <2>2, <2>4 DEF HostPause
  <2>5. CASE HostTake \/ UNCHANGED vars
    BY <2>5 DEF HostTake, vars
  <2>6. CASE Alarm
    <3>1. /\ ac' = FALSE
          /\ UNCHANGED <<pc, isr, moved, nonblock, wi, ravail, re, we, pause_irq>>
      BY <2>6 DEF Alarm
    <3> QED
      BY <3>1
  <2> QED
    BY <1>5, <2>3, <2>4, <2>5, <2>6
<1> QED
  BY <1>1, <1>2, <1>3, <1>4, <1>5 DEF Next, ProgramStep

LEMMA ClockInit == Init => Clock
BY Bounds DEF Init, Clock

LEMMA ClockStep == Clock /\ [Next]_vars => Clock'
<1> SUFFICES ASSUME Clock, [Next]_vars PROVE Clock'
  OBVIOUS
<1> USE DEF elsewhere, clock, outside, fifos
<1>1. CASE Alarm
  BY <1>1, Bounds DEF Alarm, Clock
<1>2. ASSUME NEW t \in Requests, SetTimeout(t) PROVE Clock'
  <2>1. t \in Int
    BY Bounds
  <2> QED
    BY <1>2, <2>1, Bounds DEF SetTimeout, Clock
<1>3. ASSUME UNCHANGED <<host_inactive, timeout>> PROVE Clock'
  BY <1>3 DEF Clock
<1>4. CASE ProgramStep
  BY <1>3, <1>4 DEF ProgramStep, WriteLook, WriteCopy, WriteStore, WriteKick, WriteWait,
     WriteAfter, ReadLook, ReadCopy, ReadStore, ReadWait, ReadAfter, ReadEnable, CloseWait
<1>5. CASE IsrStep
  BY <1>3, <1>5 DEF IsrStep, ReadControl, ReceiveChar, ReceiveNone, ReceiveFull,
     TransmitChar, TransmitEnd
<1>6. CASE HostTake \/ HostSend \/ HostPause \/ UNCHANGED vars
  BY <1>3, <1>6 DEF HostTake, HostSend, HostPause, vars
<1>7. CASE CallDriver
  BY <1>2, <1>3, <1>7 DEF CallDriver, Call
<1> QED
  BY <1>1, <1>4, <1>5, <1>6, <1>7 DEF Next

\* The indices stay inside the arrays, the counts inside the FIFOs and the alarm's
\* count below INT_MAX; write.c, read.c, init.c.
THEOREM TypeCorrect == Spec => []TypeOK
<1>1. Shape /\ TxInv /\ RxInv /\ Kinds /\ Clock => TypeOK
  <2> SUFFICES ASSUME Shape, TxInv, RxInv, Kinds, Clock PROVE TypeOK
    OBVIOUS
  <2>1. space \in 0..WriteDepth
    <3>1. space \in Nat /\ Len(wfifo) \in Nat
      BY DEF Shape
    <3>2. space + Len(wfifo) <= WriteDepth
      BY DEF TxInv
    <3> DEFINE l == Len(wfifo)
    <3>3. space \in Nat /\ l \in Nat /\ space + l <= WriteDepth
      BY <3>1, <3>2
    <3> HIDE DEF l
    <3> QED
      BY <3>3, Bounds
  <2>2. Character = 0..(Numbers - 1)
    BY DEF Character
  <2> QED
    BY <2>1, <2>2 DEF Shape, RxInv, Kinds, Clock, TypeOK
<1>2. Init => RxInv /\ TxInv /\ Kinds /\ Clock
  BY RxInvInit, TxInvInit, KindsInit, ClockInit
<1>3. DriverInv /\ TxInv /\ RxInv /\ Kinds /\ Clock /\ [Next]_vars
         => TxInv' /\ RxInv' /\ Kinds' /\ Clock'
  BY TxInvStep, RxInvStep, KindsStep, ClockStep DEF DriverInv
<1>4. DriverInv => Shape
  BY DEF DriverInv
<1> QED
  BY <1>1, <1>2, <1>3, <1>4, DriverInvariant, PTL DEF Spec
=============================================================================
