------------------------------ MODULE JtagUart ------------------------------
(***************************************************************************)
(* The driver of the JTAG UART, altera_avalon_jtag_uart_{init, read,       *)
(* write, ioctl}.c: a program that reads and writes characters, the        *)
(* interrupt routine that moves them between two ring buffers and the      *)
(* FIFOs of the device (nios_system_jtag_uart_0.v), the alarm that looks   *)
(* for the host, and the host.                                             *)
(*                                                                         *)
(* One step of the program or of the interrupt routine has at most one     *)
(* access to something the other side changes.  The program stands still   *)
(* while the interrupt routine runs; the host never stands still.          *)
(* sp->irq_enable and the enable bits of the device are always stored      *)
(* together and are one pair of variables.                                 *)
(***************************************************************************)
EXTENDS Integers, Sequences

CONSTANTS
    BufLen,      \* ALTERA_AVALON_JTAG_UART_BUF_LEN, 2048
    WriteDepth,  \* the sizes of the FIFOs of the device, 64
    ReadDepth,
    WriteMark,   \* their interrupt thresholds, 8
    ReadMark,
    Counts,      \* the numbers of characters the program reads and writes
    IntMax,      \* INT_MAX
    Timeout,     \* ALTERA_AVALON_JTAG_UART_DEFAULT_TIMEOUT, 10
    Requests,    \* the arguments of TIOCSTIMEOUT
    Numbers,     \* the characters of a direction are numbered modulo this
    Few          \* bound: the characters of the direction that is not busy

ASSUME JtagUartAssumption ==
    /\ BufLen \in Nat /\ BufLen >= 2
    /\ WriteDepth \in Nat \ {0} /\ WriteMark \in 0..(WriteDepth - 1)
    /\ ReadDepth \in Nat \ {0} /\ ReadMark \in 0..(ReadDepth - 1)
    /\ Counts \subseteq Nat \ {0}
    /\ IntMax \in Nat /\ Timeout \in 2..(IntMax - 1) /\ Requests \subseteq Int
    /\ Numbers \in Nat /\ Numbers > BufLen - 1 + WriteDepth
    /\ Numbers > BufLen - 1 + ReadDepth /\ Few \in 0..(Numbers - 1)

VARIABLES
    (* the program: position in the driver, characters left of the call, *)
    (* whether it has moved any, O_NONBLOCK, the length of the copy, and  *)
    (* the index of the other side it has read                            *)
    pc, left, moved, nonblock, n, seen,
    (* the ring buffers *)
    tx_in, tx_out, tx_buf, rx_in, rx_out, rx_buf,
    (* host_inactive and timeout *)
    host_inactive, timeout,
    (* the interrupt routine: its position, WI and the space it has read  *)
    (* from the control register, and whether `data' says that more       *)
    (* characters are available                                           *)
    isr, wi, space, ravail,
    (* the device: enable bits, FIFOs, pause_irq and AC *)
    re, we, wfifo, rfifo, pause_irq, ac,
    (* history: the numbers of the next character that goes in and comes  *)
    (* out in each direction, and the characters that a read has copied   *)
    (* from the buffer but not yet removed                                *)
    txNext, txDone, rxNext, rxDone, copied,
    (* bound: the direction with any number of characters *)
    busy

call == <<left, moved, nonblock, n, seen>>
tx == <<tx_in, tx_out, tx_buf, txNext, txDone>>
rx == <<rx_in, rx_out, rx_buf, rxDone, copied>>
clock == <<host_inactive, timeout>>
routine == <<isr, wi, space, ravail>>
enables == <<re, we>>
fifos == <<wfifo, rfifo, pause_irq>>
outside == <<ac, rxNext, busy>>
elsewhere == <<clock, routine, fifos, outside>>
vars == <<pc, call, tx, rx, clock, routine, enables, fifos, outside>>

Index == 0..(BufLen - 1)
HasClock == timeout # IntMax

\* (A mutated form, a fault: the array is taken to be longer by one.)
WrapLate(i) == i % (BufLen + 1)

Wrap(i) == i % BufLen

Lesser(a, b) == IF a <= b THEN a ELSE b

\* altera_avalon_jtag_uart_init; without a system clock the alarm cannot be
\* started.
Init ==
    /\ pc = "idle" /\ left = 0 /\ moved = FALSE /\ nonblock = FALSE
    /\ n = 0 /\ seen = 0
    /\ tx_in = 0 /\ tx_out = 0 /\ rx_in = 0 /\ rx_out = 0
    /\ tx_buf = [i \in Index |-> 0] /\ rx_buf = [i \in Index |-> 0]
    /\ host_inactive = 0 /\ timeout \in {Timeout, IntMax}
    /\ isr = "off" /\ wi = FALSE /\ space = 0 /\ ravail = FALSE
    /\ re = TRUE /\ we = FALSE
    /\ wfifo = <<>> /\ rfifo = <<>> /\ pause_irq = FALSE /\ ac = FALSE
    /\ txNext = 0 /\ txDone = 0 /\ rxNext = 0 /\ rxDone = 0 /\ copied = <<>>
    /\ busy \in {"tx", "rx"} /\ (HasClock => busy = "tx")

-----------------------------------------------------------------------------
(* The calls of the program. *)

Running == isr = "off"

\* (A mutated form, a fault: the loops do not look at the alarm's count.)
HostNeverGone == FALSE

HostGone == host_inactive >= timeout

Goto(label) == pc' = label
Stay(label) == Goto(label) /\ UNCHANGED call

\* The locals of a call mean nothing after it.
Leave ==
    /\ Goto("idle")
    /\ left' = 0 /\ moved' = FALSE /\ nonblock' = FALSE /\ n' = 0 /\ seen' = 0

Call(label, count) ==
    /\ Running /\ pc = "idle"
    /\ Goto(label)
    /\ left' = count /\ nonblock' \in BOOLEAN
    /\ UNCHANGED <<moved, n, seen, tx, rx, enables, elsewhere>>

\* (A mutated form, a fault: one slot more is taken to be free.)
RoomWithoutGap(in, out) ==
    IF in < out THEN out - in ELSE BufLen - in

\* (A mutated form, a fault: the free part is always taken to end at the last
\* slot but one.)
RoomBehindOnly(in, out) ==
    IF in < out THEN out - 1 - in ELSE BufLen - 1 - in

\* The characters that fit behind tx_in in one piece; one slot stays empty.
Room(in, out) ==
    IF in < out THEN out - 1 - in
    ELSE IF out > 0 THEN BufLen - in ELSE BufLen - 1 - in

WriteLook ==
    /\ Running /\ pc = "w_look"
    /\ seen' = IF Room(tx_in, tx_out) = 0 THEN tx_out ELSE 0
    /\ n' = Lesser(Room(tx_in, tx_out), left)
    /\ Goto(IF Room(tx_in, tx_out) = 0 THEN "w_kick" ELSE "w_copy")
    /\ UNCHANGED <<left, moved, nonblock, tx, rx, enables, elsewhere>>

WriteCopy ==
    /\ Running /\ pc = "w_copy"
    /\ tx_buf' = [i \in Index |-> IF i \in tx_in..(tx_in + n - 1)
                                  THEN (txNext + i - tx_in) % Numbers
                                  ELSE tx_buf[i]]
    /\ Stay("w_store")
    /\ UNCHANGED <<tx_in, tx_out, txNext, txDone, rx, enables, elsewhere>>

WriteStore ==
    /\ Running /\ pc = "w_store"
    /\ tx_in' = Wrap(tx_in + n)
    /\ txNext' = (txNext + n) % Numbers
    /\ left' = left - n /\ moved' = TRUE /\ n' = 0
    /\ Goto(IF left = n THEN "w_kick" ELSE "w_look")
    /\ UNCHANGED <<nonblock, seen, tx_out, tx_buf, txDone, rx, enables,
                   elsewhere>>

\* Interrupts are disabled in the code from the change of irq_enable to the
\* store into the control register.
WriteKick ==
    /\ Running /\ pc = "w_kick"
    /\ we' = TRUE
    /\ IF left = 0 \/ nonblock THEN Leave ELSE Stay("w_wait")
    /\ UNCHANGED <<tx, rx, re, elsewhere>>

WriteWait ==
    /\ Running /\ pc = "w_wait"
    /\ seen # tx_out \/ HostGone
    /\ Stay("w_after")
    /\ UNCHANGED <<tx, rx, enables, elsewhere>>

\* "if (sp->host_inactive) break": any silence of the host ends the write.
WriteAfter ==
    /\ Running /\ pc = "w_after"
    /\ IF host_inactive # 0 THEN Leave ELSE Stay("w_look")
    /\ UNCHANGED <<tx, rx, enables, elsewhere>>

\* The characters that can be copied from rx_out on in one piece.
Ready(in, out) == IF in >= out THEN in - out ELSE BufLen - out

ReadLook ==
    /\ Running /\ pc = "r_look"
    /\ IF Ready(rx_in, rx_out) = 0 /\ ~moved /\ nonblock
       THEN Leave
       ELSE /\ seen' = IF Ready(rx_in, rx_out) = 0 THEN rx_in ELSE 0
            /\ n' = Lesser(Ready(rx_in, rx_out), left)
            /\ Goto(IF Ready(rx_in, rx_out) # 0 THEN "r_copy"
                    ELSE IF moved THEN "r_enable" ELSE "r_wait")
            /\ UNCHANGED <<left, moved, nonblock>>
    /\ UNCHANGED <<tx, rx, enables, elsewhere>>

Oldest(i) == rx_buf[rx_out + i - 1]

ReadCopy ==
    /\ Running /\ pc = "r_copy"
    /\ copied' = [i \in 1..n |-> Oldest(i)]
    /\ Stay("r_store")
    /\ UNCHANGED <<tx, rx_in, rx_out, rx_buf, rxDone, enables, elsewhere>>

ReadStore ==
    /\ Running /\ pc = "r_store"
    /\ rx_out' = Wrap(rx_out + n) /\ copied' = <<>>
    /\ rxDone' = (rxDone + n) % Numbers
    /\ left' = left - n /\ moved' = TRUE /\ n' = 0
    /\ Goto(IF left = n THEN "r_enable" ELSE "r_look")
    /\ UNCHANGED <<nonblock, seen, tx, rx_in, rx_buf, enables, elsewhere>>

ReadWait ==
    /\ Running /\ pc = "r_wait"
    /\ seen # rx_in \/ HostGone
    /\ Stay("r_after")
    /\ UNCHANGED <<tx, rx, enables, elsewhere>>

\* The index is read again: characters may have come since the loop ended.
ReadAfter ==
    /\ Running /\ pc = "r_after"
    /\ IF seen = rx_in THEN Leave ELSE Stay("r_look")
    /\ UNCHANGED <<tx, rx, enables, elsewhere>>

\* (A mutated form, a fault: interrupts are not enabled again.)
ReadEnableForgotten ==
    /\ Running /\ pc = "r_enable"
    /\ Leave
    /\ UNCHANGED <<tx, rx, enables, elsewhere>>

ReadEnable ==
    /\ Running /\ pc = "r_enable"
    /\ re' = TRUE
    /\ Leave
    /\ UNCHANGED <<tx, rx, we, elsewhere>>

\* altera_avalon_jtag_uart_close waits for the buffer to drain.
CloseWait ==
    /\ Running /\ pc = "c_wait"
    /\ tx_out = tx_in \/ HostGone \/ nonblock
    /\ Leave
    /\ UNCHANGED <<tx, rx, enables, elsewhere>>

\* TIOCSTIMEOUT
SetTimeout(t) ==
    /\ Running /\ pc = "idle" /\ HasClock
    /\ timeout' = IF t >= 2 /\ t < IntMax THEN t ELSE IntMax - 1
    /\ UNCHANGED <<pc, call, tx, rx, host_inactive, routine, enables, fifos,
                   outside>>

CallDriver ==
    \/ \E count \in Counts : 
          \/ (busy = "rx" => txNext + count <= Few) /\ Call("w_look", count)
          \/ Call("r_look", count)
    \/ Call("c_wait", 0)
    \/ \E t \in Requests : SetTimeout(t)

ProgramStep ==
    \/ WriteLook \/ WriteCopy \/ WriteStore \/ WriteKick \/ WriteWait \/ WriteAfter
    \/ ReadLook \/ ReadCopy \/ ReadStore \/ ReadWait \/ ReadAfter \/ ReadEnable
    \/ CloseWait

-----------------------------------------------------------------------------
(* altera_avalon_jtag_uart_irq and the interrupt conditions of the device. *)

RI == re /\ (pause_irq \/ ReadDepth - Len(rfifo) <= ReadMark)
WI == we /\ Len(wfifo) <= WriteMark

\* The routine is entered at its first look at the control register, and looks
\* again until neither interrupt is pending.
ReadControl ==
    /\ isr = "control" \/ (isr = "off" /\ (RI \/ WI))
    /\ isr' = IF RI THEN "receive" ELSE IF WI THEN "transmit" ELSE "off"
    /\ wi' = WI
    /\ space' = IF WI THEN WriteDepth - Len(wfifo) ELSE 0
    /\ ravail' = RI
    /\ UNCHANGED <<pc, call, tx, rx, clock, enables, fifos, outside>>

\* (A mutated form, a fault: characters are taken whether or not there is room.)
BufferNeverFull == FALSE

BufferFull == Wrap(rx_in + 1) = rx_out
AfterReceive == isr' = IF wi THEN "transmit" ELSE "control"

\* Reading the data register clears pause_irq.
ReceiveChar ==
    /\ isr = "receive" /\ ~BufferFull /\ rfifo # <<>>
    /\ rx_buf' = [rx_buf EXCEPT ![rx_in] = Head(rfifo)]
    /\ rx_in' = Wrap(rx_in + 1)
    /\ rfifo' = Tail(rfifo) /\ pause_irq' = FALSE
    /\ ravail' = (Tail(rfifo) # <<>>)
    /\ UNCHANGED <<pc, call, tx, rx_out, rxDone, copied, clock, isr, wi, space, enables,
                   wfifo, outside>>

ReceiveNone ==
    /\ isr = "receive" /\ ~BufferFull /\ rfifo = <<>>
    /\ pause_irq' = FALSE /\ ravail' = FALSE
    /\ AfterReceive
    /\ UNCHANGED <<pc, call, tx, rx, clock, wi, space, enables, wfifo, rfifo,
                   outside>>

\* With characters left in the FIFO receive interrupts are turned off.
ReceiveOn == re /\ ~ravail

ReceiveFull ==
    /\ isr = "receive" /\ BufferFull
    /\ re' = ReceiveOn
    /\ ravail' = FALSE
    /\ AfterReceive
    /\ UNCHANGED <<pc, call, tx, rx, clock, wi, space, we, fifos, outside>>

\* (A mutated form, a fault: the space is not counted down.)
SpaceUncounted == space

SpaceLeft == space - 1

TransmitChar ==
    /\ isr = "transmit" /\ space > 0 /\ tx_out # tx_in
    /\ wfifo' = IF Len(wfifo) < WriteDepth THEN Append(wfifo, tx_buf[tx_out]) ELSE wfifo
    /\ tx_out' = Wrap(tx_out + 1)
    /\ space' = SpaceLeft
    /\ UNCHANGED <<pc, call, tx_in, tx_buf, txNext, txDone, rx, clock, isr, wi, ravail,
                   enables, rfifo, pause_irq, outside>>

\* With space left in the FIFO the buffer is empty.
TransmitOn == we /\ space = 0

TransmitEnd ==
    /\ isr = "transmit" /\ ~(space > 0 /\ tx_out # tx_in)
    /\ we' = TransmitOn
    /\ space' = 0 /\ wi' = FALSE
    /\ isr' = "control"
    /\ UNCHANGED <<pc, call, tx, rx, clock, ravail, re, fifos, outside>>

IsrStep ==
    \/ ReadControl
    \/ ReceiveChar \/ ReceiveNone \/ ReceiveFull
    \/ TransmitChar \/ TransmitEnd

\* altera_avalon_jtag_uart_timeout, every second from the timer's interrupt.
Alarm ==
    /\ HasClock /\ isr = "off"
    /\ ac' = FALSE
    /\ host_inactive' = IF ac THEN 0
                        ELSE IF host_inactive < IntMax - 2 THEN host_inactive + 1
                        ELSE host_inactive
    /\ UNCHANGED <<pc, call, tx, rx, timeout, routine, enables, fifos, rxNext, busy>>

-----------------------------------------------------------------------------
(* The host, on the other side of the device. *)

HostTake ==
    /\ wfifo # <<>>
    /\ wfifo' = Tail(wfifo) /\ txDone' = (txDone + 1) % Numbers
    /\ UNCHANGED <<pc, call, tx_in, tx_out, tx_buf, txNext, rx, clock, routine, enables, rfifo, pause_irq,
                   outside>>

\* AC is only of interest to the alarm.
HostActive == ac' = HasClock

HostSend ==
    /\ Len(rfifo) < ReadDepth
    /\ busy = "tx" => rxNext < Few
    /\ rfifo' = Append(rfifo, rxNext) /\ rxNext' = (rxNext + 1) % Numbers
    /\ HostActive
    /\ UNCHANGED <<pc, call, tx, rx, clock, routine, enables, wfifo, pause_irq,
                   busy>>

\* t_pause: no more characters are coming for now.
HostPause ==
    /\ pause_irq' = (pause_irq \/ rfifo # <<>>)
    /\ HostActive
    /\ UNCHANGED <<pc, call, tx, rx, clock, routine, enables, wfifo, rfifo, rxNext,
                   busy>>

Next ==
    \/ CallDriver \/ ProgramStep \/ IsrStep \/ Alarm
    \/ HostTake \/ HostSend \/ HostPause

(* The processor and the timer never stop.  Nothing is assumed of the host.  *)
Spec ==
    /\ Init /\ [][Next]_vars
    /\ WF_vars(ProgramStep) /\ WF_vars(IsrStep) /\ WF_vars(Alarm)

-----------------------------------------------------------------------------
TypeOK ==
    /\ pc \in {"idle", "w_look", "w_copy", "w_store", "w_kick", "w_wait",
               "w_after", "r_look", "r_copy", "r_store", "r_wait", "r_after",
               "r_enable", "c_wait"}
    /\ left \in Nat /\ n \in 0..BufLen /\ seen \in Index
    /\ moved \in BOOLEAN /\ nonblock \in BOOLEAN
    /\ tx_in \in Index /\ tx_out \in Index /\ rx_in \in Index /\ rx_out \in Index
    /\ tx_buf \in [Index -> 0..(Numbers - 1)]
    /\ rx_buf \in [Index -> 0..(Numbers - 1)]
    /\ host_inactive \in 0..IntMax /\ timeout \in 2..IntMax
    /\ isr \in {"off", "control", "receive", "transmit"}
    /\ wi \in BOOLEAN /\ ravail \in BOOLEAN /\ space \in 0..WriteDepth
    /\ re \in BOOLEAN /\ we \in BOOLEAN /\ pause_irq \in BOOLEAN /\ ac \in BOOLEAN
    /\ Len(wfifo) <= WriteDepth /\ Len(rfifo) <= ReadDepth

Used(in, out) == (in - out) % BufLen
Contents(buf, in, out) ==
    [i \in 1..Used(in, out) |-> buf[(out + i - 1) % BufLen]]

\* What a read has not yet copied of the buffer.
NotCopied ==
    SubSeq(Contents(rx_buf, rx_in, rx_out), Len(copied) + 1, Used(rx_in, rx_out))

(* Each direction is a FIFO from the driver's buffer to the device's or    *)
(* back: a character goes in when the writer moves tx_in (write.c:126), or *)
(* the host sends it, and comes out when the host takes it, or the reader  *)
(* moves rx_out (read.c:140).                                              *)
Tx == INSTANCE CharFifo WITH Capacity <- BufLen - 1 + WriteDepth,
        queue <- wfifo \o Contents(tx_buf, tx_in, tx_out),
        next <- txNext, done <- txDone
Rx == INSTANCE CharFifo WITH Capacity <- BufLen - 1 + ReadDepth,
        queue <- copied \o NotCopied \o rfifo,
        next <- rxNext, done <- rxDone

\* The output implements a FIFO: no interleaving of write, interrupt routine and
\* host loses, repeats or reorders a character.
TxSpec == Tx!Spec

\* So does the input: the copy a read returns is of the oldest characters, and
\* the interrupt routine does not write into their cells before rx_out moves
\* past them.
RxSpec == Rx!Spec

\* A copy of the writer stays inside the array and inside its free part, a copy
\* of the reader inside the filled part, although the other side moves its index
\* after the length of the copy was computed (write.c:106-126, read.c:122-140).
CopiesInBounds ==
    /\ pc \in {"w_copy", "w_store"} =>
          n > 0 /\ tx_in + n <= BufLen /\ Used(tx_in, tx_out) + n < BufLen
    /\ pc \in {"r_copy", "r_store"} =>
          n > 0 /\ rx_out + n <= BufLen /\ n <= Used(rx_in, rx_out)

(* Output in the buffer is going to be sent: the transmit interrupt is     *)
(* enabled, or the writer is about to enable it (write.c:136-139).         *)
NoStrandedOutput ==
    tx_in # tx_out => we \/ pc \in {"w_look", "w_copy", "w_store", "w_kick"}

(* Receive interrupts are off only while there is something to read, whose *)
(* reader turns them on again (read.c:188-195).                            *)
NoStrandedInput ==
    ~re => \/ rx_in # rx_out
           \/ moved /\ pc \in {"r_look", "r_copy", "r_store", "r_enable"}

\* No character waits for an interrupt that nobody turns on: the program and the
\* interrupt routine both change the enable bits and both look at the indices, in
\* any order (write.c:136-139, read.c:188-195, init.c:156-162, 186-190).
NothingStranded == NoStrandedOutput /\ NoStrandedInput

\* The comparison of an old tx_out with the current one (write.c:183) waits only
\* while the buffer is full: the index cannot come round to the old value.
WaitsOnlyWhenFull ==
    pc = "w_wait" /\ seen = tx_out => Used(tx_in, tx_out) = BufLen - 1

Writing == pc \in {"w_look", "w_copy", "w_store", "w_kick", "w_wait", "w_after"}

\* A write returns, and with it every entry of the interrupt routine, if the host
\* keeps taking characters, or if it falls silent, there is a system clock and the
\* timeout is a finite one (write.c:167-197).
WriteReturns ==
    (WF_vars(HostTake) \/ <>[](~ac /\ timeout < IntMax - 1)) => (Writing ~> ~Writing)
=============================================================================
