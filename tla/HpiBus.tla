------------------------------- MODULE HpiBus -------------------------------
(***************************************************************************)
(* The bus to the USB chip: io_handler.c drives the pins one store at a    *)
(* time, hpi_io_intf.sv passes the stored bits on one clock later and the  *)
(* 16 data lines are shared with the chip.                                 *)
(*                                                                         *)
(* One step is a store or load of the program, a clock edge, the button,   *)
(* or a change of a register by the chip.  The chip is external: it drives *)
(* the data lines while it is read, and takes a word when the write strobe *)
(* ends.                                                                   *)
(***************************************************************************)
EXTENDS Integers, Sequences

CONSTANTS
    Addresses, Values, Zero, Unknown, Nothing,   \* as in HpiPort
    First,    \* the address 0
    MinGap,   \* clock edges between two stores, at least; a Nios II/e has 6 and more
    Access    \* clock edges a strobe has to last for the chip

ASSUME HpiBusAssumption ==
    /\ Zero \in Values /\ First \in Addresses /\ Unknown \notin Values
    /\ Nothing \notin {"read", "write"} \X Addresses \X Values
    /\ Access \in Nat \ {0} /\ MinGap \in Nat /\ MinGap >= Access + 3

VARIABLES
    (* the program: the stores it still has to make in this call, the      *)
    (* value read, the clock edges since the last store; the PIO registers *)
    todo, temp, gap, pio, ready,
    (* hpi_io_intf: its registers, Reset *)
    pins, data_in, readdata, Reset,
    (* the data lines when nobody drives them; how long the present strobe *)
    (* has lasted at the chip; the chip's registers                        *)
    held, strobe, register,
    (* history, as in HpiPort *)
    call, landed, seen, disturbed, result

software == <<todo, temp, gap, pio, ready>>
interface == <<pins, data_in, readdata>>
history == <<call, landed, seen, disturbed, result>>
vars == <<software, interface, Reset, held, strobe, register, history>>

Low == 0
High == 1
To(name, value) == <<name, value>>

\* io_handler.c:5-18
InitStores ==
    << To("rst", High), To("cs", High), To("rd", High), To("wr", High),
       To("addr", First), To("data", Zero), To("cs", Low), To("rst", Low),
       To("rst", High), To("cs", High) >>

\* (A mutated form, a fault: the strobe starts before the data is stored.)
WriteStoresLateData(a, d) ==
    << To("cs", Low), To("rd", High), To("addr", a), To("wr", Low), To("wr", High),
       To("data", d), To("cs", High) >>

\* io_handler.c:20-34
WriteStores(a, d) ==
    << To("cs", Low), To("rd", High), To("addr", a), To("data", d), To("wr", Low),
       To("wr", High), To("cs", High) >>

Load == To("temp", Zero)

\* io_handler.c:36-53
ReadStores(a) ==
    << To("cs", Low), To("wr", High), To("addr", a), To("rd", Low), Load,
       To("rd", High), To("cs", High) >>

AllLow == [addr |-> First, data |-> Zero, rd |-> Low, wr |-> Low, cs |-> Low, rst |-> Low]

Init ==
    /\ todo = InitStores /\ temp = Zero /\ gap = MinGap /\ pio = AllLow
    /\ ready = FALSE
    /\ pins = AllLow /\ data_in = Zero /\ readdata = Zero /\ Reset = FALSE
    /\ held = Unknown /\ strobe = 0
    /\ register = [a \in Addresses |-> Zero]
    /\ call = Nothing /\ landed = 0 /\ seen = {} /\ disturbed = FALSE
    /\ result = Zero

-----------------------------------------------------------------------------
(* The data lines. *)

\* (A mutated form, a fault: the interface drives whenever the chip is selected.)
DrivesSelected(p) == p.cs = Low

\* hpi_io_intf.sv:43: the PIO, not the registered strobe, decides.
Drives(p) == p.wr = Low

\* What the chip sees of its pins.
Selected(q) == q.rst = High /\ q.cs = Low
Reading(q) == Selected(q) /\ q.rd = Low
Writing(q) == Selected(q) /\ q.wr = Low

OTG_DATA ==
    IF Drives(pio) THEN IF Reading(pins) THEN Unknown ELSE pins.data
    ELSE IF Reading(pins)
         THEN IF strobe >= Access THEN register[pins.addr] ELSE Unknown
    ELSE held

-----------------------------------------------------------------------------
(* The program. *)

MayStore == gap = MinGap
Reads(c) == c # Nothing /\ c[1] = "read"

Idle == ready /\ todo = <<>> /\ call = Nothing /\ MayStore

IO_read(a) ==
    /\ Idle
    /\ call' = <<"read", a, Zero>> /\ todo' = ReadStores(a)
    /\ seen' = {register[a]}
    /\ landed' = 0 /\ disturbed' = Reset
    /\ UNCHANGED <<temp, gap, pio, ready, interface, Reset, held, strobe, register,
                   result>>

IO_write(a, d) ==
    /\ Idle
    /\ call' = <<"write", a, d>> /\ todo' = WriteStores(a, d)
    /\ seen' = {}
    /\ landed' = 0 /\ disturbed' = Reset
    /\ UNCHANGED <<temp, gap, pio, ready, interface, Reset, held, strobe, register,
                   result>>

\* When the interface stops driving, the lines keep their word for a moment.
Store ==
    /\ MayStore /\ todo # <<>> /\ Head(todo) # Load
    /\ pio' = [pio EXCEPT ![Head(todo)[1]] = Head(todo)[2]]
    /\ held' = IF Drives(pio) /\ ~Drives(pio') THEN OTG_DATA ELSE held
    /\ todo' = Tail(todo) /\ gap' = 0
    /\ UNCHANGED <<temp, ready, interface, Reset, strobe, register, history>>

LoadData ==
    /\ MayStore /\ todo # <<>> /\ Head(todo) = Load
    /\ temp' = readdata
    /\ todo' = Tail(todo) /\ gap' = 0
    /\ UNCHANGED <<pio, ready, interface, Reset, held, strobe, register, history>>

\* The end of IO_init or of a call; the caller's next store is a while later.
Return ==
    /\ todo = <<>> /\ MayStore /\ (call # Nothing \/ ~ready)
    /\ ready' = TRUE
    /\ result' = IF Reads(call) THEN temp ELSE result
    /\ temp' = Zero
    /\ call' = Nothing /\ landed' = 0 /\ seen' = {} /\ disturbed' = FALSE
    /\ UNCHANGED <<todo, gap, pio, interface, Reset, held, strobe, register>>

-----------------------------------------------------------------------------
(* The hardware. *)

\* hpi_io_intf.sv:21-26
ForcedPins == AllLow

NextPins == IF Reset THEN ForcedPins ELSE pio

\* The chip takes the word when a write strobe that was long enough ends.
Takes == Writing(pins) /\ ~Writing(NextPins) /\ NextPins.rst = High
Word == IF strobe >= Access THEN OTG_DATA ELSE Unknown

Noticed(r) == IF Reads(call) THEN seen \cup {r[call[2]]} ELSE {}

Edge ==
    /\ pins' = NextPins
    /\ data_in' = IF Reset THEN Zero ELSE OTG_DATA
    /\ readdata' = data_in
    /\ held' = IF Drives(pio) THEN held ELSE Unknown
    /\ strobe' = IF pins' = pins /\ (Reading(pins) \/ Writing(pins))
                 THEN IF strobe < Access THEN strobe + 1 ELSE strobe
                 ELSE 0
    /\ register' = IF NextPins.rst = Low THEN [a \in Addresses |-> Zero]
                   ELSE IF Takes THEN [register EXCEPT ![pins.addr] = Word]
                   ELSE register
    /\ landed' = IF Takes THEN landed + 1 ELSE landed
    /\ seen' = Noticed(register')
    /\ gap' = IF gap < MinGap THEN gap + 1 ELSE gap
    /\ UNCHANGED <<todo, temp, pio, ready, Reset, call, disturbed, result>>

Key0 ==
    /\ Reset' = ~Reset
    /\ disturbed' = (call # Nothing)
    /\ UNCHANGED <<software, interface, held, strobe, register, call, landed, seen,
                   result>>

ChipSets(a, v) ==
    /\ ready /\ pins.rst = High
    /\ register' = [register EXCEPT ![a] = v]
    /\ seen' = Noticed(register')
    /\ UNCHANGED <<software, interface, Reset, held, strobe, call, landed, disturbed,
                   result>>

Next ==
    \/ \E a \in Addresses : IO_read(a)
    \/ \E a \in Addresses, d \in Values : IO_write(a, d)
    \/ Store \/ LoadData \/ Return
    \/ Edge \/ Key0
    \/ \E a \in Addresses, v \in Values : ChipSets(a, v)

Spec == Init /\ [][Next]_vars
-----------------------------------------------------------------------------
Words == Values \cup {Unknown}
Bit == {Low, High}
Pins == [addr : Addresses, data : Values, rd : Bit, wr : Bit, cs : Bit, rst : Bit]

TypeOK ==
    /\ Len(todo) <= 10 /\ temp \in Words /\ gap \in 0..MinGap /\ ready \in BOOLEAN
    /\ pio \in Pins /\ pins \in Pins
    /\ data_in \in Words /\ readdata \in Words /\ Reset \in BOOLEAN
    /\ held \in Words /\ strobe \in 0..Access
    /\ register \in [Addresses -> Words]

(* Until IO_init has returned the pins are what the power-up left there.   *)
Port == INSTANCE HpiPort WITH
            register <- IF ready THEN register ELSE [a \in Addresses |-> Zero],
            landed <- IF ready THEN landed ELSE 0

\* The sequences of stores and loads implement atomic transfers: one word taken
\* by the chip for each IO_write, of the right register and value, a value the
\* register had for each IO_read.  IO_init leaves the chip in its reset state
\* although the strobes are low when it starts.
PortSpec == Port!Spec

(* The FPGA and the chip do not drive the data lines together: the         *)
(* direction follows the PIO at once (hpi_io_intf.sv:43), the read strobe  *)
(* a clock later, and KEY[0] comes at any time.                            *)
NoContention == ~(Drives(pio) /\ Reading(pins))

(* Between the store that ends a write and the clock edge that ends        *)
(* OTG_WR_N the FPGA no longer drives, but the lines do not float under a  *)
(* write strobe for a whole clock.                                         *)
StrobeOverKnownData == Writing(pins) => OTG_DATA # Unknown

(* Both strobes are never low together: those that KEY[0] forces low       *)
(* (hpi_io_intf.sv:23-26) are covered by the reset pin.                    *)
OneStrobe == ~(Reading(pins) /\ Writing(pins))

\* Once IO_init has returned the bus is used as the chip expects, in any order of
\* the program's stores, the clock edges and the button: one driver of the data
\* lines, one strobe, and no word written that nobody drives (hpi_io_intf.sv:19-43).
BusDiscipline == ready => NoContention /\ StrobeOverKnownData /\ OneStrobe
=============================================================================
