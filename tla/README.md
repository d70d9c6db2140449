# Space Invaders on an FPGA: a TLA+ verification project

The repository is a game for a DE2-115 board: SystemVerilog that draws a cannon
and its laser on a VGA screen, and a C program on a Nios II processor that reads
a USB keyboard through an EZ-OTG (CY7C67200) chip and hands the key codes to the
hardware. The program runs on a board support package: a hardware abstraction
layer (HAL) with file descriptors, a clock, interrupts and a heap, and a driver
for the JTAG UART that carries `printf`. This directory holds TLA+ models of that
system, the TLC configurations that check them, and theorems that TLAPS proves
about them. `PROJECT.json` is the index: components, runs, mutants, the source
lines of every definition, findings, hazards and theorems.

## The system

```
 keyboard --USB-- EZ-OTG chip ==HPI bus== hpi_io_intf ==PIOs== Nios II (main.c, usb.c)
                                                                  |        | printf
                                                                  |       HAL -- JTAG UART -- host
                                                                  | keycode PIO
   KEY[0] -> Reset_h -> VGA_CLK divider -> VGA_controller         v
                  |                           | VGA_VS     space / left / right
                  v                           v                   |
               cannon  --Cannon_X_Pos_in-->  laser   <------------+
                  | is_cannon                 | is_laser      hex displays
                  +----------> color_mapper <-+
```

| Part | State | Operations | What makes it correct |
|---|---|---|---|
| `cannon.sv` | position, motion (10-bit registers) | a frame with left / right / none, reset | stays on the screen without wrapping although the stop at an edge takes effect one frame late; moves one step at a time |
| `laser.sv` | position, column of the shot, motion, `laser_on` | a frame: climb, fire or rest; reset | one shot at a time, in a fixed column; the row never wraps below 0; every shot ends |
| `final_project.sv`, `Color_Mapper.sv` | the keycode PIO | the software writes the PIO; a frame; reset | a shot starts at the cannon and can be seen; held keys act |
| `HexDriver.sv` and its wiring | none | - | the displays show the keycode |
| Reset register, VGA clock divider, `VGA_controller.sv`, edge detectors | `Reset_h`, `VGA_CLK`, counters, sync and blanking registers, detector registers | one 50 MHz clock edge; the button | one tick per frame, outside the picture; ticks never end; blanking fits the pixel |
| `main.c`, `usb.c` | program position, retry counters, last message | bring-up, nine enumeration lists, polling, hot plug, retry | goes past a list only after the keyboard's acknowledgement of it; does not wait for ever; stops polling a keyboard that is gone; publishes what was reported |
| EZ-OTG chip and keyboard (external) | mailbox, message register, memory at 0x0500, engine; address and configuration, reports | fetch a TD, carry it out, write its result back, post a message, be plugged and unplugged | environment |
| `io_handler.c`, `hpi_io_intf.sv` | PIO registers, one register per pin | `IO_init`, `IO_write`, `IO_read` | each call is one transfer at the chip; the data lines have one driver |
| JTAG UART driver | two ring buffers, interrupt enables, the alarm's count | write, read, close, ioctl; interrupt routine; alarm | characters in order, none lost or repeated; nobody waits for an interrupt that is off; a write comes to an end |
| HAL: descriptors | `alt_fd_list`, its mark | start-up, open, close, ioctl, fcntl, lock and unlock | the streams stay on the console; a device is locked once at most and opened by nobody else while it is |
| HAL: clock | tick counter, alarms, reset time | tick, start and stop an alarm, set and get the time | an alarm goes off at its tick, across every wrap; the time of day goes on from the time set |
| HAL: interrupts | `alt_irq`, `ienable`, `PIE`, priority mask | register, dispatch, nest | no half-registered handler is called; priorities hold |
| HAL: heap | `heap_end` | `sbrk` of program and interrupt routine | no byte is handed out twice |

Not modelled: see the end.

The parts interact in four ways. The processor and the USB chip share the chip's
memory and message registers and run at their own speeds; they do so through the
pins of the HPI bus, one store at a time. The processor writes the keycode PIO at a
time unrelated to the frames. Within the FPGA everything is clocked by `CLOCK_50`,
except the VGA controller, whose clock is a divided one that the reset button
stops. The program and its interrupt routines share the ring buffers, the interrupt
tables and the heap. What is hard to test is therefore: the interleavings of
program and chip and of program and interrupt routine, unplugging at any moment,
unsigned arithmetic near the edges, indices and counters that wrap, decisions
that take effect one frame or one clock later, and the button at any clock edge.
The `hazards` of `PROJECT.json` list these at their lines.

## Modules

| Module | Models | Extends / instantiates |
|---|---|---|
| `Registers` | addition and two's complement of `logic [9:0]` | |
| `Cannon` | `cannon.sv` | `Registers` |
| `Gun` | abstract: a gun with at most one shot in the air | |
| `Laser` | `laser.sv`; refinement `G` to `Gun` | `Registers`, `Gun` |
| `Keys` | decoding of the keycode (`final_project.sv:165-169`) | |
| `Game` | `final_project.sv`: PIO, cannon, laser, colours together | `Keys`, `Cannon`, `Laser` |
| `KeyDisplay` | the hex displays of the keycode | `Keys` |
| `MCParts` | `Cannon` and `Laser` at their real size for TLC, one at a time | `Cannon`, `Laser` |
| `MCGame` | a small screen and key codes for `Game` | `Game` |
| `FrameClock` | `KEY[0]` and `CLOCK_50` to `frame_clk_rising_edge` | |
| `UsbHost` | `main.c` and `usb.c` against the chip and the keyboard | |
| `HpiPort` | abstract: a transfer to the chip is one event | |
| `HpiBus` | `io_handler.c`, `hpi_io_intf.sv`, the data lines; refinement `Port` | `HpiPort` |
| `CharFifo` | abstract: characters come out in the order they went in | |
| `JtagUart` | the driver, the device, the alarm and the host; refinements `Tx`, `Rx` | `CharFifo` twice |
| `HalFiles`, `HalIrq`, `HalHeap` | descriptors; interrupts; `sbrk` | |
| `Countdown` | abstract: alarms that count down, without a clock that wraps | |
| `HalClock` | ticks, alarms, time of day; refinement `C` | `Countdown` |
| `MCHal` | the four parts of the HAL for TLC, one at a time | the four |
| `CannonProofs`, `LaserProofs`, `FrameClockProofs`, `UsbHostProofs`, `HpiBusProofs`, `JtagUartProofs` | theorems | their module, `TLAPS` |
| `GameProofs` | theorems | `Game`; `CannonProofs`, `LaserProofs` |
| `HalProofs` | theorems about the four parts of the HAL | `MCHal` |

A definition introduced by a comment that says "a fault" is not part of the
specification: it is the mutated form of the definition after it, used to make sure that the
properties notice such a bug.

### Cannon and Laser

One step is one frame. Both modules are clocked at 50 MHz, but their registers
change only at the edge at which `frame_clk_rising_edge` is high or while `Reset`
is high, so `CannonFrame` and `CannonReset`, `LaserFrame` and `LaserReset` are all there
is; `FrameClock` models the pulse itself. A frame is the whole `always_comb` block: all
next values are computed
from the old registers. In particular `Cannon_X_Pos'` uses the old motion: a key,
and the stop at an edge ("keep position same", `cannon.sv:82`), act one frame
late. `LaserFrame` has the three outcomes of the `case`: `Climb`, `Fire` and
`Rest`; the blocks of lines 86-91 and 109-114 are overwritten by the `else` that
follows them whenever they apply, so they have no outcome of their own.
`Gun` has no screen, keys or registers: a set of at most one shot that is fired, climbs
and, once it has arrived, is retired or replaced. `Clear`, which takes it away in the
air, is the step that says so in `reset`, and `Laser` maps that to its history variable
`Reset`, the value of the wire at the last edge: no other step of the laser can be it.

`CannonInit` and `LaserInit` are the power-up state: there is no `initial` block, and the device's
registers power up low, so all registers are 0 until the button is first pressed
(the row of the cannon is 0 then; with `Cannon_X_Pos = 0` it lies in its range).

### Game

The variables of `Cannon` and `Laser` with the keycode PIO. `Publish` is the
store at `main.c:556` as the hardware sees it, between any two frames; `Frame`
steps both components with the decoded keys, the laser with the cannon's *next*
column; `Reset` reaches both and not the PIO (`reset_reset_n` is tied high). The
pictures are operators over a pixel: `Disc` is the distance test of both files,
`Colour` the priority of `Color_Mapper.sv`.

### FrameClock

One step is an edge of `CLOCK_50`, or the button. `VGAEdge` happens at the edges
that raise `VGA_CLK`. `Reset_h` may change at the very edge that raises
`VGA_CLK`; the controller, one clock tree further, samples the old or the new
value, and the model takes either.

### UsbHost

`pc` is the position in `main.c`, `stage` the TD list the program is at: 1 to 9
are the enumeration lists in the order of `main.c`, 10 is the polling transfer.
The nine copies of "post the list, wait for the flag, wait for the message, look
at the control byte" (`main.c:177-497`) are one set of actions:

| Actions | Code |
|---|---|
| `SoftReset`, `ClearInterrupts` | `UsbSoftReset` |
| `InitSIE1`, `CheckInitAck`, `ResetBus`, `CheckBusResetAck` | `main.c:66-133` |
| `CheckPresence`, `RetryPresence`, `AwaitInsertion` | `main.c:135-161` |
| `PostList`, `StartList` | a `Usb...` list function: the words, then the pointer |
| `CheckFlag`, `RepostList`, `RestartList` | the loops that post a list again |
| `ReadMessage`, `ClearMessage` | `UsbWaitTDListDone`, its two accesses apart |
| `CheckControl`, `RetryCount`, `RetryClear`, `RetryWait` | the control byte and `UsbGetRetryCnt` |
| `DeviceInfo` | `main.c:342-374`, the bytes handed to the chip as a list |
| `Publish` | `main.c:548-558` |
| `CheckRemoval`, `RetryRemoval`, `AwaitReinsertion` | `main.c:558-591` |

A list is written in the order of its addresses while the chip may be at work on it, in
five steps: buffer and length (`WriteBuffer`), token and address (`WriteToken`), the
control byte (`Arm`), the first word of the request (`WriteRequest`), the rest
(`WriteRest`). A step is a group of words that the chip reads together and that does not
tell two lists apart half way. The chip's memory is what these groups say: `head`, the
transaction asked for; `ctl`, the control byte at 0x0508; `request`, whose request is in
0x050c to 0x0512; and `buf`, the word at 0x051e, where a list that is long enough leaves
words of its own (`LeftAt051e`). A transaction or a request of which one part is from
one list and one from another is `torn`.

The chip and the keyboard are external. A run of a list is `FetchTD`, which reads the
first TD; its transaction (`SendSetup`, `ReceiveReport`, `NoAnswer`, `TornAnswer`), for
which the request is read from memory when it is sent; `WriteBack`, which stores the result
at 0x0508 whatever the program has written there since; and `RunRest`, which ends in the
TDListDone message. The program may take any number of steps between two of these, and
a pointer written meanwhile starts another run afterwards. `RunBytes` is what the chip
may make of descriptor bytes that `DeviceInfo` hands it as a list, `ExecCommand` its
answer to a command, `PlugOrUnplug`, `PressOrRelease` and `KeyReset` the player.

Two history variables: `acked`, how many lists, in their order, the keyboard has
acknowledged the request of since the last soft reset; `overtaken`, whether the program
began to write a new list while the chip still had a posted one to run.

Nothing is assumed of the speeds: the program sleeps (`usleep`) and prints between its
accesses, but no sleep bounds the time the chip takes, so a sleep is no step and has no
effect. The data toggle has no variable; the program counts polls, not answers
(`main.c:505-520`), so that `ReceiveReport` may drop any report.

Left out: the packet size and interface class that are only printed or copied, `printf`,
the second port and the frame interrupts (any status bit ends the loop at `main.c:98`). A
transfer is one step here; that this is what the pins do is `HpiBus`.

### HpiBus and HpiPort

A call of `io_handler.c` is the list of stores and loads it makes (`InitStores`,
`WriteStores`, `ReadStores`), executed one at a time with at least `MinGap` clock
edges between two of them. `Edge` is a clock edge of `hpi_io_intf`: the pins get
the PIO registers, or all low while `Reset` is down, and what the chip does about
the pins it saw. The 16 data lines are `OTG_DATA`: the FPGA drives them while the
*PIO's* write bit is low (line 43), the chip while it sees a read strobe, and if
both or none do the word is `Unknown`, except that lines keep their word until the
next edge (`held`). The strobes are registered, the direction is not; that is why
the order of the stores matters. `Key0` may come between any two steps. The chip
is external: it takes a word when the write strobe ends, answers a read after
`Access` edges, and clears its registers while the reset pin is low.

`HpiPort` is what the callers rely on: in a call the chip takes one word, of the
right register and value, or a read returns a value the register had during the
call. After the button has interfered with a call nothing is promised of it.

### JtagUart and CharFifo

The program is a position `pc` with the locals of the call; the interrupt routine a
position `isr`. One step has at most one access to what the other side changes, so
that "read `tx_out`, compute the room, copy, move `tx_in`" (`write.c:105-126`) is
`WriteLook`, `WriteCopy`, `WriteStore`; the interrupt routine may run between any
two of them, and the program stands still meanwhile (`Running`).

| Actions | Code |
|---|---|
| `WriteLook`, `WriteCopy`, `WriteStore`, `WriteKick`, `WriteWait`, `WriteAfter` | `altera_avalon_jtag_uart_write` |
| `ReadLook`, `ReadCopy`, `ReadStore`, `ReadWait`, `ReadAfter`, `ReadEnable` | `altera_avalon_jtag_uart_read` |
| `CloseWait`, `SetTimeout` | `..._close`, `..._ioctl` |
| `ReadControl`, `ReceiveChar`, `ReceiveNone`, `ReceiveFull`, `TransmitChar`, `TransmitEnd` | `..._irq` |
| `Alarm` | `..._timeout` |
| `HostTake`, `HostSend`, `HostPause` | the host, through the device's FIFOs |

The characters are numbers given in the order in which they enter, so that a lost,
repeated or overtaken one shows. `CharFifo` has a queue only: `Put` when the writer
moves `tx_in`, `Get` when the host takes a character. `Tx` maps the queue to the
device's FIFO followed by the filled part of the ring buffer; `Rx` to what a read
has copied, the rest of the buffer and the device's FIFO. `TransmitChar` is then a
stutter exactly if the device has room for the character, and `ReceiveChar` if the
buffer has.

Initially the alarm may or may not have been started: this build has no system
clock, the driver then never gives up on a silent host (`timeout = IntMax`).

### The HAL

`HalFiles`: a step is a whole call, since the program has one thread and no interrupt
routine uses descriptors. `RegisterDevices` and the three steps of `Boot` (one
`Redirect` per stream) are `alt_main` up to `main`; then come `OpenLocked` and `Open`
(`open` on a device that another descriptor has locked, and on one that is free to use),
`Close`, `Lock`, `Unlock` (`ioctl` with `TIOCEXCL` and `TIOCNXCL`), `SetFlags` (`fcntl`)
and `MainReturns`. `HalClock`: `AltTick` is
a whole tick with the answers of all callbacks; all times are words modulo `W`.
`HalIrq`: the program registers handlers in the steps between which the code could be
interrupted if its critical section did not hold; `nest` is the stack of
`alt_irq_handler` invocations, each of which reads the pending set, scans it, calls
the handler and looks again; a handler may let higher priorities in
(`alt_irq_interruptible`). `HalHeap`: the steps of the program's `sbrk`, and a whole
`sbrk` of an interrupt routine wherever interrupts are on.


## Runs and what they show

| Run | Module, bounds | States | Shows |
|---|---|---|---|
| `parts` | `MCParts`, the real parameters, columns 0, 320, 638 | 2,133 | the cannon is on the screen and moves one step per frame, for every sequence of keys and resets; the laser never wraps, is drawn in its column, and implements `Gun` with its liveness: a shot ends at the top or by a reset, and every shot ends |
| `game` | `MCGame`, screen of 14 x 14, steps 2 and 4, registers of 5 bits, 9 key words | 8,316 | the composition: shots start at the cannon and are visible, held keys act, releases end the fire |
| `frame_clock` | `FrameClock`, raster of 6 x 9 | 452 | one tick per frame, outside the picture; blanking; frames for ever |
| `usb_any_speed` | `UsbHost`, 1 key, 2 plug events or chip resets, change messages | 2,078,114 | a list is skipped only if one was overtaken (`InOrderUnlessOvertaken`); `PollingStops` |
| `jtag_uart` | `JtagUart`, buffers of 3, FIFOs of 1, calls of 1 and 3 characters, numbers modulo 6 | 613,742 | both directions are FIFOs; copies stay in the free part; nobody is left waiting; a write returns |
| `hpi_bus` | `HpiBus`, 2 registers, 2 words, stores 4 clock edges apart | 157,562 | transfers are atomic; one driver on the data lines |
| `hal` | `MCHal`: 6 descriptors; 2 alarms modulo 8; 3 interrupts, 2 handlers; a heap of 19 bytes | 179,522 | streams, locks, alarms, time of day, priorities, heap |
| `key_display_hex3`, `usb_leftover`, `usb_lost_done`, `usb_skipped_list`, `hal_lock` | as above | | a disagreement each, see below |

### Bounds, and why they are enough

The cannon and the laser are checked at their real size; three columns suffice for the
laser because it only copies them. The screen of `Game` keeps what matters of the real
one: the cannon needs several frames to cross it, both edge margins lie inside it, and
a shot climbs through rows 13, 9 and 5 to row 1, as the real one does through 470, ...
to 1. The key codes include both bytes, conflicting keys and an unknown key. The raster
of `FrameClock` keeps the order visible < sync < total in both directions with front
and back porch, and the divider's two phases. In `UsbHost` two events (`MaxEvents`) are a
removal and a return, a removal and a press of `KEY[0]`, or two presses, at any two
moments; the lists are checked in full, all ten, and each may be posted again any number
of times. Two are needed for the program to write over the list of the polls while the chip
still has it to run (`TornAnswer`). The invariant and the types are proved for any number.

In `JtagUart` a ring buffer of three places holds two characters: it is full, empty, and
wraps in every run, a copy is cut at its end, and a call of three characters is longer
than it, so that the writer has to wait and to copy again. The FIFOs of the device hold
one character, so they are full and empty all the time. `Numbers` is larger than the
number of characters that can be in flight, so no two of them look alike. `Few`
bounds one direction while the other is busy: the two share the interrupt routine and
the enable bits, not the buffers, and a direction that has ended still has its
interrupt to be left on or off.

In `HpiBus` two registers and two values tell a right word from a wrong one and a right
address from a wrong one. `MinGap` is smaller than what a Nios II/e, with six cycles and more for
an instruction, can reach. In the HAL, six descriptors are the three streams, two more
and one that stays free, so that marks, holes and locks of both devices occur; a word of
three bits makes the tick counter and the alarms wrap at different times, and products
of the time of day overflow; three interrupts nest two deep with one left out; the heap
is used up by four blocks of the sizes 1, 4 and 6, which need padding.

### Fairness, and why the code justifies it

`CLOCK_50` never stops: `WF(ClkEdge)`, and therefore frames never stop
(`FramesKeepComing`): `WF(AnyFrame)` in `Laser`, `WF(Frame)` in `Game`. In `Game` this
is an idealisation while the button is held, when `VGA_CLK` stands still; the liveness
properties assume that the resets end, or do not depend on it. The processor and the
chip never stop: `WF(ProgramStep)` and `WF(ChipStep)` in `UsbHost`. A step that waits in
a loop for a condition is a disabled step until the condition holds; hence no deadlock
check for `UsbHost`: a program waiting for a keyboard that never comes is meant to wait.
`JtagUart` has `WF(ProgramStep)`, `WF(IsrStep)` and `WF(Alarm)`: the program, an
interrupt routine that has been entered or is requested, and the alarm once it runs. Nothing is assumed
of the host: `WriteReturns` names what it needs as its hypothesis, a host that takes
characters, or a driver that has a finite patience and a host that stays away. Nothing
is assumed of the player, the button or the plug.

## Disagreements between the code and what is said of it

Shown by a run that TLC finds violated:

- `key_display_hex3`: HEX3 shows bits 14 to 11 of the keycode, not its top digit.
- `usb_leftover`: until a poll succeeds, the word 0x0520 of a TD list is published
  as two keycodes.
- `usb_lost_done`: a message between the read and the clearing write of
  `UsbWaitTDListDone` is lost for good, and the program waits for ever.
- `usb_skipped_list`: a list posted twice is run twice; the second run is still to come
  when the program arms the control byte for the next list, its result lands there, and
  the program prints "get device descriptor-1 done!" (`main.c:234`) of a list whose request
  the keyboard has not seen. `InOrderUnlessOvertaken` says that there is no other way in
  which a list is skipped.
- `hal_lock`: `alt_fd_lock.c:43-45` promises exclusive access if no other descriptor of the
  device is open. The search (line 61) ends *below* `alt_max_fd`, the highest descriptor
  ever given out (`alt_open.c:79` searches up to and including it), so the one at the mark
  is missed. What remains is in `FilesSafe`: never two locks of a device
  (`OneLock`), never more than that one other user (`SharedOnceAtMost`), and later opens
  are refused (`OpenRespectsLock`).

Read off the code, and built into the models as the code has it:

- `VGA_controller.sv:27` calls its reset active high, but `Reset_h` stops `VGA_CLK`
  (`final_project.sv:100-106`), the only clock with which the controller samples it.
  A reset that is held does not bring the counters to zero, unless the divider's phase
  lets one last edge through.
- `main.c:558-591` looks for the keyboard seven times, 5 ms apart. One that is back
  within about 35 ms goes on being polled at address 2, which it no longer has; it is
  never set up again.
- `alt_settod.c:61-63` takes settings as the present time, to be read back by
  `gettimeofday`. It computes the microseconds since the last second from a product of 32 bits
  (line 84), `gettimeofday` from one of 64. From the first overflow on (after 71 minutes) the time set reads back differently, by less than a
  second: `Slip`. `TimeOfDayAdds` says that this is all of the error.
- `alt_sbrk.c:46-48` says that `sbrk` "does not perform any bounds checking" and allocates
  even what overflows the memory. Lines 88-91 of the same function do check, and refuse.
  `BlocksInHeap` states what the code does, not what the comment says.
- `cannon.sv` has no power-up value for its row: until the first reset the cannon is drawn
  in row 0 (`CannonInit`), and `ShotIsVisible` speaks of its own row for that reason.
- `main.c:558-575`: nothing is written to the PIO when the keyboard is found missing. With a
  key down at that moment the game goes on as if it were held.

## Proofs

TLC checks instances; the following hold for every value of the constants that
satisfies the named assumptions of the modules. An invariant is seldom inductive; for
each, this is what had to be added and why.

**`CannonProofs`** (`ModulusAssumption`, `CannonAssumption`): `CannonInv` is `CannonTypeOK`,
`CannonOnScreen` and `PendingMotionSafe`. The motion applied in a frame was chosen in
the previous one; `PendingMotionSafe` remembers what was known then, and needs
`2 * Cannon_X_Step <= Cannon_Size + 1`, the assumption that the margin absorbs the
delay. Theorems `TypeCorrect`, `OnScreen`, `OneStepPerFrame`.

**`LaserProofs`** (`LaserAssumption`): `LaserInv` is the types with `ShotOnGrid`. A
shot's row is `Row(k)` for some `k`; the assumption that a row which has not arrived
leaves room for one more step gives `RowNeverWraps`. `Implements`: every initial state
and step maps to one of `Gun` or a stutter; firing maps to `Fire`, also in the frame in
which the previous shot ends, and a reset, and only that, to `Clear`. `DrawnWhereFired`: the two pipeline registers of the
column change together only when a shot is fired.

**`GameProofs`** (`GameAssumption`): `GameInv` composes the two: the invariants of
`CannonProofs` and `LaserProofs`, instantiated, with `RestingLaserFollows`. What links
them is that the wire between the components carries a column of the screen, which is
`CannonInv` one frame ahead. `ShotsAreVisible` needs two facts of the geometry besides: a
shot's row is its start row or at least a step above it (`AboveStart`), and the discs of
cannon and shot are then apart (`Apart`, from `Cannon_Size < laser_Y_Step`). Theorems
`RestingFollows`, `ShotsAreVisible`, `ShotsStartAtTheCannon`, `TypeCorrect`.

**`FrameClockProofs`** (`FrameClockAssumption`): the place of the tick is decided one
clock cycle before it. `ClockInv` adds `SyncFollowsLine` (the registered sync is that of
the line the counters are on), `RiseIsFresh` (a rise that the detector has not seen is
one cycle old) and `SeenOnce`. Theorems `BlankingInStep`, `TicksOutsideThePicture`,
`TickLastsOneCycle`, `TypeCorrect`; the button may change at any edge.

**`UsbHostProofs`**: `EnumInv` is `InOrderUnlessOvertaken` with `RunsAreOfThisList`: unless
a list was overtaken, the chip is idle while a list is written for the first time; from
then until its result is looked at, memory holds that list, every run of the chip's is of
it, and "answered" in the engine and "ok" in the control byte mean that the keyboard has
acknowledged it. Rewriting a list leaves this alone, word by word, because the words are
the ones that are there (`WriteInv`); going on to the next list is the step that needs the chip
to be done. There is no assumption on the speed of the chip, the plugs or the resets, and
`FetchTD`, the transaction and `WriteBack` may come between any two steps of the program.
Theorems `InOrder`, `TypeCorrect`.

**`HpiBusProofs`** (`HpiBusAssumption`: two stores are at least `Access + 3` edges apart,
which a load needs for its strobe and the two registers its word goes through). `BusInv`
has the place and the history of the call. The place: `OnTrack` says that what is left to
do is the end of the call's list of stores (`Program`), so that `Done`, the number of
those made, tells everything; `Lines` gives the pins for each value of `Done`, and
`PinsFollow` that the pins are those of the PIO, those of one store ago, or forced low.
From these and `WordHeld` (the lines keep the word for the edge that ends the write
strobe) follows `OneDriver`. The history, for a call that `KEY[0]` has not disturbed:
`LongEnough` counts the strobe against the time since the store, `Answer` follows the
word of a read through `data_in` and `readdata`, `TakenOnce` says when the chip has the
word of a write; `InitClears`, that the reset pulse of `IO_init` undoes what the strobes
did that are low when it starts. With these `TransfersAtomic` maps every step to one of
`HpiPort`: the end of a write strobe to `Land`, an edge under reset to `ResetChip`, all
other edges and all stores to a stutter. Theorems `OneDriver`, `TransfersAtomic`,
`TypeCorrect`.

**`JtagUartProofs`** (`JtagUartAssumption`): for every length of the buffers, every
depth and threshold of the FIFOs, and every order of the four sides' steps.
`DriverInv` has the shape of the state, what the writer knows where it stands
(`Positions`), `CopiesInBounds`, and that characters in a buffer have their interrupt
on or somebody about to turn it on (`NoStrandedOutput`, `NoStrandedInput`). `OutputIsFifo` and `InputIsFifo` are
the two refinements: the contents of a ring buffer as a sequence (`Contents`), that
storing behind `tx_in` appends to it and taking at `rx_out` drops its front (`Appending`,
`DropFront`), `TxInv` (what has been copied but not handed over lies behind the
last character) and `RxInv` (what a read has copied are the oldest characters, also after the interrupt
routine has stored others). Theorems `InBounds`, `EverybodyServed`, `WaitsForRoom`,
`OutputIsFifo`, `InputIsFifo`, `TypeCorrect`.

**`HalProofs`** (the assumptions of the four parts), in four sections.
The descriptors: `OneLock` is the interesting one, since the search for other users misses
the descriptor at the mark. `HolderIsLowest`: a descriptor that holds a lock is below all
others of its device, so a second lock would find it. `OneMissed`: the descriptor the
search missed was at the mark, so there is one at most, and opens are refused from then on. Theorems `PoolSafe`, `LockRespected`.
The heap: `HeapInv`, blocks in the order of their granting, below the end, and what
the call in progress has established with interrupts off. Theorem `NoByteTwice`.
The clock: `AlarmInv` adds `RolloverTellsSide`, the flag of an alarm says on which side of
the counter's next wrap its time is; with it `AlarmsCountDown` shows that `HalClock`
implements `Countdown` although the counter wraps. `SetInv` says what `settimeofday` has
left behind: a remainder of the truncated product, perhaps above the microseconds
asked for. Since a tick has the same number of microseconds in every second
(`US % Rate = 0`), whole seconds and the untruncated remainder make up the ticks
(`Elapsed`), the difference of the two remainders is `Slip`, and the loops of
`gettimeofday` undo the carry or the borrow, or find a time below zero (`Shifted`).
Theorems `SideTold`, `AlarmsCountDown`, `TimeOfDayKept`. The times set are not before 1970
(`ClockAssumption`).
The interrupts: `IrqInv`, each open invocation has masked its own and lower priorities,
`Masks` and `Descending`; an enabled interrupt has its handler, `Registered`; a scan
has something to find, `Pending`. Theorem `InterruptsSafe`.
`TypesCorrect` puts the four invariants together for `MCHal`.

### Only model-checked

Liveness, which is out of the prover's reach: `SingleShot` beyond its safety part,
`HoldLeftReachesEdge`, `HoldSpaceKeepsFiring`, `ReleaseSpaceFallsSilent`,
`FramesKeepComing`, `PollingStops`, `WriteReturns`. Every other
property of a passing run is a theorem.
No proof needs what a recursive definition computes; no module has a `RECURSIVE`
operator.

## Not modelled, and why

- Register tables: `cy7c67200.h`, `lcp_cmd.h`, `system.h`, `nios2.h` and the HAL's
  headers of macros and prototypes. They are a large share of the lines and have no
  behaviour; the addresses and bits that the code uses are constants and case
  distinctions of the models.
- Code the build leaves out: `ALT_LOG` tracing, `gmon` profiling, the multithreaded
  variants, the small driver, the direct drivers of reduced images; and library code that nothing
  here calls or that only moves data: `alt_printf`, flash, DMA, caches, the system ID,
  start-up assembly, copying of sections.
- The sprite memories (`ram.sv`, `sprites.sv`, read-only tables), `alien_control.sv`
  (unfinished: `else if ()` at line 43, and not instantiated), the test bench (a stimulus
  without assertions), `nios_system/` (generated), the sprite conversion tools.
- In the modelled parts: the value of the data toggle and the contents of the later TDs of a
  list, the lamps of `HEX4`, `HEX6` and `HEX7` (one decoded key each), the values that are only
  printed; negative `sbrk` increments; alarm callbacks that stop
  other alarms, and handlers that register handlers (nothing here does either); calls on
  closed descriptors.

The mapped lines are therefore those that change state: most of what is
left has none.

## Plan

1. Done: the game's hardware, the frame clock, the USB host, the HPI bus, the JTAG UART
   driver, the HAL's descriptors, clock, interrupts and heap, with the proofs above.
2. `UsbHost`: the data toggle of the polls and of the keyboard, with `HpiPort` as the
   interface between program and chip.
3. `HalClock`: the alarm list as a list, walked while callbacks start and stop alarms.

## Running

`tlc -config X.cfg M` for the module and configuration of each run in `PROJECT.json`,
for instance `tlc -config MCParts.cfg MCParts`. All runs end within two minutes.
`tlapm M.tla` for a module of proofs, for instance `tlapm HalProofs.tla`; the largest
take several minutes from nothing.
