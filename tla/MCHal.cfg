SPECIFICATION Spec
CONSTANTS
    MaxFds = 6
    Console = Console
    Null = Null
    NoDev = NoDev
    W = 8
    Alarms = {a1, a2}
    Delays = {0, 1, 3, 5, 6}
    Rate = 2
    US = 6
    Times <- MCTimes
    NIRQ = 3
    Isrs = {f, g}
    NoIsr = NoIsr
    HeapStart = 2
    HeapLimit = 21
    Sizes = {1, 4, 6}
INVARIANTS
    HalTypeOK
    FilesSafe
    TimeOfDayAdds
    IrqSafe
    BlocksSound
PROPERTIES
    OpenRespectsLock
    CountsDown
\* A program that has returned from main spins in exit.
CHECK_DEADLOCK FALSE
