SPECIFICATION FilesSpec
CONSTANTS
    MaxFds = 6
    Console = Console
    Null = Null
    NoDev = NoDev
INVARIANTS ExclusiveAccess
\* A program that has returned from main spins in exit.
CHECK_DEADLOCK FALSE
