SPECIFICATION Spec
CONSTANTS
    Keys = {k1}
    None = None
    Leftover = Leftover
    MaxEvents = 0
    ChangeMessages = FALSE
\* The waiting loops are blocked steps, and the bound on events may be used up.
CHECK_DEADLOCK FALSE
INVARIANTS PublishedWordWasReported
