------------------------------ MODULE HpiPort -------------------------------
(***************************************************************************)
(* What io_handler.c promises usb.c and main.c: a write changes the        *)
(* register it names, to the value it names, exactly once before the call  *)
(* returns; a read returns a value that the register had during the call.  *)
(* The chip changes its registers too.  After KEY[0] has reset the chip in *)
(* the middle of a call nothing is promised of that call.                  *)
(***************************************************************************)
EXTENDS Integers

CONSTANTS
    Addresses,  \* HPI_DATA, HPI_MAILBOX, HPI_ADDR, HPI_STATUS
    Values,     \* the words
    Zero,       \* the contents after a reset
    Unknown,    \* a word nobody drove
    Nothing     \* no call

VARIABLES
    register,   \* the registers of the chip
    call,       \* the call being executed, or Nothing
    landed,     \* how many words the chip has taken in this call
    seen,       \* the values the register of a read has had since the call
    disturbed,  \* did KEY[0] interfere with this call?
    result      \* of the last read

vars == <<register, call, landed, seen, disturbed, result>>

\* <<"read", address, Zero>> or <<"write", address, word>>
Calls == {"read", "write"} \X Addresses \X Values
Reads(c) == c # Nothing /\ c[1] = "read"
Writes(c) == c # Nothing /\ c[1] = "write"
Words == Values \cup {Unknown}

Init ==
    /\ register = [a \in Addresses |-> Zero]
    /\ call = Nothing /\ landed = 0 /\ seen = {} /\ disturbed = FALSE
    /\ result = Zero

Begin ==
    /\ call = Nothing
    /\ call' \in Calls /\ (Reads(call') => call'[3] = Zero)
    /\ landed' = 0
    /\ seen' = IF Reads(call') THEN {register[call'[2]]} ELSE {}
    /\ disturbed' \in BOOLEAN
    /\ UNCHANGED <<register, result>>

Land ==
    /\ Writes(call) /\ landed = 0
    /\ register' = [register EXCEPT ![call[2]] = call[3]]
    /\ landed' = 1
    /\ UNCHANGED <<call, seen, disturbed, result>>

Return ==
    /\ call # Nothing
    /\ ~disturbed => IF Writes(call) THEN landed = 1 ELSE result' \in seen
    /\ Writes(call) => result' = result
    /\ call' = Nothing /\ landed' = 0 /\ seen' = {} /\ disturbed' = FALSE
    /\ UNCHANGED register

\* The reading call notices a change of its register.
Noticed == IF Reads(call) THEN seen \cup {register'[call[2]]} ELSE {}

ChipSets ==
    /\ \E a \in Addresses, v \in Values : register' = [register EXCEPT ![a] = v]
    /\ seen' = Noticed
    /\ UNCHANGED <<call, landed, disturbed, result>>

KeyPressed ==
    /\ call # Nothing /\ disturbed' = TRUE
    /\ UNCHANGED <<register, call, landed, seen, result>>

ResetChip ==
    /\ call # Nothing => disturbed
    /\ register' = [a \in Addresses |-> Zero]
    /\ seen' = Noticed
    /\ UNCHANGED <<call, landed, disturbed, result>>

\* A write that KEY[0] has cut short may leave any word in its register.
LandDisturbed ==
    /\ call # Nothing /\ disturbed
    /\ \E v \in Words : register' = [register EXCEPT ![call[2]] = v]
    /\ landed' = landed + 1
    /\ seen' = Noticed
    /\ UNCHANGED <<call, disturbed, result>>

Next == Begin \/ Land \/ Return \/ ChipSets \/ KeyPressed \/ ResetChip \/ LandDisturbed

Spec == Init /\ [][Next]_vars
=============================================================================
