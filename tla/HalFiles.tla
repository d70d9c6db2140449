------------------------------ MODULE HalFiles ------------------------------
(***************************************************************************)
(* The file descriptors of the HAL: the pool alt_fd_list, open, close,     *)
(* ioctl, fcntl and the transfers, from alt_main's redirection of the      *)
(* standard streams to the end of main.  The program has one thread and no *)
(* interrupt routine uses a descriptor: one step is a whole call.          *)
(*                                                                         *)
(* Calls are made on descriptors that are open.  The code tests only for   *)
(* negative numbers and follows the null pointer of any other closed one.  *)
(* errno is left out, and with it the calls that change nothing else.      *)
(***************************************************************************)
EXTENDS Integers, FiniteSets

CONSTANTS
    MaxFds,     \* ALT_MAX_FD, 32
    Console,    \* /dev/jtag_uart_0
    Null,       \* /dev/null
    NoDev       \* the null pointer in a free descriptor

ASSUME HalFilesAssumption ==
    /\ MaxFds \in Nat /\ MaxFds > 3
    /\ Console # Null /\ NoDev \notin {Console, Null}

VARIABLES
    boot,       \* how far alt_main has come
    fd_dev,     \* alt_fd_list[..].dev
    fd_flags,   \* and fd_flags, as a set of the flags that are 1
    alt_max_fd  \* the highest descriptor ever allocated

filesVars == <<boot, fd_dev, fd_flags, alt_max_fd>>

Fds == 0..(MaxFds - 1)
Stdio == {0, 1, 2}
Devices == {Console, Null}

\* O_RDONLY is 0: a descriptor without WRONLY and RDWR is for reading.
AccessModes == {{}, {"WRONLY"}, {"RDWR"}}
\* Nothing reads APPEND, the other flag that F_SETFL sets.
SettableFlags == {"NONBLOCK"}
FdFlags == {"EXCL", "DEV"}

FilesInit ==
    /\ boot = "alt_sys_init"
    /\ fd_dev = [i \in Fds |-> IF i \in Stdio THEN Null ELSE NoDev]
    /\ fd_flags = [i \in Fds |-> {}]
    /\ alt_max_fd = -1

-----------------------------------------------------------------------------
(* Allocation (alt_get_fd, alt_release_fd) and the lock of a device        *)
(* (alt_file_locked, alt_fd_lock).                                         *)

Free == {i \in Fds : fd_dev[i] = NoDev}
IsFirstFree(i) == i \in Free /\ \A j \in Free : i <= j

\* (A mutated form, a fault: the mark is a count.)
MarkIsCount(i) == IF i > alt_max_fd THEN i + 1 ELSE alt_max_fd

Watermark(i) == IF i > alt_max_fd THEN i ELSE alt_max_fd

\* (A mutated form, a fault: the standard streams are released like the rest.)
ReleasesAll(i) == TRUE

Releases(i) == i > 2

\* (A mutated form, a fault: the descriptors below the mark only.)
LockedBelowMark(d, i) ==
    \E j \in Fds : j < Watermark(i) /\ j # i /\ fd_dev[j] = d /\ "EXCL" \in fd_flags[j]

LockedByOther(d, i) ==
    \E j \in Fds : j <= Watermark(i) /\ j # i /\ fd_dev[j] = d /\ "EXCL" \in fd_flags[j]

\* alt_fd_lock.c:61.  The descriptor at the mark is left out, unlike in the
\* search of alt_open.c:79: a lock is granted although that one is open.
LockScan(i) == {j \in Fds : j < alt_max_fd}

LockGranted(i) == \A j \in LockScan(i) : j # i => fd_dev[j] # fd_dev[i]

-----------------------------------------------------------------------------
(* alt_main: the device is registered, then each stream is opened again on *)
(* the console, through a descriptor that is released at once.             *)

Redirect(stream, from, to, flags) ==
    /\ boot = from /\ boot' = to
    /\ \E i \in Fds :
          /\ IsFirstFree(i)
          /\ fd_dev' = [fd_dev EXCEPT ![stream] = Console]
          /\ fd_flags' = [fd_flags EXCEPT ![stream] = flags \cup {"DEV"}]
          /\ alt_max_fd' = Watermark(i)

RegisterDevices ==
    /\ boot = "alt_sys_init" /\ boot' = "stdout"
    /\ UNCHANGED <<fd_dev, fd_flags, alt_max_fd>>

Boot ==
    \/ RegisterDevices
    \/ Redirect(1, "stdout", "stdin", {"WRONLY"})
    \/ Redirect(0, "stdin", "stderr", {})
    \/ Redirect(2, "stderr", "main", {"WRONLY"})

-----------------------------------------------------------------------------
(* The system calls. *)

InMain == boot = "main"
IsOpen(i) == fd_dev[i] # NoDev

\* alt_open on a device that is locked: the descriptor is released again, the
\* mark stays.
OpenLocked(d) ==
    /\ InMain
    /\ \E i \in Fds :
          /\ IsFirstFree(i) /\ LockedByOther(d, i)
          /\ alt_max_fd' = Watermark(i)
    /\ UNCHANGED <<boot, fd_dev, fd_flags>>

\* The bits of ALT_FD_FLAGS_MASK cannot be asked for.
Open(d, flags) ==
    /\ InMain
    /\ \E i \in Fds :
          /\ IsFirstFree(i) /\ ~LockedByOther(d, i)
          /\ alt_max_fd' = Watermark(i)
          /\ fd_dev' = [fd_dev EXCEPT ![i] = d]
          /\ fd_flags' = [fd_flags EXCEPT ![i] = flags \cup {"DEV"}]
    /\ UNCHANGED boot

\* A non-blocking close of the console may fail, and releases all the same.
Close(i) ==
    /\ IsOpen(i)
    /\ fd_dev' = IF Releases(i) THEN [fd_dev EXCEPT ![i] = NoDev] ELSE fd_dev
    /\ fd_flags' = IF Releases(i) THEN [fd_flags EXCEPT ![i] = {}] ELSE fd_flags
    /\ UNCHANGED alt_max_fd

Lock(i) ==
    /\ InMain /\ IsOpen(i) /\ "DEV" \in fd_flags[i] /\ LockGranted(i)
    /\ fd_flags' = [fd_flags EXCEPT ![i] = @ \cup {"EXCL"}]
    /\ UNCHANGED <<boot, fd_dev, alt_max_fd>>

Unlock(i) ==
    /\ InMain /\ IsOpen(i) /\ "DEV" \in fd_flags[i]
    /\ fd_flags' = [fd_flags EXCEPT ![i] = @ \ {"EXCL"}]
    /\ UNCHANGED <<boot, fd_dev, alt_max_fd>>

\* fcntl, F_SETFL
SetFlags(i, flags) ==
    /\ InMain /\ IsOpen(i)
    /\ fd_flags' = [fd_flags EXCEPT ![i] = (@ \ SettableFlags) \cup flags]
    /\ UNCHANGED <<boot, fd_dev, alt_max_fd>>

\* alt_main.c:155: close(STDOUT_FILENO), then exit, which spins.
MainReturns ==
    /\ InMain /\ boot' = "exit"
    /\ Close(1)

FilesNext ==
    \/ Boot \/ MainReturns
    \/ \E d \in Devices :
          OpenLocked(d) \/ \E flags \in AccessModes : Open(d, flags)
    \/ \E i \in Fds :
          \/ InMain /\ Close(i) /\ UNCHANGED boot
          \/ Lock(i) \/ Unlock(i)
          \/ \E flags \in SUBSET SettableFlags : SetFlags(i, flags)

FilesSpec == FilesInit /\ [][FilesNext]_filesVars
-----------------------------------------------------------------------------
FilesTypeOK ==
    /\ boot \in {"alt_sys_init", "stdout", "stdin", "stderr", "main", "exit"}
    /\ fd_dev \in [Fds -> Devices \cup {NoDev}]
    /\ fd_flags \in [Fds -> SUBSET ({"WRONLY", "RDWR"} \cup SettableFlags \cup FdFlags)]
    /\ alt_max_fd \in Fds \cup {-1}

(* The standard streams are on the console once main runs, whatever the   *)
(* program closes: alt_release_fd keeps them, and alt_get_fd finds them    *)
(* taken.                                                                  *)
StdioOnConsole == boot \in {"main", "exit"} => \A i \in Stdio : fd_dev[i] = Console

(* The mark is never below an allocated descriptor, so that a search up to *)
(* the mark finds them all; alt_get_fd.c:71-76.                            *)
MarkCoversAll == \A i \in Fds : IsOpen(i) /\ i \notin Stdio => i <= alt_max_fd

(* Two descriptors of a device never both hold its lock.  This does not    *)
(* follow from the search of alt_fd_lock, which leaves one descriptor out. *)
OneLock ==
    \A i, j \in Fds :
       i # j /\ IsOpen(i) /\ fd_dev[i] = fd_dev[j] =>
          ~("EXCL" \in fd_flags[i] /\ "EXCL" \in fd_flags[j])

(* What a lock leaves of the exclusive access it is meant to give: besides *)
(* its holder a device is open on at most one more descriptor, the one     *)
(* that was at the mark when the lock was granted, and that one is above   *)
(* the holder.                                                             *)
SharedOnceAtMost ==
    \A i, j, k \in Fds :
       /\ "EXCL" \in fd_flags[i] /\ i \notin {j, k}
       /\ fd_dev[j] = fd_dev[i] /\ fd_dev[k] = fd_dev[i]
       => j = k /\ i < j

\* The pool of descriptors after any sequence of opens, closes, locks and unlocks:
\* printf never loses its device (alt_release_fd.c:46), the mark is never below an
\* open descriptor (alt_get_fd.c:71-95), and although the search for other users
\* leaves out the descriptor at the mark (alt_fd_lock.c:61-68), at most that one
\* goes on using a locked device, and it can never lock it, too.
FilesSafe == StdioOnConsole /\ MarkCoversAll /\ OneLock /\ SharedOnceAtMost

\* alt_fd_lock.c:37-45: a lock is "exclusive access to a device", granted "if there
\* are no other open file descriptors which reference the same device": its holder
\* is the only descriptor of the device.  This is not so, because of the search
\* that ends before the mark.
ExclusiveAccess ==
    \A i, j \in Fds : "EXCL" \in fd_flags[i] /\ fd_dev[j] = fd_dev[i] => i = j

\* No descriptor of a device is opened while another one holds its lock
\* (alt_fd_lock.c:44-45).
OpenRespectsLock ==
    [][\A i \in Fds : ~IsOpen(i) /\ IsOpen(i)' =>
          \A j \in Fds : fd_dev[j] = fd_dev'[i] => "EXCL" \notin fd_flags[j]]_filesVars
=============================================================================
