------------------------------- MODULE UsbHost -------------------------------
(***************************************************************************)
(* The program of the Nios processor, final_app/main.c with usb.c: it      *)
(* brings up the EZ-OTG (CY7C67200) USB chip, enumerates the keyboard and  *)
(* polls it for ever, against the chip and the keyboard it talks to.       *)
(*                                                                         *)
(* The program and the BIOS of the chip run concurrently, at speeds of     *)
(* which nothing is assumed, and share the chip's memory and message       *)
(* registers over the HPI port.  One step of the program is at most one    *)
(* access to something the chip also writes; the two HPI transfers of      *)
(* UsbRead and UsbWrite are one access.  The words of a TD list are        *)
(* written in the order of their addresses, those that the chip reads      *)
(* together and that tell the same lists apart in one step.  The chip and  *)
(* the keyboard are external: they are modelled from the way the program   *)
(* uses them.                                                              *)
(***************************************************************************)
EXTENDS Integers

CONSTANTS
    Keys,            \* the key words a keyboard reports
    None,            \* no key is pressed
    Leftover,        \* the word 16'h0520 of a TD list, read as a key word
    MaxEvents,       \* bound: how often the keyboard is plugged or unplugged, or
                     \* KEY[0] resets the chip
    ChangeMessages   \* does the BIOS announce a plug or unplug (lcp_cmd.h:91-93)?

ASSUME UsbHostAssumption ==
    /\ None \notin Keys /\ Leftover \notin Keys \cup {None}
    /\ MaxEvents \in Nat
    /\ ChangeMessages \in BOOLEAN

(* The TD lists, in the order main.c posts them; Poll is the IN transfer   *)
(* of the polling loop.  Torn is a request of which some words are those   *)
(* of one list and some those of another.                                  *)
NoList == 0
SetAddress == 1
GetConfigDesc2 == 5
SetConfig == 6
GetReportDesc == 9
Poll == 10
Torn == 11

VARIABLES
    (* the program; word counts the groups of words of a list written *)
    pc, stage, word, tries, msg, keycode,
    (* the chip: mailbox and message register *)
    command, outbox, sieMsg, sieFlag,
    (* the chip's memory at 0x0500: the transaction the words 0x0500-0x0506 *)
    (* ask for, the control byte 0x0508, the list whose request is in       *)
    (* 0x050c-0x0512, and the word at 0x051e                                *)
    head, ctl, request, buf,
    (* the engine that runs TD lists: what HUSB_SIE1_pCurrentTDPtr points   *)
    (* to, the transaction fetched from the list or how far the run is;     *)
    (* whether the chip has been initialised as a host; and how often a     *)
    (* plug or KEY[0] has interfered                                        *)
    pending, phase, host, events,
    (* the keyboard; asked is the request it is in the middle of *)
    plugged, dev, asked, key, fresh,
    (* history, since the last soft reset: how many lists, counted in their *)
    (* order, the keyboard has acknowledged the request of; and whether the *)
    (* program ever began with the next list while the chip still had a run *)
    (* to do                                                                *)
    acked, overtaken

program == <<pc, stage, word, tries, msg, keycode>>
mailbox == <<command, outbox>>
message == <<sieMsg, sieFlag>>
memory == <<head, ctl, request, buf>>
engine == <<pending, phase, host, events>>
keyboard == <<plugged, dev, asked, key, fresh>>
history == <<acked, overtaken>>
vars == <<program, mailbox, message, memory, engine, keyboard, history>>

Init ==
    /\ pc = "soft_reset" /\ stage = SetAddress /\ word = 0 /\ tries = 0
    /\ msg = "none" /\ keycode = None
    /\ command = "none" /\ outbox = "garbage"
    /\ sieMsg = "none" /\ sieFlag = FALSE
    /\ head = "torn" /\ ctl = "armed" /\ request = NoList /\ buf = None
    /\ pending = "none" /\ phase = "idle"
    /\ host = FALSE /\ events = 0
    /\ plugged \in BOOLEAN /\ dev = "default" /\ asked = NoList
    /\ key = None /\ fresh = FALSE
    /\ acked = 0 /\ overtaken = FALSE

\* The chip has a posted list to run or is running one.
Busy == pending = "list" \/ phase # "idle"

-----------------------------------------------------------------------------
(* usb.c:90-113 and main.c:63-133: soft reset and initialisation. *)

Goto(label) == pc' = label

SoftReset ==
    /\ pc = "soft_reset"
    /\ command' = "reset"
    /\ acked' = 0 /\ overtaken' = FALSE
    /\ stage' = SetAddress
    /\ Goto("reset_sleep")
    /\ UNCHANGED <<word, tries, msg, keycode, outbox, message, memory, engine, keyboard>>

\* "Clear up the interrupt": the message is read, which drops the flag, and
\* overwritten.
ClearInterrupts ==
    /\ pc = "reset_sleep"
    /\ sieMsg' = "none" /\ sieFlag' = FALSE
    /\ Goto("init")
    /\ UNCHANGED <<stage, word, tries, msg, keycode, mailbox, memory, engine, keyboard,
                   history>>

InitSIE1 ==
    /\ pc = "init"
    /\ sieMsg' = "none"
    /\ command' = "init"
    /\ Goto("ack_init")
    /\ UNCHANGED <<stage, word, tries, msg, keycode, outbox, sieFlag, memory, engine,
                   keyboard, history>>

\* Any bit of HPI_STATUS ends the loop at main.c:98, frame interrupts too, so
\* that it waits for nothing.  The mailbox keeps its last message until the
\* chip writes another one.
CheckInitAck ==
    /\ pc = "ack_init"
    /\ Goto(IF outbox = "ack" THEN "bus_reset" ELSE "soft_reset")
    /\ UNCHANGED <<stage, word, tries, msg, keycode, mailbox, message, memory, engine,
                   keyboard, history>>

ResetBus ==
    /\ pc = "bus_reset"
    /\ command' = "bus_reset"
    /\ Goto("ack_bus_reset")
    /\ UNCHANGED <<stage, word, tries, msg, keycode, outbox, message, memory, engine,
                   keyboard, history>>

CheckBusResetAck ==
    /\ pc = "ack_bus_reset"
    /\ Goto(IF outbox = "ack" THEN "presence" ELSE "soft_reset")
    /\ UNCHANGED <<stage, word, tries, msg, keycode, mailbox, message, memory, engine,
                   keyboard, history>>

-----------------------------------------------------------------------------
(* main.c:135-161 and 559-591: is a keyboard there?  A read of the control *)
(* register, repeated `limit' times 5 ms apart before the answer no counts. *)

Presence(here, again, yes) ==
    /\ pc = here
    /\ IF plugged THEN Goto(yes) ELSE Goto(again)
    /\ tries' = 0
    /\ UNCHANGED <<stage, word, msg, keycode, mailbox, message, memory, engine,
                   keyboard, history>>

\* Faults: one look too many, and a keyboard that is given up as if it were
\* there.
PresenceRetryTooOften(here, limit, yes, no) ==
    /\ pc = here
    /\ \/ plugged /\ tries' = 0 /\ Goto(yes)
       \/ ~plugged /\ tries < limit /\ tries' = tries + 1 /\ Goto(here)
       \/ ~plugged /\ tries = limit /\ tries' = 0 /\ Goto(no)
    /\ UNCHANGED <<stage, word, msg, keycode, mailbox, message, memory, engine,
                   keyboard, history>>

PresenceRetryGoesOn(here, limit, yes, no) ==
    /\ pc = here
    /\ \/ plugged /\ tries' = 0 /\ Goto(yes)
       \/ ~plugged /\ tries + 1 < limit /\ tries' = tries + 1 /\ Goto(here)
       \/ ~plugged /\ tries + 1 = limit /\ tries' = 0 /\ Goto(yes)
    /\ UNCHANGED <<stage, word, msg, keycode, mailbox, message, memory, engine,
                   keyboard, history>>

PresenceRetry(here, limit, yes, no) ==
    /\ pc = here
    /\ \/ plugged /\ tries' = 0 /\ Goto(yes)
       \/ ~plugged /\ tries + 1 < limit /\ tries' = tries + 1 /\ Goto(here)
       \/ ~plugged /\ tries + 1 = limit /\ tries' = 0 /\ Goto(no)
    /\ UNCHANGED <<stage, word, msg, keycode, mailbox, message, memory, engine,
                   keyboard, history>>

WaitForKeyboard(here) ==
    /\ pc = here
    /\ plugged
    /\ Goto("soft_reset")
    /\ UNCHANGED <<stage, word, tries, msg, keycode, mailbox, message, memory, engine,
                   keyboard, history>>

CheckPresence == Presence("presence", "presence_retry", "post")
RetryPresence == PresenceRetry("presence_retry", 5, "post", "insert_wait")
AwaitInsertion == WaitForKeyboard("insert_wait")

CheckRemoval == Presence("poll_gap", "unplug_retry", "post")
RetryRemoval == PresenceRetry("unplug_retry", 7, "post", "removed")
AwaitReinsertion == WaitForKeyboard("removed")

-----------------------------------------------------------------------------
(* usb.c:116-534 and main.c:503-523: writing a TD list and starting it.    *)

Heads == {"setup0", "setup2", "in", "torn"}

\* The transaction that the first TD of the list asks for: a SETUP to
\* address 0 or to address 2, or an IN.
Head(list) == CASE list = SetAddress -> "setup0"
                [] list = Poll -> "in"
                [] OTHER -> "setup2"

\* What the words of the list leave at 0x051e, where keys are read from.
LeftAt051e(list) == CASE list \in {1, 6, 7} -> None
                      [] list = Poll -> buf
                      [] OTHER -> Leftover

\* 0x0500 and 0x0502, buffer and length: the same for every SETUP, others for
\* the IN.
WriteBuffer ==
    /\ word = 0 /\ word' = 1
    /\ head' = IF head # Head(stage) /\ "in" \in {head, Head(stage)} THEN "torn" ELSE head
    /\ overtaken' = (overtaken \/ (Busy /\ pc = "post"))
    /\ UNCHANGED <<pc, ctl, request, buf>>

\* 0x0504 and 0x0506, token and address.
WriteToken ==
    /\ word = 1 /\ word' = 2
    /\ head' = Head(stage)
    /\ UNCHANGED <<pc, ctl, request, buf, overtaken>>

\* 0x0508.
Arm ==
    /\ word = 2 /\ word' = 3
    /\ ctl' = "armed"
    /\ UNCHANGED <<pc, head, request, buf, overtaken>>

\* 0x050a, and the first of the words of the request if the list has one.
WriteRequest ==
    /\ word = 3 /\ word' = 4
    /\ request' = IF stage \in {Poll, request} THEN request ELSE Torn
    /\ UNCHANGED <<pc, head, ctl, buf, overtaken>>

\* The rest: the request is complete, and the other TDs follow it.
WriteRest(next) ==
    /\ word = 4 /\ word' = 0
    /\ request' = IF stage = Poll THEN request ELSE stage
    /\ buf' = LeftAt051e(stage)
    /\ Goto(next)
    /\ UNCHANGED <<head, ctl, overtaken>>

WriteList(here, next) ==
    /\ pc = here
    /\ WriteBuffer \/ WriteToken \/ Arm \/ WriteRequest \/ WriteRest(next)
    /\ UNCHANGED <<stage, tries, msg, keycode, mailbox, message, engine, keyboard,
                   acked>>

\* The write of HUSB_SIE1_pCurrentTDPtr.
StartTDs(here) ==
    /\ pc = here
    /\ pending' = "list"
    /\ Goto("flag")
    /\ UNCHANGED <<stage, word, tries, msg, keycode, mailbox, message, memory, phase,
                   host, events, keyboard, history>>

PostList == WriteList("post", "start")
StartList == StartTDs("start")

\* The loop "while (!(IO_read(HPI_STATUS) & HPI_STATUS_SIE1msg_FLAG))": the
\* list is posted again if the chip has not answered when it is looked at.
CheckFlag ==
    /\ pc = "flag"
    /\ Goto(IF sieFlag THEN "done_read" ELSE "repost")
    /\ UNCHANGED <<stage, word, tries, msg, keycode, mailbox, message, memory, engine,
                   keyboard, history>>

RepostList == WriteList("repost", "restart")
RestartList == StartTDs("restart")

-----------------------------------------------------------------------------
(* usb.c:537-557, UsbWaitTDListDone: the read and the clearing write are   *)
(* two accesses, and the chip may post a message between them.             *)

ReadMessage ==
    /\ pc = "done_read"
    /\ msg' = sieMsg /\ sieFlag' = FALSE
    /\ Goto("done_clear")
    /\ UNCHANGED <<stage, word, tries, keycode, mailbox, sieMsg, memory, engine,
                   keyboard, history>>

ClearMessage ==
    /\ pc = "done_clear"
    /\ sieMsg' = "none" /\ msg' = "none"
    /\ Goto(IF msg # "done" THEN "done_read"
            ELSE IF stage = Poll THEN "publish" ELSE "check")
    /\ UNCHANGED <<stage, word, tries, keycode, mailbox, sieFlag, memory, engine,
                   keyboard, history>>

-----------------------------------------------------------------------------
(* main.c:189-200 and its eight siblings: the control byte of the first TD *)
(* decides whether the enumeration goes on.                                *)

\* A fault: the result is not looked at.
CheckNothing ==
    /\ pc = "check"
    /\ Goto(IF stage = GetConfigDesc2 THEN "info" ELSE "post")
    /\ stage' = IF stage = GetConfigDesc2 THEN stage ELSE stage + 1
    /\ UNCHANGED <<word, tries, msg, keycode, mailbox, message, memory, engine, keyboard,
                   history>>

CheckControl ==
    /\ pc = "check"
    /\ \/ /\ ctl = "ok" /\ stage = GetConfigDesc2
          /\ Goto("info") /\ UNCHANGED stage
       \/ /\ ctl = "ok" /\ stage # GetConfigDesc2
          /\ Goto("post") /\ stage' = stage + 1
       \/ /\ ctl # "ok"
          /\ Goto("retry") /\ UNCHANGED stage
    /\ UNCHANGED <<word, tries, msg, keycode, mailbox, message, memory, engine, keyboard,
                   history>>

\* main.c:342-374: the pointer goes to descriptor bytes, as if they were a list.
DeviceInfo ==
    /\ pc = "info"
    /\ pending' = "bytes"
    /\ stage' = SetConfig
    /\ Goto("post")
    /\ UNCHANGED <<word, tries, msg, keycode, mailbox, message, memory, phase,
                   host, events, keyboard, history>>

\* usb.c:560-578, UsbGetRetryCnt, then goto USB_HOT_PLUG
RetryCount ==
    /\ pc = "retry"
    /\ sieFlag' = FALSE
    /\ Goto(IF sieMsg = "done" THEN "retry_clear" ELSE "soft_reset")
    /\ UNCHANGED <<stage, word, tries, msg, keycode, mailbox, sieMsg, memory, engine,
                   keyboard, history>>

RetryClear ==
    /\ pc = "retry_clear"
    /\ sieMsg' = "none"
    /\ Goto("retry_wait")
    /\ UNCHANGED <<stage, word, tries, msg, keycode, mailbox, sieFlag, memory, engine,
                   keyboard, history>>

RetryWait ==
    /\ pc = "retry_wait"
    /\ sieFlag
    /\ Goto("soft_reset")
    /\ UNCHANGED <<stage, word, tries, msg, keycode, mailbox, message, memory, engine,
                   keyboard, history>>

\* main.c:548-558: the word at 0x051e goes to the PIO, whatever became of
\* the transfer.
Publish ==
    /\ pc = "publish"
    /\ keycode' = buf
    /\ Goto("poll_gap")
    /\ UNCHANGED <<stage, word, tries, msg, mailbox, message, memory, engine, keyboard,
                   history>>

ProgramStep ==
    \/ SoftReset \/ ClearInterrupts \/ InitSIE1 \/ CheckInitAck
    \/ ResetBus \/ CheckBusResetAck
    \/ CheckPresence \/ RetryPresence \/ AwaitInsertion
    \/ PostList \/ StartList \/ CheckFlag \/ RepostList \/ RestartList
    \/ ReadMessage \/ ClearMessage \/ CheckControl \/ DeviceInfo
    \/ RetryCount \/ RetryClear \/ RetryWait
    \/ Publish \/ CheckRemoval \/ RetryRemoval \/ AwaitReinsertion

-----------------------------------------------------------------------------
(* The BIOS of the chip.  It fetches the first TD of a list, carries out   *)
(* its transaction, writes the result back to 0x0508 and goes on with the  *)
(* rest of the list; the program may write to the list between any two of  *)
(* these.  A pointer written meanwhile starts a run of its own afterwards. *)

ExecCommand ==
    /\ command # "none"
    /\ command' = "none"
    /\ outbox' = IF command = "reset" THEN "garbage" ELSE "ack"
    /\ IF command = "reset"
       THEN pending' = "none" /\ phase' = "idle"
       ELSE UNCHANGED <<pending, phase>>
    /\ host' = CASE command = "reset" -> FALSE
                 [] command = "init" -> TRUE
                 [] OTHER -> host
    /\ IF command = "bus_reset" THEN dev' = "default" /\ asked' = NoList
                                ELSE UNCHANGED <<dev, asked>>
    /\ UNCHANGED <<program, message, memory, events, plugged, key, fresh, history>>

\* A TD whose control byte holds a result already is passed over.
FetchTD ==
    /\ command = "none" /\ host
    /\ pending = "list" /\ phase = "idle"
    /\ pending' = "none"
    /\ phase' = IF ctl = "armed" THEN head ELSE "rest"
    /\ UNCHANGED <<program, mailbox, message, memory, host, events, keyboard, history>>

\* Does a keyboard answer at the address of the SETUP transaction?
Listens ==
    /\ plugged
    /\ phase = (IF dev = "default" THEN "setup0" ELSE "setup2")

\* The request goes out as it is in memory now, and the keyboard takes it.
SendSetup ==
    /\ Listens
    /\ phase' = "answered"
    /\ asked' = request
    /\ acked' = IF request = acked + 1 THEN request ELSE acked
    /\ UNCHANGED <<program, mailbox, message, memory, pending, host, events,
                   plugged, dev, key, fresh, overtaken>>

HasReport == phase = "in" /\ plugged /\ dev = "configured" /\ fresh

\* A report arrives, and is dropped if its data toggle is not the one that the
\* list asks for: the program counts the polls (main.c:505-520), also those that
\* were not answered, and the two sides may disagree.
ReceiveReport ==
    /\ HasReport
    /\ phase' = "answered"
    /\ buf' \in {key, buf} /\ fresh' = FALSE
    /\ UNCHANGED <<program, mailbox, message, head, ctl, request, pending, host,
                   events, plugged, dev, asked, key, history>>

\* Nobody answers, or there is nothing to report.
NoAnswer ==
    /\ phase \in Heads /\ ~Listens /\ ~HasReport
    /\ phase' = "failed"
    /\ UNCHANGED <<program, mailbox, message, memory, pending, host, events,
                   keyboard, history>>

\* The words of two lists make a transaction of their own; data it receives
\* may land on the request.
TornAnswer ==
    /\ phase = "torn" /\ plugged
    /\ phase' = "answered"
    /\ request' \in {request, Torn}
    /\ UNCHANGED <<program, mailbox, message, head, ctl, buf, pending, host,
                   events, keyboard, history>>

WriteBack ==
    /\ phase \in {"answered", "failed"}
    /\ ctl' = IF phase = "answered" THEN "ok" ELSE "failed"
    /\ phase' = "rest"
    /\ UNCHANGED <<program, mailbox, message, head, request, buf, pending, host,
                   events, keyboard, history>>

\* What may become of the request that the keyboard is in the middle of.
Outcomes == CASE asked = SetAddress -> {dev, "addressed"}
              [] asked = SetConfig -> {dev, "configured"}
              [] asked = Torn -> {dev, "addressed", "configured"}
              [] OTHER -> {dev}

\* The rest of the list, and the TDListDone message.
RunRest ==
    /\ phase = "rest"
    /\ phase' = "idle"
    /\ sieMsg' = "done" /\ sieFlag' = TRUE
    /\ dev' \in Outcomes /\ asked' = NoList
    /\ UNCHANGED <<program, mailbox, memory, pending, host, events, plugged, key,
                   fresh, history>>

\* The chip may make something of the bytes at 0x0576, or nothing.
RunBytes ==
    /\ command = "none" /\ host
    /\ pending = "bytes" /\ phase = "idle"
    /\ pending' = "none"
    /\ \/ sieMsg' = "done" /\ sieFlag' = TRUE
       \/ UNCHANGED message
    /\ UNCHANGED <<program, mailbox, memory, phase, host, events, keyboard,
                   history>>

ChipStep ==
    \/ ExecCommand \/ FetchTD \/ SendSetup \/ ReceiveReport \/ NoAnswer \/ TornAnswer
    \/ WriteBack \/ RunRest \/ RunBytes

-----------------------------------------------------------------------------
(* The keyboard and the player. *)

\* The BIOS may announce the change; it does not overwrite a message.
PlugOrUnplug ==
    /\ events < MaxEvents /\ events' = events + 1
    /\ plugged' = ~plugged /\ dev' = "default" /\ asked' = NoList
    /\ key' = None /\ fresh' = FALSE
    /\ \/ /\ ChangeMessages /\ host /\ sieMsg = "none"
          /\ sieMsg' = "change" /\ sieFlag' = TRUE
       \/ UNCHANGED message
    /\ UNCHANGED <<program, mailbox, memory, pending, phase, host, history>>

\* Keys are reported once the keyboard is configured.
PressOrRelease ==
    /\ plugged /\ dev = "configured"
    /\ \E k \in Keys \cup {None} : k # key /\ key' = k
    /\ fresh' = TRUE
    /\ UNCHANGED <<program, mailbox, message, memory, engine, plugged, dev, asked,
                   history>>

\* KEY[0] drives OTG_RST_N low (hpi_io_intf.sv:19-28); the processor, which
\* it does not reach, is not told.
KeyReset ==
    /\ events < MaxEvents /\ events' = events + 1
    /\ command' = "none" /\ outbox' = "garbage"
    /\ sieMsg' = "none" /\ sieFlag' = FALSE
    /\ pending' = "none" /\ phase' = "idle" /\ host' = FALSE
    /\ UNCHANGED <<program, memory, keyboard, history>>

Next ==
    ProgramStep \/ ChipStep \/ PlugOrUnplug \/ PressOrRelease \/ KeyReset

(* The processor and the chip never stop.  Nothing is assumed of their     *)
(* speeds or of the player.                                                *)
Spec == Init /\ [][Next]_vars /\ WF_vars(ProgramStep) /\ WF_vars(ChipStep)

-----------------------------------------------------------------------------
(* Properties. *)

Labels == {"soft_reset", "reset_sleep", "init", "ack_init",
           "bus_reset", "ack_bus_reset", "presence", "presence_retry",
           "insert_wait", "post", "start", "flag", "repost", "restart",
           "done_read", "done_clear", "check", "info", "retry", "retry_clear",
           "retry_wait", "publish", "poll_gap", "unplug_retry", "removed"}

Words == Keys \cup {None, Leftover}

TypeOK ==
    /\ pc \in Labels /\ stage \in SetAddress .. Poll /\ word \in 0 .. 4
    /\ tries \in 0 .. 6
    /\ msg \in {"none", "done", "change"} /\ keycode \in Words
    /\ command \in {"none", "reset", "init", "bus_reset"}
    /\ outbox \in {"garbage", "ack"}
    /\ sieMsg \in {"none", "done", "change"} /\ sieFlag \in BOOLEAN
    /\ head \in Heads /\ ctl \in {"armed", "ok", "failed"}
    /\ request \in (NoList .. GetReportDesc) \cup {Torn} /\ buf \in Words
    /\ pending \in {"none", "list", "bytes"}
    /\ phase \in Heads \cup {"idle", "answered", "failed", "rest"}
    /\ host \in BOOLEAN /\ events \in 0 .. MaxEvents
    /\ plugged \in BOOLEAN
    /\ dev \in {"default", "addressed", "configured"}
    /\ asked \in (NoList .. GetReportDesc) \cup {Torn}
    /\ key \in Keys \cup {None} /\ fresh \in BOOLEAN
    /\ acked \in 0 .. GetReportDesc
    /\ overtaken \in BOOLEAN

\* How many lists' results the program has accepted since the soft reset.
Passed == IF pc = "info" THEN GetConfigDesc2 ELSE stage - 1

(* main.c:177-497, whose messages "set address done!" (202) and the like   *)
(* say that a list has been carried out: the program goes on to a later    *)
(* list, and in the end to polling, only if the keyboard has acknowledged  *)
(* every list before it, in order, since the last soft reset.  This is not *)
(* so: a list that was posted again may still be running when the program  *)
(* goes on, and its late result lands on the control byte that the program *)
(* has armed for the next one.                                             *)
EnumerationInOrder == Passed <= acked

(* main.c:177-497: that is the only way in which a list is skipped.        *)
(* However the program and the chip interleave, whichever messages are     *)
(* stale, lost or repeated, and although a list is rewritten word by word  *)
(* under the chip's own run of it (main.c:181-185), the enumeration is in  *)
(* order unless the program began to write another list while the chip     *)
(* still had the last one to run.                                          *)
InOrderUnlessOvertaken == ~overtaken => EnumerationInOrder

\* Where the program has posted the list of its stage.
AtList == {"start", "flag", "repost", "restart", "done_read", "done_clear", "check"}

(* What makes InOrderUnlessOvertaken inductive, for the lists whose result *)
(* is looked at: the chip is idle while a list is written for the first    *)
(* time; from then on memory holds that list, a run of the chip's is of    *)
(* that list, and "answered" and "ok" speak of it.                         *)
RunsAreOfThisList ==
    (~overtaken /\ stage < Poll) =>
        /\ pc = "post" /\ word > 0 =>
              /\ ~Busy
              /\ word > 1 => head = Head(stage)
              /\ word > 2 => ctl = "armed"
        /\ pc \in AtList =>
              /\ head = Head(stage) /\ request = stage
              /\ phase \in Heads => phase = Head(stage)
              /\ phase = "answered" => stage <= acked
              /\ ctl = "ok" => stage <= acked

(* main.c:558-591: a keyboard that is gone for good is missed.  Wherever   *)
(* the program was when the keyboard went, and whatever results of lists   *)
(* and messages are still to come, it stops polling, and no stale word is  *)
(* sent to the PIO any more.                                               *)
PollingStops == <>[]~plugged => <>[](pc # "publish")

(* main.c:550, "The first two keycodes are stored in 0x051E": what the     *)
(* program sends to the PIO was reported by the keyboard.  Until the       *)
(* first IN transfer succeeds the word at 0x051e is the next-TD pointer    *)
(* 16'h0520 of the list UsbGetReportDesc wrote.                            *)
PublishedWordWasReported == keycode # Leftover

(* main.c:212, "Call the appropriate function again if it wasn't processed *)
(* successfully": waiting for the answer to a list ends in its answer or   *)
(* in posting it again.  A message that arrives between the read and the   *)
(* clearing write of usb.c:541-542 is lost, and the wait never ends.       *)
WaitEnds == (pc = "done_read") ~> (pc \notin {"done_read", "done_clear"})
=============================================================================
