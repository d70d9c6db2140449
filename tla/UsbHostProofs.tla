---------------------------- MODULE UsbHostProofs ----------------------------
(***************************************************************************)
(* The enumeration skips a list only if the program overtakes the chip,    *)
(* for every interleaving of the two down to the words of a list, every    *)
(* number of plugs and resets, and with or without announcements.          *)
(***************************************************************************)
EXTENDS UsbHost, TLAPS

(* The inductive invariant.  InOrderUnlessOvertaken alone is not inductive: *)
(* the step that accepts a list relies on the control byte being that of    *)
(* the list, and that on the run that wrote it being a run of the list.     *)
EnumInv ==
    /\ stage \in SetAddress .. Poll /\ acked \in Nat /\ word \in Nat
    /\ word = 0 \/ pc \in {"post", "repost"}
    /\ pc = "info" => stage = GetConfigDesc2
    /\ pc = "check" => stage < Poll
    /\ InOrderUnlessOvertaken
    /\ RunsAreOfThisList

(* A step that moves the program counter, and neither to a place where     *)
(* more is claimed nor from the middle of a list, preserves the invariant. *)
LEMMA MovesOn ==
    ASSUME EnumInv, UNCHANGED <<stage, word, head, ctl, request, phase, history>>,
           pc \notin {"info", "post", "repost"}, pc' \notin {"info", "check"},
           pc' \in AtList => pc \in AtList
    PROVE  EnumInv'
BY DEF EnumInv, InOrderUnlessOvertaken, EnumerationInOrder, Passed,
       RunsAreOfThisList, AtList, history

(* So does a step that changes nothing that the invariant is about.        *)
LEMMA StaysPut ==
    ASSUME EnumInv,
           UNCHANGED <<pc, stage, word, head, ctl, request, pending, phase, history>>
    PROVE  EnumInv'
BY DEF EnumInv, InOrderUnlessOvertaken, EnumerationInOrder, Passed,
       RunsAreOfThisList, AtList, Busy, history

(* main.c:63-133: the steps from the soft reset to the bus reset. *)
LEMMA StartUpInv ==
    ASSUME EnumInv,
           \/ SoftReset \/ ClearInterrupts \/ InitSIE1
           \/ CheckInitAck \/ ResetBus \/ CheckBusResetAck
    PROVE  EnumInv'
<1> USE DEF Goto, memory, engine
<1>1. CASE SoftReset
  BY <1>1 DEF SoftReset, EnumInv, InOrderUnlessOvertaken, EnumerationInOrder,
              Passed, SetAddress, Poll, RunsAreOfThisList, AtList
<1>2. CASE ClearInterrupts
  BY <1>2, MovesOn DEF ClearInterrupts, AtList
<1>3. CASE InitSIE1
  BY <1>3, MovesOn DEF InitSIE1, AtList
<1>4. CASE CheckInitAck
  BY <1>4, MovesOn DEF CheckInitAck, AtList
<1>5. CASE ResetBus
  BY <1>5, MovesOn DEF ResetBus, AtList
<1>6. CASE CheckBusResetAck
  BY <1>6, MovesOn DEF CheckBusResetAck, AtList
<1>7. QED
  BY <1>1, <1>2, <1>3, <1>4, <1>5, <1>6

(* main.c:135-161 and 559-591: looking for the keyboard. *)
LEMMA PresenceInv ==
    ASSUME EnumInv,
           \/ CheckPresence \/ RetryPresence \/ AwaitInsertion
           \/ CheckRemoval \/ RetryRemoval \/ AwaitReinsertion
    PROVE  EnumInv'
<1> USE DEF Goto, memory, engine
<1>1. CASE CheckPresence
  BY <1>1, MovesOn DEF CheckPresence, Presence, AtList
<1>2. CASE RetryPresence
  BY <1>2, MovesOn DEF RetryPresence, PresenceRetry, AtList
<1>3. CASE AwaitInsertion
  BY <1>3, MovesOn DEF AwaitInsertion, WaitForKeyboard, AtList
<1>4. CASE CheckRemoval
  BY <1>4, MovesOn DEF CheckRemoval, Presence, AtList
<1>5. CASE RetryRemoval
  BY <1>5, MovesOn DEF RetryRemoval, PresenceRetry, AtList
<1>6. CASE AwaitReinsertion
  BY <1>6, MovesOn DEF AwaitReinsertion, WaitForKeyboard, AtList
<1>7. QED
  BY <1>1, <1>2, <1>3, <1>4, <1>5, <1>6

(* usb.c:116-534: only the IN transfer of the poll asks for anything but a *)
(* SETUP, and no list for a mixture.                                       *)
LEMMA HeadsOfLists ==
    \A list \in Nat : /\ Head(list) \in Heads /\ Head(list) # "torn"
                      /\ list < Poll => Head(list) # "in"
BY DEF Head, Heads, SetAddress, Poll

(* usb.c:116-534: while a list is written for the first time nothing runs, *)
(* unless the program has overtaken the chip; the words of a list written  *)
(* again are those in memory.                                              *)
LEMMA WriteInv ==
    ASSUME EnumInv, PostList \/ RepostList
    PROVE  EnumInv'
<1> USE DEF Goto, EnumInv, InOrderUnlessOvertaken, EnumerationInOrder, Passed, AtList
<1>1. UNCHANGED <<stage, pending, phase, acked>> /\ (Busy' <=> Busy)
  BY DEF PostList, RepostList, WriteList, engine, Busy
<1>2. CASE PostList
  <2>1. CASE WriteBuffer
    <3>1. ~overtaken' => ~overtaken /\ ~Busy
      BY <1>2, <2>1, Zenon DEF PostList, WriteList, WriteBuffer
    <3>2. /\ pc = "post" /\ pc' = "post" /\ word = 0 /\ word' = 1
      BY <1>2, <2>1 DEF PostList, WriteList, WriteBuffer
    <3>3. QED
      BY <1>1, <3>1, <3>2 DEF RunsAreOfThisList
  <2>2. CASE WriteToken
    BY <1>1, <1>2, <2>2 DEF PostList, WriteList, WriteToken, RunsAreOfThisList
  <2>3. CASE Arm
    BY <1>1, <1>2, <2>3 DEF PostList, WriteList, Arm, RunsAreOfThisList
  <2>4. CASE WriteRequest
    BY <1>1, <1>2, <2>4 DEF PostList, WriteList, WriteRequest, RunsAreOfThisList
  <2>5. CASE WriteRest("start")
    <3>1. /\ pc = "post" /\ pc' = "start" /\ word = 4 /\ word' = 0
          /\ UNCHANGED <<head, ctl, overtaken>>
          /\ stage < Poll => request' = stage
      BY <1>2, <2>5 DEF PostList, WriteList, WriteRest
    <3>2. (~overtaken /\ stage < Poll) =>
              /\ ~Busy /\ head = Head(stage) /\ ctl = "armed"
      BY <3>1 DEF RunsAreOfThisList
    <3>3. (~overtaken /\ stage < Poll) => phase = "idle"
      BY <3>2 DEF Busy
    <3>4. RunsAreOfThisList'
      BY <1>1, <3>1, <3>2, <3>3 DEF RunsAreOfThisList, Heads
    <3>5. QED
      BY <1>1, <3>1, <3>4
  <2>6. QED
    BY <1>2, <2>1, <2>2, <2>3, <2>4, <2>5 DEF PostList, WriteList
<1>3. CASE RepostList
  <2>1. CASE WriteBuffer
    BY <1>1, <1>3, <2>1 DEF RepostList, WriteList, WriteBuffer, RunsAreOfThisList
  <2>2. CASE WriteToken
    BY <1>1, <1>3, <2>2 DEF RepostList, WriteList, WriteToken, RunsAreOfThisList
  <2>3. CASE Arm
    BY <1>1, <1>3, <2>3 DEF RepostList, WriteList, Arm, RunsAreOfThisList
  <2>4. CASE WriteRequest
    BY <1>1, <1>3, <2>4 DEF RepostList, WriteList, WriteRequest, RunsAreOfThisList
  <2>5. CASE WriteRest("restart")
    BY <1>1, <1>3, <2>5 DEF RepostList, WriteList, WriteRest, RunsAreOfThisList
  <2>6. QED
    BY <1>3, <2>1, <2>2, <2>3, <2>4, <2>5 DEF RepostList, WriteList
<1>4. QED
  BY <1>2, <1>3

(* usb.c:537-578 and main.c:548-558: starting the list, waiting for the    *)
(* answer, and the steps that follow a failed list or a poll.              *)
LEMMA AnswerInv ==
    ASSUME EnumInv,
           \/ StartList \/ RestartList \/ CheckFlag \/ ReadMessage \/ ClearMessage
           \/ RetryCount \/ RetryClear \/ RetryWait \/ Publish
    PROVE  EnumInv'
<1> USE DEF Goto, memory, engine
<1>1. CASE StartList
  BY <1>1, MovesOn DEF StartList, StartTDs, AtList
<1>2. CASE RestartList
  BY <1>2, MovesOn DEF RestartList, StartTDs, AtList
<1>3. CASE CheckFlag
  <2>1. CASE pc' = "repost"
    BY <1>3, <2>1 DEF CheckFlag, EnumInv, InOrderUnlessOvertaken, EnumerationInOrder,
                      Passed, RunsAreOfThisList, AtList, history
  <2>2. CASE pc' # "repost"
    BY <1>3, <2>2, MovesOn DEF CheckFlag, AtList
  <2>3. QED
    BY <2>1, <2>2
<1>4. CASE ReadMessage
  BY <1>4, MovesOn DEF ReadMessage, AtList
<1>5. CASE ClearMessage
  <2>1. CASE pc' = "check"
    <3>1. stage < Poll /\ pc = "done_clear"
      BY <1>5, <2>1 DEF ClearMessage, EnumInv, SetAddress, Poll
    <3>2. /\ UNCHANGED <<stage, word, head, ctl, request, phase, acked, overtaken>>
      BY <1>5 DEF ClearMessage, history
    <3>3. QED
      BY <2>1, <3>1, <3>2
         DEF EnumInv, InOrderUnlessOvertaken, EnumerationInOrder, Passed,
             RunsAreOfThisList, AtList
  <2>2. CASE pc' # "check"
    BY <1>5, <2>2, MovesOn DEF ClearMessage, AtList
  <2>3. QED
    BY <2>1, <2>2
<1>6. CASE RetryCount
  BY <1>6, MovesOn DEF RetryCount, AtList
<1>7. CASE RetryClear
  BY <1>7, MovesOn DEF RetryClear, AtList
<1>8. CASE RetryWait
  BY <1>8, MovesOn DEF RetryWait, AtList
<1>9. CASE Publish
  BY <1>9, MovesOn DEF Publish, AtList
<1>10. QED
  BY <1>1, <1>2, <1>3, <1>4, <1>5, <1>6, <1>7, <1>8, <1>9

(* main.c:189-200 and its siblings: a list is left only when the control   *)
(* byte in memory says that it was acknowledged.                           *)
LEMMA CheckInv ==
    ASSUME EnumInv, CheckControl
    PROVE  EnumInv'
<1>1. /\ pc = "check" /\ word = 0 /\ stage < Poll /\ stage \in SetAddress .. Poll
      /\ UNCHANGED <<word, acked, overtaken>>
      /\ (~overtaken /\ ctl = "ok") => stage <= acked
  BY DEF CheckControl, EnumInv, RunsAreOfThisList, AtList, history
<1>2. CASE ctl = "ok" /\ stage = GetConfigDesc2
  <2>1. pc' = "info" /\ stage' = stage
    BY <1>2 DEF CheckControl, Goto
  <2>2. QED
    BY <1>1, <1>2, <2>1
       DEF EnumInv, InOrderUnlessOvertaken, EnumerationInOrder, Passed,
           RunsAreOfThisList, AtList
<1>3. CASE ctl = "ok" /\ stage # GetConfigDesc2
  <2>1. pc' = "post" /\ stage' = stage + 1
    BY <1>3 DEF CheckControl, Goto
  <2>2. QED
    BY <1>1, <1>3, <2>1
       DEF EnumInv, InOrderUnlessOvertaken, EnumerationInOrder, Passed,
           RunsAreOfThisList, AtList, SetAddress, Poll
<1>4. CASE ctl # "ok"
  BY <1>1, <1>4, MovesOn DEF CheckControl, Goto, AtList, memory, engine
<1>5. QED
  BY <1>2, <1>3, <1>4

(* main.c:342-374: the step after GetConfigDesc2. *)
LEMMA InfoInv ==
    ASSUME EnumInv, DeviceInfo
    PROVE  EnumInv'
BY DEF DeviceInfo, Goto, memory, history, EnumInv, InOrderUnlessOvertaken,
       EnumerationInOrder, Passed, RunsAreOfThisList, AtList, SetAddress, Poll,
       SetConfig, GetConfigDesc2

(* The chip fetches a list, carries out its transaction and writes the     *)
(* result back, whatever the program does in between.                      *)
LEMMA RunInv ==
    ASSUME EnumInv,
           \/ FetchTD \/ SendSetup \/ ReceiveReport \/ NoAnswer \/ TornAnswer
           \/ WriteBack \/ RunRest
    PROVE  EnumInv'
<1> USE DEF program, memory, history
<1>1. UNCHANGED <<pc, stage, word, overtaken>> /\ stage \in Nat /\ AtList' = AtList
  BY DEF FetchTD, SendSetup, ReceiveReport, NoAnswer, TornAnswer, WriteBack,
         RunRest, EnumInv, AtList, SetAddress, Poll
<1>2. Busy
  BY DEF FetchTD, SendSetup, ReceiveReport, NoAnswer, TornAnswer, WriteBack,
         RunRest, Listens, HasReport, Heads, Busy
<1>3. acked' \in Nat /\ acked <= acked'
  BY DEF FetchTD, SendSetup, ReceiveReport, NoAnswer, TornAnswer, WriteBack,
         RunRest, EnumInv
<1>4. InOrderUnlessOvertaken'
  BY <1>1, <1>3 DEF EnumInv, InOrderUnlessOvertaken, EnumerationInOrder, Passed
<1>5. ASSUME ~overtaken, stage < Poll, pc \in AtList
      PROVE  /\ head' = Head(stage) /\ request' = stage
             /\ phase' \in Heads => phase' = Head(stage)
             /\ phase' = "answered" => stage <= acked'
             /\ ctl' = "ok" => stage <= acked'
  <2>1. /\ head = Head(stage) /\ request = stage
        /\ phase \in Heads => phase = Head(stage)
        /\ phase = "answered" => stage <= acked
        /\ ctl = "ok" => stage <= acked
    BY <1>5 DEF EnumInv, RunsAreOfThisList
  <2>2. stage <= acked + 1
    BY <1>5 DEF EnumInv, InOrderUnlessOvertaken, EnumerationInOrder, Passed, AtList
  <2>3. CASE FetchTD
    BY <1>1, <2>1, <2>3, HeadsOfLists DEF FetchTD, Heads
  <2>4. CASE SendSetup
    BY <1>1, <1>3, <2>1, <2>2, <2>4 DEF SendSetup, EnumInv, Heads
  <2>5. CASE ReceiveReport
    BY <1>1, <1>5, <2>1, <2>5, HeadsOfLists DEF ReceiveReport, HasReport, Heads
  <2>6. CASE NoAnswer
    BY <2>1, <2>6 DEF NoAnswer, Heads
  <2>7. CASE TornAnswer
    BY <1>1, <2>1, <2>7, HeadsOfLists DEF TornAnswer, Heads
  <2>8. CASE WriteBack
    BY <2>1, <2>8 DEF WriteBack, Heads
  <2>9. CASE RunRest
    BY <2>1, <2>9 DEF RunRest, Heads
  <2>10. QED
    BY <2>3, <2>4, <2>5, <2>6, <2>7, <2>8, <2>9
<1>6. ~(~overtaken /\ stage < Poll /\ pc = "post" /\ word > 0)
  BY <1>2 DEF EnumInv, RunsAreOfThisList
<1>7. RunsAreOfThisList'
  <2>1. Head(stage)' = Head(stage)
    BY <1>1 DEF Head
  <2>2. QED
    BY <1>1, <1>5, <1>6, <2>1 DEF RunsAreOfThisList
<1>8. QED
  BY <1>1, <1>3, <1>4, <1>7 DEF EnumInv

(* A reset of the chip, and a pointer that is not to a list, end runs and  *)
(* begin none; the player changes nothing of them.                         *)
LEMMA EnvironmentInv ==
    ASSUME EnumInv,
           ExecCommand \/ RunBytes \/ PlugOrUnplug \/ PressOrRelease \/ KeyReset
    PROVE  EnumInv'
<1>1. UNCHANGED <<pc, stage, word, head, ctl, request, acked, overtaken>>
  BY DEF ExecCommand, RunBytes, PlugOrUnplug, PressOrRelease, KeyReset,
         program, memory, history
<1>2. /\ phase' \in {phase, "idle"}
      /\ Busy' => Busy
  BY DEF ExecCommand, RunBytes, PlugOrUnplug, PressOrRelease, KeyReset,
         engine, Busy
<1>3. QED
  BY <1>1, <1>2 DEF EnumInv, InOrderUnlessOvertaken, EnumerationInOrder, Passed,
                    RunsAreOfThisList, AtList, Heads

(* The invariant holds in every reachable state. *)
THEOREM Invariance == Spec => []EnumInv
<1>1. Init => EnumInv
  BY DEF Init, EnumInv, InOrderUnlessOvertaken, EnumerationInOrder, Passed,
         RunsAreOfThisList, AtList, SetAddress, Poll
<1>2. EnumInv /\ [Next]_vars => EnumInv'
  <2>1. ASSUME EnumInv, ProgramStep PROVE EnumInv'
    BY <2>1, StartUpInv, PresenceInv, WriteInv, AnswerInv, CheckInv, InfoInv
       DEF ProgramStep
  <2>2. ASSUME EnumInv, ChipStep PROVE EnumInv'
    BY <2>2, RunInv, EnvironmentInv DEF ChipStep
  <2>3. ASSUME EnumInv, UNCHANGED vars PROVE EnumInv'
    BY <2>3, StaysPut DEF vars, program, memory, engine
  <2>4. QED
    BY <2>1, <2>2, <2>3, EnvironmentInv DEF Next
<1>3. QED
  BY <1>1, <1>2, PTL DEF Spec

(* main.c:177-497: no interleaving of the program, the chip, the keyboard  *)
(* and the player takes the program past a list that the keyboard has not  *)
(* acknowledged since the last soft reset, unless it began to write the    *)
(* next list while the chip still had the last one to run.                 *)
THEOREM InOrder == Spec => []InOrderUnlessOvertaken
<1>1. EnumInv => InOrderUnlessOvertaken
  BY DEF EnumInv
<1>2. QED
  BY <1>1, Invariance, PTL
-----------------------------------------------------------------------------
(* Types.  A list has its control byte looked at only before Poll, so that *)
(* its number stays within 1 to 10.                                        *)

Flags ==
    /\ sieFlag \in BOOLEAN /\ host \in BOOLEAN /\ plugged \in BOOLEAN
    /\ fresh \in BOOLEAN /\ overtaken \in BOOLEAN

Requests == (NoList .. GetReportDesc) \cup {Torn}

Values ==
    /\ pc \in Labels /\ stage \in SetAddress .. Poll /\ word \in 0 .. 4
    /\ tries \in 0 .. 6
    /\ msg \in {"none", "done", "change"} /\ keycode \in Words
    /\ command \in {"none", "reset", "init", "bus_reset"}
    /\ outbox \in {"garbage", "ack"}
    /\ sieMsg \in {"none", "done", "change"}
    /\ head \in Heads /\ ctl \in {"armed", "ok", "failed"}
    /\ request \in Requests /\ buf \in Words
    /\ pending \in {"none", "list", "bytes"}
    /\ phase \in Heads \cup {"idle", "answered", "failed", "rest"}
    /\ events \in 0 .. MaxEvents
    /\ dev \in {"default", "addressed", "configured"}
    /\ asked \in Requests
    /\ key \in Keys \cup {None}
    /\ acked \in 0 .. GetReportDesc
    /\ pc = "check" => stage < Poll

TypeInv == Flags /\ Values

(* usb.c:116-534: writing a list. *)
LEMMA ValuesWrite ==
    ASSUME Values, PostList \/ RepostList
    PROVE  Values'
<1>1. /\ pc \in {"post", "repost"}
      /\ UNCHANGED <<stage, tries, msg, keycode, command, outbox, sieMsg, pending,
                     phase, events, dev, asked, key, acked>>
  BY DEF PostList, RepostList, WriteList, mailbox, message, engine, keyboard
<1>2. pc' \in {"post", "repost", "start", "restart"} /\ word' \in 0 .. 4
  BY <1>1 DEF PostList, RepostList, WriteList, WriteBuffer, WriteToken, Arm,
              WriteRequest, WriteRest, Goto
<1>3. head' \in Heads /\ ctl' \in {"armed", "ok", "failed"}
  <2>1. Head(stage) \in Heads
    BY HeadsOfLists DEF Values, SetAddress, Poll
  <2>2. head \in Heads /\ ctl \in {"armed", "ok", "failed"}
    BY DEF Values
  <2>3. QED
    BY <2>1, <2>2 DEF PostList, RepostList, WriteList, WriteBuffer, WriteToken, Arm,
                      WriteRequest, WriteRest, Heads
<1>4. request' \in Requests
  BY DEF PostList, RepostList, WriteList, WriteBuffer, WriteToken, Arm, WriteRequest,
         WriteRest, Values, Requests, SetAddress, Poll, NoList, GetReportDesc, Torn
<1>5. buf' \in Words
  <2>1. buf \in Words /\ None \in Words /\ Leftover \in Words
    BY DEF Values, Words
  <2>2. LeftAt051e(stage) \in Words
    BY <2>1 DEF LeftAt051e
  <2>3. QED
    BY <2>1, <2>2 DEF PostList, RepostList, WriteList, WriteBuffer, WriteToken, Arm,
                      WriteRequest, WriteRest
<1>6. QED
  BY <1>1, <1>2, <1>3, <1>4, <1>5 DEF Values, Labels

(* main.c, usb.c: every step of the program keeps the values in their types. *)
LEMMA ValuesStep ==
    ASSUME Values, ProgramStep
    PROVE  Values'
<1> USE DEF Goto, mailbox, message, memory, engine, keyboard, history, Labels
<1>1. CASE SoftReset
  BY <1>1 DEF SoftReset, SetAddress, Poll, GetReportDesc, Values
<1>2. CASE ClearInterrupts
  BY <1>2 DEF ClearInterrupts, Values
<1>3. CASE InitSIE1
  BY <1>3 DEF InitSIE1, Values
<1>4. CASE CheckInitAck
  BY <1>4 DEF CheckInitAck, Values
<1>5. CASE ResetBus
  BY <1>5 DEF ResetBus, Values
<1>6. CASE CheckBusResetAck
  BY <1>6 DEF CheckBusResetAck, Values
<1>7. CASE CheckPresence \/ CheckRemoval
  <2>1. /\ pc' \in {"post", "presence_retry", "unplug_retry"} /\ tries' = 0
        /\ UNCHANGED <<stage, word, msg, keycode, command, outbox, sieMsg, head, ctl,
                       request, buf, pending, phase, events, dev, asked, key,
                       acked>>
    BY <1>7, Zenon DEF CheckPresence, CheckRemoval, Presence
  <2>2. QED
    BY <2>1 DEF Values
<1>8. CASE RetryPresence
  BY <1>8 DEF RetryPresence, PresenceRetry, Values
<1>9. CASE RetryRemoval
  BY <1>9 DEF RetryRemoval, PresenceRetry, Values
<1>10. CASE AwaitInsertion \/ AwaitReinsertion
  BY <1>10 DEF AwaitInsertion, AwaitReinsertion, WaitForKeyboard, Values
<1>11. CASE PostList \/ RepostList
  BY <1>11, ValuesWrite
<1>12. CASE StartList \/ RestartList
  BY <1>12 DEF StartList, RestartList, StartTDs, Values
<1>13. CASE CheckFlag
  BY <1>13 DEF CheckFlag, Values
<1>14. CASE ReadMessage
  BY <1>14 DEF ReadMessage, Values
<1>15. CASE ClearMessage
  BY <1>15 DEF ClearMessage, SetAddress, Poll, Values
<1>16. CASE CheckControl
  BY <1>16 DEF CheckControl, SetAddress, Poll, GetConfigDesc2, Values
<1>17. CASE DeviceInfo
  BY <1>17 DEF DeviceInfo, SetAddress, Poll, SetConfig, Values
<1>18. CASE RetryCount
  BY <1>18 DEF RetryCount, Values
<1>19. CASE RetryClear
  BY <1>19 DEF RetryClear, Values
<1>20. CASE RetryWait
  BY <1>20 DEF RetryWait, Values
<1>21. CASE Publish
  BY <1>21 DEF Publish, Values
<1>22. QED
  BY <1>1, <1>2, <1>3, <1>4, <1>5, <1>6, <1>7, <1>8, <1>9, <1>10, <1>11, <1>12,
     <1>13, <1>14, <1>15, <1>16, <1>17, <1>18, <1>19, <1>20, <1>21 DEF ProgramStep

(* The flags the program changes are that of the message register and the  *)
(* history's.                                                              *)
LEMMA FlagsStep ==
    ASSUME Flags, ProgramStep
    PROVE  Flags'
<1>1. sieFlag' \in BOOLEAN
  BY Zenon DEF ProgramStep, SoftReset, ClearInterrupts, InitSIE1,
     CheckInitAck, ResetBus, CheckBusResetAck, CheckPresence, CheckRemoval,
     Presence, RetryPresence, RetryRemoval, PresenceRetry, AwaitInsertion,
     AwaitReinsertion, WaitForKeyboard, PostList, RepostList, WriteList,
     StartList, RestartList, StartTDs, CheckFlag, ReadMessage,
     ClearMessage, CheckControl, DeviceInfo, RetryCount, RetryClear, RetryWait,
     Publish, message, Flags
<1>2. UNCHANGED <<host, plugged, fresh>>
  BY Zenon DEF ProgramStep, SoftReset, ClearInterrupts, InitSIE1,
     CheckInitAck, ResetBus, CheckBusResetAck, CheckPresence, CheckRemoval,
     Presence, RetryPresence, RetryRemoval, PresenceRetry, AwaitInsertion,
     AwaitReinsertion, WaitForKeyboard, PostList, RepostList, WriteList,
     StartList, RestartList, StartTDs, CheckFlag, ReadMessage,
     ClearMessage, CheckControl, DeviceInfo, RetryCount, RetryClear, RetryWait,
     Publish, engine, keyboard
<1>3. overtaken' \in BOOLEAN
  <2>1. CASE PostList \/ RepostList
    <3>1. overtaken \in BOOLEAN /\ (overtaken \/ (Busy /\ pc = "post")) \in BOOLEAN
      BY Zenon DEF Flags
    <3>2. QED
      BY <2>1, <3>1, Zenon DEF PostList, RepostList, WriteList, WriteBuffer,
         WriteToken, Arm, WriteRequest, WriteRest
  <2>2. CASE ~(PostList \/ RepostList)
    BY <2>2, Zenon DEF ProgramStep, SoftReset, ClearInterrupts, InitSIE1,
       CheckInitAck, ResetBus, CheckBusResetAck, CheckPresence, CheckRemoval,
       Presence, RetryPresence, RetryRemoval, PresenceRetry, AwaitInsertion,
       AwaitReinsertion, WaitForKeyboard,
       StartList, RestartList, StartTDs, CheckFlag, ReadMessage,
       ClearMessage, CheckControl, DeviceInfo, RetryCount, RetryClear, RetryWait,
       Publish, history, Flags
  <2>3. QED
    BY <2>1, <2>2
<1>4. QED
  BY <1>1, <1>2, <1>3, Zenon DEF Flags

(* The chip, the keyboard and the player. *)
LEMMA ValuesEnvironment ==
    ASSUME Values, ChipStep \/ PlugOrUnplug \/ PressOrRelease \/ KeyReset
    PROVE  Values'
<1> USE DEF program, mailbox, message, memory, engine, keyboard, history
<1>1. CASE ExecCommand
  BY <1>1 DEF ExecCommand, Requests, NoList, Torn, GetReportDesc, Values
<1>2. CASE FetchTD
  BY <1>2 DEF FetchTD, Values
<1>3. CASE SendSetup
  <2>1. acked' \in 0 .. GetReportDesc
    BY <1>3 DEF SendSetup, Values, Requests, NoList, GetReportDesc, Torn
  <2>2. QED
    BY <1>3, <2>1 DEF SendSetup, Values
<1>4. CASE ReceiveReport
  BY <1>4 DEF ReceiveReport, Words, Values
<1>5. CASE NoAnswer
  BY <1>5 DEF NoAnswer, Values
<1>6. CASE TornAnswer
  BY <1>6 DEF TornAnswer, Requests, Values
<1>7. CASE WriteBack
  BY <1>7 DEF WriteBack, Values
<1>8. CASE RunRest
  <2>1. dev' \in {"default", "addressed", "configured"}
    BY <1>8 DEF RunRest, Outcomes, Values
  <2>2. asked' \in Requests
    BY <1>8 DEF RunRest, Requests, NoList, GetReportDesc
  <2>3. QED
    BY <1>8, <2>1, <2>2 DEF RunRest, Values
<1>9. CASE RunBytes
  BY <1>9 DEF RunBytes, Values
<1>10. CASE PlugOrUnplug
  BY <1>10, UsbHostAssumption
     DEF PlugOrUnplug, Requests, NoList, GetReportDesc, Values
<1>11. CASE PressOrRelease
  BY <1>11 DEF PressOrRelease, Values
<1>12. CASE KeyReset
  BY <1>12, UsbHostAssumption DEF KeyReset, Values
<1>13. QED
  BY <1>1, <1>2, <1>3, <1>4, <1>5, <1>6, <1>7, <1>8, <1>9, <1>10, <1>11, <1>12
     DEF ChipStep

LEMMA FlagsEnvironment ==
    ASSUME Flags, ChipStep \/ PlugOrUnplug \/ PressOrRelease \/ KeyReset
    PROVE  Flags'
<1> USE DEF message, engine, keyboard, history
<1>1. CASE ExecCommand
  BY <1>1, Zenon DEF ExecCommand, Flags
<1>2. CASE FetchTD \/ SendSetup \/ ReceiveReport \/ NoAnswer \/ TornAnswer
  BY <1>2, Zenon DEF FetchTD, SendSetup, ReceiveReport, NoAnswer, TornAnswer, Flags
<1>3. CASE WriteBack \/ RunRest \/ RunBytes
  BY <1>3, Zenon DEF WriteBack, RunRest, RunBytes, Flags
<1>4. CASE PlugOrUnplug \/ PressOrRelease \/ KeyReset
  BY <1>4, Zenon DEF PlugOrUnplug, PressOrRelease, KeyReset, Flags
<1>5. QED
  BY <1>1, <1>2, <1>3, <1>4 DEF ChipStep

(* Every variable of the program, the chip and the keyboard holds a value  *)
(* of its type; in particular the number of a list is 1 to 10 wherever the *)
(* program goes on to the next one (main.c:177-523).                       *)
THEOREM TypeCorrect == Spec => []TypeOK
<1>1. Init => TypeInv
  <2>1. Init => Values
    BY UsbHostAssumption DEF Init, Values, Labels, Words, Heads, Requests,
       SetAddress, Poll, NoList, GetReportDesc
  <2>2. Init => Flags
    BY Zenon DEF Init, Flags
  <2>3. QED
    BY <2>1, <2>2 DEF TypeInv
<1>2. TypeInv /\ UNCHANGED vars => TypeInv'
  BY DEF vars, program, mailbox, message, memory, engine, keyboard, history,
         TypeInv, Values, Flags
<1>3. TypeInv /\ [Next]_vars => TypeInv'
  BY <1>2, ValuesStep, FlagsStep, ValuesEnvironment, FlagsEnvironment DEF Next, TypeInv
<1>4. TypeInv => TypeOK
  BY DEF TypeInv, TypeOK, Flags, Values, Requests
<1>5. QED
  BY <1>1, <1>3, <1>4, PTL DEF Spec
=============================================================================
