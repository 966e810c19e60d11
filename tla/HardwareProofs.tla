--------------------------- MODULE HardwareProofs ---------------------------
(***************************************************************************)
(* Proofs about the hardware KVMD drives by itself: HidMcu, a keyboard and *)
(* a mouse behind a microcontroller, for any numbers of attempts, boards,  *)
(* calls and faults; and Gpio, for any lines, drivers and requests.        *)
(*                                                                         *)
(* HidMcu: a key that the clients have let go goes up by the last end of   *)
(* it in the queue, by the event under way, which is executed or fails and *)
(* is followed by a clear, or by a reboot (Ends).  That needs to know what *)
(* the firmware has done with the event under way (Done) and which answers *)
(* are about it (Answers).                                                 *)
(*                                                                         *)
(* Gpio: the region of an output and the state of its action are changed   *)
(* in different places; the invariant says that they agree (OneAction),    *)
(* and from it that a line only moves where no client sees it.             *)
(***************************************************************************)
EXTENDS HidMcu, Gpio, SequenceTheorems, TLAPS

-----------------------------------------------------------------------------
(* HidMcu *)

\* What KVMD queues.
McuEvents == {"press", "release", "clear", "set", "connect"}

\* A set of outputs is followed by a reboot, at which every key goes up.
Lets(e) == e \in {"release", "clear", "set"}

\* A request is being sent or answered.
UnderWay == pc \in {"send", "await"}

\* Nothing in the queue presses the key.
NoPress(q) == \A i \in 1 .. Len(q) : q[i] # "press"

\* The last press of a queue, if there is one, is followed by an end of it.
EndsUp(q) ==
  \E i \in 1 .. Len(q) : Lets(q[i]) /\ \A j \in i + 1 .. Len(q) : q[j] # "press"

\* The key is up, or will be when the firmware is back, and is not being pressed.
Up == (~held \/ fw = "rebooting") /\ ~(UnderWay /\ event = "press")

\* Whatever happens to the events, the key will be up when they are done.
WillBeUp ==
  \/ EndsUp(queue)
  \/ NoPress(queue) /\ \/ put \in {"clear", "set"}
                       \/ pc \in {"clear", "clear_wait"}
                       \/ UnderWay /\ Lets(event)
                       \/ Up

\* The types the proofs need, and that nothing is on the line but during an attempt.
McuTypes ==
  /\ queue \in Seq(McuEvents)
  /\ put \in {"nothing", "clear", "set", "connect"}
  /\ stop \in BOOLEAN /\ prev \in {"none", "error", "pong"}
  /\ runs \in Nat /\ lost \in Nat
  /\ wire # "nothing" => pc = "await" /\ answer = "nothing" /\ slow = "nothing"
  /\ slow # "nothing" => pc = "await" /\ answer = "nothing"

\* What the firmware has done with the event under way.
Done ==
  /\ fw = "off" => ~held
  /\ prev = "none" => ~held
  /\ pc = "await" /\ answer = "none" => ~held
  /\ UnderWay /\ runs > 0 /\ Releases(event) => ~held
  /\ UnderWay /\ runs > 0 /\ event = "set" => ~held \/ fw = "rebooting"
  /\ event = "final" => stop
  /\ pc = "cleared" => ~held

\* An answer is one to the request before it, and a repetition is only asked for
\* when there was one.
Answers ==
  /\ wire # "nothing" => wire \in {request, "damaged"}
  /\ UnderWay /\ request = "repeat" /\ prev = "pong" => runs > 0
  /\ pc = "await" /\ answer = "damaged" /\ prev = "pong" => runs > 0
  /\ UnderWay /\ request = "event" /\ (pc = "send" \/ answer \in {"nothing", "error"})
       => runs <= lost

\* Once the clients have let the key go, it will be up.
Ends ==
  /\ ~wanted => NoPress(queue) \/ EndsUp(queue)
  /\ ~stop /\ ~wanted /\ ~dropped => WillBeUp

\* An attempt is only made when one is left.
Attempts == pc = "await" => tries.common > 0 /\ tries.read > 0

McuIInv == McuTypes /\ Done /\ Answers /\ EachEventOnce /\ Ends

-----------------------------------------------------------------------------
(* Queues *)

\* An empty queue presses nothing.
LEMMA NothingQueued == <<>> \in Seq(McuEvents) /\ NoPress(<<>>) /\ ~EndsUp(<<>>)
  BY DEF NoPress, EndsUp

\* An event is put at the end.
LEMMA Appended ==
  ASSUME NEW q \in Seq(McuEvents), NEW e \in McuEvents
  PROVE  /\ Append(q, e) \in Seq(McuEvents)
         /\ e # "press" /\ NoPress(q) => NoPress(Append(q, e))
         /\ e # "press" /\ EndsUp(q) => EndsUp(Append(q, e))
         /\ Lets(e) => EndsUp(Append(q, e))
<1> DEFINE r == Append(q, e)
<1>1. /\ r \in Seq(McuEvents) /\ Len(r) = Len(q) + 1 /\ Len(q) \in Nat
      /\ r[Len(q) + 1] = e /\ \A j \in 1 .. Len(q) : r[j] = q[j]
  OBVIOUS
<1> HIDE DEF r
<1>2. ASSUME e # "press", NoPress(q) PROVE NoPress(r)
  BY <1>1, <1>2 DEF NoPress
<1>3. ASSUME e # "press", EndsUp(q) PROVE EndsUp(r)
  <2>1. PICK i \in 1 .. Len(q) : Lets(q[i]) /\ \A j \in i + 1 .. Len(q) : q[j] # "press"
    BY <1>3 DEF EndsUp
  <2>2. i \in 1 .. Len(r) /\ Lets(r[i])
    BY <1>1, <2>1
  <2>3. \A j \in i + 1 .. Len(r) : r[j] # "press"
    BY <1>1, <1>3, <2>1
  <2> QED
    BY <2>2, <2>3 DEF EndsUp
<1>4. ASSUME Lets(e) PROVE EndsUp(r)
  <2>1. Len(r) \in 1 .. Len(r) /\ Lets(r[Len(r)]) /\ \A j \in Len(r) + 1 .. Len(r) : r[j] # "press"
    BY <1>1, <1>4
  <2> QED
    BY <2>1 DEF EndsUp
<1> QED
  BY <1>1, <1>2, <1>3, <1>4 DEF r

\* The first event is taken out: it lets the key go, or is not the last to.
LEMMA Taken ==
  ASSUME NEW q \in Seq(McuEvents), q # <<>>
  PROVE  /\ Tail(q) \in Seq(McuEvents) /\ Head(q) \in McuEvents
         /\ NoPress(q) => NoPress(Tail(q)) /\ Head(q) # "press"
         /\ EndsUp(q) => EndsUp(Tail(q)) \/ (NoPress(Tail(q)) /\ Lets(Head(q)))
<1> DEFINE r == Tail(q)
<1>1. /\ r \in Seq(McuEvents) /\ Head(q) \in McuEvents /\ Len(r) = Len(q) - 1
      /\ Len(q) \in Nat \ {0} /\ Head(q) = q[1]
      /\ \A j \in 1 .. Len(q) - 1 : r[j] = q[j + 1]
  OBVIOUS
<1> HIDE DEF r
<1>2. ASSUME NoPress(q) PROVE NoPress(r) /\ Head(q) # "press"
  BY <1>1, <1>2 DEF NoPress
<1>3. ASSUME EndsUp(q) PROVE EndsUp(r) \/ (NoPress(r) /\ Lets(Head(q)))
  <2>1. PICK i \in 1 .. Len(q) : Lets(q[i]) /\ \A j \in i + 1 .. Len(q) : q[j] # "press"
    BY <1>3 DEF EndsUp
  <2>2. CASE i = 1
    BY <1>1, <2>1, <2>2 DEF NoPress
  <2>3. CASE i > 1
    <3>1. i - 1 \in 1 .. Len(r) /\ Lets(r[i - 1])
      BY <1>1, <2>1, <2>3
    <3>2. \A j \in (i - 1) + 1 .. Len(r) : r[j] # "press"
      BY <1>1, <2>1, <2>3
    <3> QED
      BY <3>1, <3>2 DEF EndsUp
  <2> QED
    BY <2>1, <2>2, <2>3
<1> QED
  BY <1>1, <1>2, <1>3 DEF r
\* What set_connected() drops would have let the key go, if the queue would have.
LEMMA Dropped ==
  ASSUME NEW q \in Seq(McuEvents), EndsUp(q)
  PROVE  \E i \in DOMAIN q : q[i] \in {"release", "clear", "set"}
<1>1. PICK i \in 1 .. Len(q) : Lets(q[i])
  BY DEF EndsUp
<1>2. DOMAIN q = 1 .. Len(q)
  OBVIOUS
<1> QED
  BY <1>1, <1>2 DEF Lets

-----------------------------------------------------------------------------
(* Steps *)

\* No step leaves these types.
LEMMA McuTypesStep ==
  ASSUME McuTypes, [Next]_vars PROVE McuTypes'
<1> USE DEF McuTypes, McuEvents, kvmd, flags, sub, mcu, line, ghosts
<1>1. ASSUME NEW state \in BOOLEAN, SendKeyEvent(state) PROVE McuTypes'
  BY <1>1 DEF SendKeyEvent, Call, QueueEvent
<1>2. CASE ClearEvents
  BY <1>2 DEF ClearEvents, Call, ClearAndQueue
<1>3. CASE SetParams
  BY <1>3 DEF SetParams, Call, ClearAndQueue
<1>4. CASE SetConnected
  BY <1>4 DEF SetConnected, Call, ClearAndQueue
<1>5. CASE Reset
  BY <1>5 DEF Reset, Call
<1>6. CASE Stop
  BY <1>6 DEF Stop
<1>7. CASE Put
  BY <1>7 DEF Put
<1>8. CASE WaitDevice
  BY <1>8 DEF WaitDevice, Reboot
<1>9. CASE FinalClear
  BY <1>9 DEF FinalClear, Stopping, Start
<1>10. CASE ResetRequired
  BY <1>10 DEF ResetRequired, AtLoop
<1>11. CASE TakeEvent
  BY <1>11 DEF TakeEvent, AtLoop, Start
<1>12. CASE Ping
  BY <1>12 DEF Ping, AtLoop, Start
<1>13. CASE PutClear
  BY <1>13 DEF PutClear
<1>14. CASE NoPower
  BY <1>14 DEF NoPower, Processed, Unpowered
<1>15. CASE GiveUp
  BY <1>15, NothingQueued DEF GiveUp, Processed, Failed
<1>16. CASE Send
  BY <1>16 DEF Send, CanSend
<1>17. CASE SendFails
  BY <1>17, NothingQueued DEF SendFails, CanSend, Processed, Failed
<1>18. CASE Receive
  BY <1>18 DEF Receive, ReceiveDamaged, ReceiveNone, ReceivePong,
     ReceiveResetRequired, TryAgain, Processed
<1>19. CASE ReadTimeout
  BY <1>19 DEF ReadTimeout, TryAgain
<1>20. CASE Execute
  BY <1>20 DEF Execute, Respond
<1>21. CASE Repeat
  BY <1>21 DEF Repeat, Respond
<1>22. CASE RejectRequest
  BY <1>22 DEF RejectRequest, Respond
<1>23. CASE Deaf
  BY <1>23 DEF Deaf
<1>24. CASE Boot
  BY <1>24 DEF Boot, Reboot
<1>25. CASE PowerOff
  BY <1>25 DEF PowerOff, Reboot
<1>26. CASE PowerOn
  BY <1>26 DEF PowerOn
<1>27. CASE UNCHANGED vars
  BY <1>27 DEF vars
<1> QED
  BY <1>1, <1>2, <1>3, <1>4, <1>5, <1>6, <1>7, <1>8, <1>9, <1>10, <1>11, <1>12,
     <1>13, <1>14, <1>15, <1>16, <1>17, <1>18, <1>19, <1>20, <1>21, <1>22,
     <1>23, <1>24, <1>25, <1>26, <1>27 DEF Next, Calls, Subprocess, Firmware

\* An event that was executed, or lost in a reboot, leaves the key up if it lets it go.
LEMMA DoneStep ==
  ASSUME McuTypes, Done, Answers, EachEventOnce, [Next]_vars PROVE Done'
<1> USE DEF McuTypes, Done, Answers, EachEventOnce, UnderWay, Releases, kvmd,
      flags, sub, mcu, line, ghosts
<1>1. ASSUME NEW state \in BOOLEAN, SendKeyEvent(state) PROVE Done'
  BY <1>1 DEF SendKeyEvent, Call, QueueEvent
<1>2. CASE ClearEvents
  BY <1>2 DEF ClearEvents, Call, ClearAndQueue
<1>3. CASE SetParams
  BY <1>3 DEF SetParams, Call, ClearAndQueue
<1>4. CASE SetConnected
  BY <1>4 DEF SetConnected, Call, ClearAndQueue
<1>5. CASE Reset
  BY <1>5 DEF Reset, Call
<1>6. CASE Stop
  BY <1>6 DEF Stop
<1>7. CASE Put
  BY <1>7 DEF Put
<1>8. CASE WaitDevice
  BY <1>8 DEF WaitDevice, Reboot
<1>9. CASE FinalClear
  BY <1>9 DEF FinalClear, Stopping, Start
<1>10. CASE ResetRequired
  BY <1>10 DEF ResetRequired, AtLoop
<1>11. CASE TakeEvent
  BY <1>11, Taken DEF TakeEvent, AtLoop, Start, McuEvents
<1>12. CASE Ping
  BY <1>12 DEF Ping, AtLoop, Start
<1>13. CASE PutClear
  BY <1>13 DEF PutClear
<1>14. CASE NoPower
  BY <1>14 DEF NoPower, Processed, Unpowered
<1>15. CASE GiveUp
  BY <1>15 DEF GiveUp, Processed, Failed
<1>16. CASE Send
  BY <1>16 DEF Send, CanSend
<1>17. CASE SendFails
  BY <1>17 DEF SendFails, CanSend, Processed, Failed
<1>18. CASE Receive
  BY <1>18 DEF Receive, ReceiveDamaged, ReceiveNone, ReceivePong,
     ReceiveResetRequired, TryAgain, Processed
<1>19. CASE ReadTimeout
  BY <1>19 DEF ReadTimeout, TryAgain
<1>20. CASE Execute
  BY <1>20 DEF Execute, Respond
<1>21. CASE Repeat
  BY <1>21 DEF Repeat, Respond
<1>22. CASE RejectRequest
  BY <1>22 DEF RejectRequest, Respond
<1>23. CASE Deaf
  BY <1>23 DEF Deaf
<1>24. CASE Boot
  BY <1>24 DEF Boot, Reboot
<1>25. CASE PowerOff
  BY <1>25 DEF PowerOff, Reboot
<1>26. CASE PowerOn
  BY <1>26 DEF PowerOn
<1>27. CASE UNCHANGED vars
  BY <1>27 DEF vars
<1> QED
  BY <1>1, <1>2, <1>3, <1>4, <1>5, <1>6, <1>7, <1>8, <1>9, <1>10, <1>11, <1>12,
     <1>13, <1>14, <1>15, <1>16, <1>17, <1>18, <1>19, <1>20, <1>21, <1>22,
     <1>23, <1>24, <1>25, <1>26, <1>27 DEF Next, Calls, Subprocess, Firmware

\* The firmware executes an event again only when an answer did not come.
LEMMA AnswersStep ==
  ASSUME McuTypes, Answers, EachEventOnce, [Next]_vars PROVE Answers' /\ EachEventOnce'
<1> USE DEF McuTypes, Answers, EachEventOnce, UnderWay, kvmd, flags, sub, mcu,
      line, ghosts
<1>1. ASSUME NEW state \in BOOLEAN, SendKeyEvent(state) PROVE Answers' /\ EachEventOnce'
  BY <1>1 DEF SendKeyEvent, Call, QueueEvent
<1>2. CASE ClearEvents
  BY <1>2 DEF ClearEvents, Call, ClearAndQueue
<1>3. CASE SetParams
  BY <1>3 DEF SetParams, Call, ClearAndQueue
<1>4. CASE SetConnected
  BY <1>4 DEF SetConnected, Call, ClearAndQueue
<1>5. CASE Reset
  BY <1>5 DEF Reset, Call
<1>6. CASE Stop
  BY <1>6 DEF Stop
<1>7. CASE Put
  BY <1>7 DEF Put
<1>8. CASE WaitDevice
  BY <1>8 DEF WaitDevice, Reboot
<1>9. CASE FinalClear
  BY <1>9 DEF FinalClear, Stopping, Start
<1>10. CASE ResetRequired
  BY <1>10 DEF ResetRequired, AtLoop
<1>11. CASE TakeEvent
  BY <1>11 DEF TakeEvent, AtLoop, Start
<1>12. CASE Ping
  BY <1>12 DEF Ping, AtLoop, Start
<1>13. CASE PutClear
  BY <1>13 DEF PutClear
<1>14. CASE NoPower
  BY <1>14 DEF NoPower, Processed, Unpowered
<1>15. CASE GiveUp
  BY <1>15 DEF GiveUp, Processed, Failed
<1>16. CASE Send
  BY <1>16 DEF Send, CanSend
<1>17. CASE SendFails
  BY <1>17 DEF SendFails, CanSend, Processed, Failed
<1>18. CASE Receive
  BY <1>18 DEF Receive, ReceiveDamaged, ReceiveNone, ReceivePong,
     ReceiveResetRequired, TryAgain, Processed
<1>19. CASE ReadTimeout
  BY <1>19 DEF ReadTimeout, TryAgain
<1>20. CASE Execute
  BY <1>20 DEF Execute, Respond
<1>21. CASE Repeat
  BY <1>21 DEF Repeat, Respond
<1>22. CASE RejectRequest
  BY <1>22 DEF RejectRequest, Respond
<1>23. CASE Deaf
  BY <1>23 DEF Deaf
<1>24. CASE Boot
  BY <1>24 DEF Boot, Reboot
<1>25. CASE PowerOff
  BY <1>25 DEF PowerOff, Reboot
<1>26. CASE PowerOn
  BY <1>26 DEF PowerOn
<1>27. CASE UNCHANGED vars
  BY <1>27 DEF vars
<1> QED
  BY <1>1, <1>2, <1>3, <1>4, <1>5, <1>6, <1>7, <1>8, <1>9, <1>10, <1>11, <1>12,
     <1>13, <1>14, <1>15, <1>16, <1>17, <1>18, <1>19, <1>20, <1>21, <1>22,
     <1>23, <1>24, <1>25, <1>26, <1>27 DEF Next, Calls, Subprocess, Firmware

\* Whatever gives the queue up puts something in its place that lets the key go, or
\* notes that it did not.
LEMMA EndsStep ==
  ASSUME McuIInv, [Next]_vars PROVE Ends'
<1> USE DEF McuIInv, McuTypes, Done, Answers, EachEventOnce, Ends, WillBeUp, Up,
      UnderWay, kvmd, flags, sub, mcu, line, ghosts
<1>1. ASSUME NEW state \in BOOLEAN, SendKeyEvent(state) PROVE Ends'
  BY <1>1, Appended DEF SendKeyEvent, Call, QueueEvent, McuEvents, Lets
<1>2. CASE ClearEvents
  BY <1>2, NothingQueued DEF ClearEvents, Call, ClearAndQueue
<1>3. CASE SetParams
  BY <1>3, NothingQueued DEF SetParams, Call, ClearAndQueue
<1>4. CASE SetConnected
  BY <1>4, NothingQueued, Dropped DEF SetConnected, Call, ClearAndQueue
<1>5. CASE Reset
  BY <1>5 DEF Reset, Call
<1>6. CASE Stop
  BY <1>6 DEF Stop
<1>7. CASE Put
  BY <1>7, Appended DEF Put, McuEvents, Lets
<1>8. CASE WaitDevice
  BY <1>8 DEF WaitDevice, Reboot
<1>9. CASE FinalClear
  BY <1>9 DEF FinalClear, Stopping, Start
<1>10. CASE ResetRequired
  BY <1>10 DEF ResetRequired, AtLoop
<1>11. CASE TakeEvent
  BY <1>11, Taken DEF TakeEvent, AtLoop, Start
<1>12. CASE Ping
  BY <1>12 DEF Ping, AtLoop, Start
<1>13. CASE PutClear
  BY <1>13, Appended DEF PutClear, McuEvents, Lets
<1>14. CASE NoPower
  BY <1>14 DEF NoPower, Processed, Unpowered
<1>15. CASE GiveUp
  BY <1>15, NothingQueued DEF GiveUp, Processed, Failed, Lets
<1>16. CASE Send
  BY <1>16 DEF Send, CanSend
<1>17. CASE SendFails
  BY <1>17, NothingQueued DEF SendFails, CanSend, Processed, Failed
<1>18. CASE Receive
  BY <1>18 DEF Receive, ReceiveDamaged, ReceiveNone, ReceivePong,
     ReceiveResetRequired, TryAgain, Processed, Releases, Lets
<1>19. CASE ReadTimeout
  BY <1>19 DEF ReadTimeout, TryAgain
<1>20. CASE Execute
  BY <1>20 DEF Execute, Respond, Releases, Lets
<1>21. CASE Repeat
  BY <1>21 DEF Repeat, Respond
<1>22. CASE RejectRequest
  BY <1>22 DEF RejectRequest, Respond
<1>23. CASE Deaf
  BY <1>23 DEF Deaf
<1>24. CASE Boot
  BY <1>24 DEF Boot, Reboot
<1>25. CASE PowerOff
  BY <1>25 DEF PowerOff, Reboot
<1>26. CASE PowerOn
  BY <1>26 DEF PowerOn
<1>27. CASE UNCHANGED vars
  BY <1>27 DEF vars
<1> QED
  BY <1>1, <1>2, <1>3, <1>4, <1>5, <1>6, <1>7, <1>8, <1>9, <1>10, <1>11, <1>12,
     <1>13, <1>14, <1>15, <1>16, <1>17, <1>18, <1>19, <1>20, <1>21, <1>22,
     <1>23, <1>24, <1>25, <1>26, <1>27 DEF Next, Calls, Subprocess, Firmware

\* The two parts of the types: of the processes of KVMD, and of the rest.
SubprocessType ==
  /\ queue \in Seq(McuEvents)
  /\ put \in {"nothing", "clear", "set", "connect"}
  /\ pc \in {"wait", "loop", "send", "await", "clear", "clear_wait", "cleared", "gave_up"}
  /\ event \in McuEvents \cup {"ping", "final"}
  /\ request \in {"event", "repeat"}
  /\ tries \in [common : 0 .. CommonRetries, read : 0 .. ReadRetries]

LineType ==
  /\ config \in Configs
  /\ fw \in {"on", "rebooting", "off"} /\ prev \in {"none", "error", "pong"}
  /\ wire \in {"nothing", "event", "repeat", "damaged"}
  /\ answer \in {"nothing", "damaged", "none", "error", "pong", "pong_reset"}
  /\ slow \in {"nothing", "damaged", "none", "error", "pong", "pong_reset"}
  /\ {stop, resetRequired, busy, online, reset, held, wanted, dropped} \subseteq BOOLEAN

\* They are the types of all variables together with those that the invariant has.
LEMMA TypeParts ==
  ASSUME McuTypes
  PROVE  TypeOK <=> SubprocessType /\ LineType
<1>1. TypeOK => SubprocessType
  BY DEF TypeOK, SubprocessType, McuEvents
<1>2. TypeOK => LineType
  BY DEF TypeOK, LineType
<1>3. SubprocessType /\ LineType => TypeOK
  BY DEF TypeOK, SubprocessType, LineType, McuTypes, McuEvents
<1> QED
  BY <1>1, <1>2, <1>3

\* An attempt that failed leaves one less, and one that was made leaves no less than
\* none.
LEMMA OneLess ==
  ASSUME SubprocessType, Attempts, pc = "await", NEW n \in {0, 1}
  PROVE  [common |-> tries.common - 1, read |-> tries.read - n]
           \in [common : 0 .. CommonRetries, read : 0 .. ReadRetries]
<1>1. tries.common \in 1 .. CommonRetries /\ tries.read \in 1 .. ReadRetries
  BY RetriesAssumption DEF SubprocessType, Attempts
<1> QED
  BY <1>1, RetriesAssumption

\* An attempt is made only while one is left.
LEMMA SubprocessTypeStep ==
  ASSUME SubprocessType, Attempts, McuTypes, [Next]_vars PROVE SubprocessType' /\ Attempts'
<1> USE DEF SubprocessType, Attempts, McuTypes, McuEvents, kvmd, flags, sub,
      mcu, line, ghosts
<1>1. ASSUME NEW state \in BOOLEAN, SendKeyEvent(state) PROVE SubprocessType' /\ Attempts'
  BY <1>1, Appended DEF SendKeyEvent, Call, QueueEvent
<1>2. CASE ClearEvents
  BY <1>2, NothingQueued DEF ClearEvents, Call, ClearAndQueue
<1>3. CASE SetParams
  BY <1>3, NothingQueued DEF SetParams, Call, ClearAndQueue
<1>4. CASE SetConnected
  BY <1>4, NothingQueued DEF SetConnected, Call, ClearAndQueue
<1>5. CASE Reset
  BY <1>5 DEF Reset, Call
<1>6. CASE Stop
  BY <1>6 DEF Stop
<1>7. CASE Put
  BY <1>7, Appended DEF Put
<1>8. CASE WaitDevice
  BY <1>8 DEF WaitDevice, Reboot
<1>9. CASE FinalClear
  BY <1>9, RetriesAssumption DEF FinalClear, Stopping, Start
<1>10. CASE ResetRequired
  BY <1>10 DEF ResetRequired, AtLoop
<1>11. CASE TakeEvent
  BY <1>11, Taken, RetriesAssumption DEF TakeEvent, AtLoop, Start
<1>12. CASE Ping
  BY <1>12, RetriesAssumption DEF Ping, AtLoop, Start
<1>13. CASE PutClear
  BY <1>13, Appended DEF PutClear
<1>14. CASE NoPower
  BY <1>14 DEF NoPower, Processed, Unpowered
<1>15. CASE GiveUp
  BY <1>15, NothingQueued DEF GiveUp, Processed, Failed
<1>16. CASE Send
  BY <1>16 DEF Send, CanSend, Exhausted
<1>17. CASE SendFails
  BY <1>17, NothingQueued DEF SendFails, CanSend, Processed, Failed
<1>18. CASE Receive
  BY <1>18, OneLess DEF Receive, ReceiveDamaged, ReceiveNone, ReceivePong,
     ReceiveResetRequired, TryAgain, Processed
<1>19. CASE ReadTimeout
  BY <1>19, OneLess DEF ReadTimeout, TryAgain
<1>20. CASE Execute
  BY <1>20 DEF Execute, Respond
<1>21. CASE Repeat
  BY <1>21 DEF Repeat, Respond
<1>22. CASE RejectRequest
  BY <1>22 DEF RejectRequest, Respond
<1>23. CASE Deaf
  BY <1>23 DEF Deaf
<1>24. CASE Boot
  BY <1>24 DEF Boot, Reboot
<1>25. CASE PowerOff
  BY <1>25 DEF PowerOff, Reboot
<1>26. CASE PowerOn
  BY <1>26 DEF PowerOn
<1>27. CASE UNCHANGED vars
  BY <1>27 DEF vars
<1> QED
  BY <1>1, <1>2, <1>3, <1>4, <1>5, <1>6, <1>7, <1>8, <1>9, <1>10, <1>11, <1>12,
     <1>13, <1>14, <1>15, <1>16, <1>17, <1>18, <1>19, <1>20, <1>21, <1>22,
     <1>23, <1>24, <1>25, <1>26, <1>27 DEF Next, Calls, Subprocess, Firmware

\* Nothing else comes over the line, and the flags are flags.
LEMMA LineTypeStep ==
  ASSUME LineType, SubprocessType, McuTypes, [Next]_vars PROVE LineType'
<1> USE DEF LineType, SubprocessType, kvmd, flags, sub, mcu, line, ghosts
<1>1. ASSUME NEW state \in BOOLEAN, SendKeyEvent(state) PROVE LineType'
  BY <1>1 DEF SendKeyEvent, Call, QueueEvent
<1>2. CASE ClearEvents
  BY <1>2 DEF ClearEvents, Call, ClearAndQueue
<1>3. CASE SetParams
  BY <1>3 DEF SetParams, Call, ClearAndQueue
<1>4. CASE SetConnected
  BY <1>4 DEF SetConnected, Call, ClearAndQueue
<1>5. CASE Reset
  BY <1>5 DEF Reset, Call
<1>6. CASE Stop
  BY <1>6 DEF Stop
<1>7. CASE Put
  BY <1>7 DEF Put
<1>8. CASE WaitDevice
  <2>1. UNCHANGED <<config, stop, resetRequired, wanted, dropped, busy, wire, answer, slow>>
    BY <1>8 DEF WaitDevice
  <2>2. fw' = fw \/ fw' = "on"
    BY <1>8 DEF WaitDevice
  <2>3. (prev' = prev \/ prev' = "none") /\ held' \in BOOLEAN
    BY <1>8 DEF WaitDevice, Reboot
  <2>4. reset' \in BOOLEAN /\ online' \in BOOLEAN
    BY <1>8 DEF WaitDevice
  <2> QED
    BY <2>1, <2>2, <2>3, <2>4
<1>9. CASE FinalClear
  BY <1>9 DEF FinalClear, Stopping, Start
<1>10. CASE ResetRequired
  BY <1>10 DEF ResetRequired, AtLoop
<1>11. CASE TakeEvent
  BY <1>11 DEF TakeEvent, AtLoop, Start
<1>12. CASE Ping
  BY <1>12 DEF Ping, AtLoop, Start
<1>13. CASE PutClear
  BY <1>13 DEF PutClear
<1>14. CASE NoPower
  BY <1>14 DEF NoPower, Processed, Unpowered
<1>15. CASE GiveUp
  BY <1>15 DEF GiveUp, Processed, Failed
<1>16. CASE Send
  BY <1>16 DEF Send, CanSend
<1>17. CASE SendFails
  BY <1>17 DEF SendFails, CanSend, Processed, Failed
<1>18. CASE Receive
  <2>1. UNCHANGED <<config, stop, wanted, dropped, fw, prev, held, wire, slow>> /\ answer' = "nothing"
    BY <1>18 DEF Receive
  <2>2. online' \in BOOLEAN /\ resetRequired' \in BOOLEAN /\ reset' \in BOOLEAN
    BY <1>18 DEF Receive, ReceiveDamaged, ReceiveNone, ReceivePong, ReceiveResetRequired,
       TryAgain
  <2>3. busy' \in BOOLEAN
    BY <1>18 DEF Receive, ReceiveDamaged, ReceiveNone, ReceivePong, ReceiveResetRequired,
       TryAgain
  <2> QED
    BY <2>1, <2>2, <2>3
<1>19. CASE ReadTimeout
  BY <1>19 DEF ReadTimeout, TryAgain
<1>20. CASE Execute
  BY <1>20 DEF Execute, Respond
<1>21. CASE Repeat
  BY <1>21 DEF Repeat, Respond
<1>22. CASE RejectRequest
  BY <1>22 DEF RejectRequest, Respond
<1>23. CASE Deaf
  BY <1>23 DEF Deaf
<1>24. CASE Boot
  BY <1>24 DEF Boot, Reboot
<1>25. CASE PowerOff
  BY <1>25 DEF PowerOff, Reboot
<1>26. CASE PowerOn
  BY <1>26 DEF PowerOn
<1>27. CASE UNCHANGED vars
  BY <1>27 DEF vars
<1> QED
  BY <1>1, <1>2, <1>3, <1>4, <1>5, <1>6, <1>7, <1>8, <1>9, <1>10, <1>11, <1>12,
     <1>13, <1>14, <1>15, <1>16, <1>17, <1>18, <1>19, <1>20, <1>21, <1>22,
     <1>23, <1>24, <1>25, <1>26, <1>27 DEF Next, Calls, Subprocess, Firmware

-----------------------------------------------------------------------------
(* What follows for the microcontroller *)

\* At the start nothing is queued and nothing is on the line.
LEMMA McuInitIInv == Init => McuIInv /\ TypeOK /\ Attempts
<1> SUFFICES ASSUME Init PROVE McuIInv /\ TypeOK /\ Attempts
  OBVIOUS
<1>1. McuTypes
  BY NothingQueued DEF Init, McuTypes
<1>2. Done /\ Answers /\ EachEventOnce
  BY DEF Init, Done, Answers, EachEventOnce, UnderWay
<1>3. Ends
  BY NothingQueued DEF Init, Ends, WillBeUp, Up, UnderWay
<1>4. TypeOK /\ Attempts
  <2>1. [common |-> CommonRetries, read |-> ReadRetries]
          \in [common : 0 .. CommonRetries, read : 0 .. ReadRetries]
    BY RetriesAssumption
  <2>2. /\ pc = "wait" /\ queue = <<>>
        /\ {stop, resetRequired, busy, online, reset, held, wanted, dropped}
             \subseteq BOOLEAN
    BY DEF Init
  <2> QED
    BY <2>1, <2>2, NothingQueued DEF Init, TypeOK, Attempts, McuEvents
<1> QED
  BY <1>1, <1>2, <1>3, <1>4 DEF McuIInv

\* Every step keeps the invariant.
LEMMA McuNextIInv == McuIInv /\ [Next]_vars => McuIInv'
  BY McuTypesStep, DoneStep, AnswersStep, EndsStep DEF McuIInv

\* The invariant of the events and answers: every event is executed, answered and
\* given up as __process_request() sees it, whatever the line loses.
THEOREM McuInductive == Spec => []McuIInv
  BY McuInitIInv, McuNextIInv, PTL DEF Spec

\* The variables keep their types, and the numbers of attempts never fall below
\* zero (__process_request()).
THEOREM McuTypeCorrect == Spec => []TypeOK
<1>1. McuIInv /\ SubprocessType /\ LineType /\ Attempts /\ [Next]_vars
        => SubprocessType' /\ LineType' /\ Attempts'
  BY SubprocessTypeStep, LineTypeStep DEF McuIInv
<1>2. Init => SubprocessType /\ LineType /\ Attempts
  BY McuInitIInv, TypeParts DEF McuIInv
<1>3. McuIInv /\ SubprocessType /\ LineType => TypeOK
  BY TypeParts DEF McuIInv
<1> QED
  BY <1>1, <1>2, <1>3, McuInductive, PTL DEF Spec

\* At rest the host holds no key that the clients have let go, unless
\* set_connected() has dropped its end, and none after the last ClearEvent was
\* answered (__hid_loop()).
THEOREM McuNoStuckKeys == Spec => []NoStuckKeys
<1>1. McuIInv => NoStuckKeys
  <2> SUFFICES ASSUME McuIInv PROVE NoStuckKeys
    OBVIOUS
  <2>1. pc = "cleared" => ~held
    BY DEF McuIInv, Done
  <2>2. ASSUME Rest, fw = "on", held PROVE wanted \/ dropped
    <3>1. queue = <<>> /\ ~EndsUp(queue)
      BY <2>2, NothingQueued DEF Rest
    <3>2. ~WillBeUp
      BY <2>2, <3>1 DEF WillBeUp, Up, UnderWay, Rest
    <3> QED
      BY <2>2, <3>2 DEF McuIInv, Ends, Rest
  <2> QED
    BY <2>1, <2>2 DEF NoStuckKeys
<1> QED
  BY <1>1, McuInductive, PTL

\* The firmware executes an event once more for each answer that did not come, and
\* a positive answer is one to an event that was executed (__process_request()).
THEOREM McuEachEventOnce == Spec => []EachEventOnce
<1>1. McuIInv => EachEventOnce
  BY DEF McuIInv
<1> QED
  BY <1>1, McuInductive, PTL

-----------------------------------------------------------------------------
(* Gpio *)

Running ==
  [step : {"enter", "write", "release", "delay"}, ch : Outputs,
   op : {"on", "off", "pulse"}, wait : BOOLEAN]

\* The types, and that a button is only pulsed.
GpioTypes ==
  /\ level \in [Channels -> BOOLEAN]
  /\ offline \subseteq Devices
  /\ acts \in [Requests -> {Idle} \cup Running]
  /\ \A a \in Requests : acts[a] # Idle => acts[a].op = "pulse" \/ acts[a].ch \in Switches
  /\ notes \in {"none", "some", "full"}

GpioIInv == GpioTypes /\ OneAction /\ HeldByPulse /\ FailedAtTheEnd /\ ClientsKnow

-----------------------------------------------------------------------------

\* An idle request is not inside a region and has no step of an action.
LEMMA IdleIsOutside ==
  /\ Idle.step = "idle"
  /\ \A r \in Running : r.step # "idle" /\ r # Idle
<1>1. Idle.step = "idle"
  BY DEF Idle
<1>2. ASSUME NEW r \in Running PROVE r.step # "idle"
  BY DEF Running
<1> QED
  BY <1>1, <1>2

\* What clients see depends on no more than the lines, and on these only outside
\* of the regions.
LEMMA SeenChannels ==
  ASSUME entered' = entered, offline' = offline,
         \A ch \in Channels \ entered : level'[ch] = level[ch]
  PROVE  Current' = Current
<1>1. \A ch \in Channels : State(ch)' = State(ch)
  BY DEF State
<1> QED
  BY <1>1 DEF Current

\* When a notification is left, there is nothing to show about the clients.
LEMMA Notified == GpioTypes /\ Notify => notes' # "none"
  BY DEF GpioTypes, Notify

-----------------------------------------------------------------------------
(* The types *)

\* No step of a request leaves the types.
LEMMA TypesOfRequests ==
  ASSUME GpioTypes, Wiring, NEW a \in Requests,
         Switch(a) \/ Pulse(a) \/ PowerAction(a) \/ Refuse(a) \/ EnterRegion(a) \/ Write(a)
           \/ WriteFails(a) \/ Release(a) \/ ReleaseFails(a) \/ Finish(a)
  PROVE  GpioTypes'
<1>0. acts[a] \in {Idle} \cup Running
  BY DEF GpioTypes
<1>1. ASSUME NEW ch \in Outputs, NEW op \in {"on", "off", "pulse"}, op = "pulse" \/ ch \in Switches,
             Begin(a, ch, op)
      PROVE  GpioTypes'
  <2>1. PICK wait \in BOOLEAN : acts' = [acts EXCEPT ![a] = Action(ch, op, wait)]
    BY <1>1 DEF Begin
  <2>2. Action(ch, op, wait) \in Running /\ Action(ch, op, wait).op = op /\ Action(ch, op, wait).ch = ch
    BY <1>1 DEF Action, Running
  <2> QED
    BY <1>1, <2>1, <2>2 DEF GpioTypes, Begin, lines, poller
<1>2. CASE Switch(a)
  BY <1>1, <1>2 DEF Switch, Outputs
<1>3. CASE Pulse(a)
  BY <1>1, <1>3 DEF Pulse
<1>4. CASE PowerAction(a)
  BY <1>1, <1>4 DEF PowerAction, Wiring, Outputs
<1>5. ASSUME acts[a] # Idle, NEW step \in {"enter", "write", "release", "delay"}, GoTo(a, step)
      PROVE  /\ acts' \in [Requests -> {Idle} \cup Running]
             /\ \A b \in Requests : acts'[b] # Idle => acts'[b].op = "pulse" \/ acts'[b].ch \in Switches
  <2>1. acts[a] \in Running
    BY <1>0, <1>5
  <2>2. acts' = [acts EXCEPT ![a] = [acts[a] EXCEPT !.step = step]]
    BY <1>5 DEF GoTo
  <2>3. /\ [acts[a] EXCEPT !.step = step] \in Running
        /\ [acts[a] EXCEPT !.step = step].op = acts[a].op
        /\ [acts[a] EXCEPT !.step = step].ch = acts[a].ch
    BY <1>5, <2>1 DEF Running
  <2> QED
    BY <1>5, <2>2, <2>3 DEF GpioTypes
<1>6. ASSUME Ended(a)
      PROVE  /\ acts' \in [Requests -> {Idle} \cup Running]
             /\ \A b \in Requests : acts'[b] # Idle => acts'[b].op = "pulse" \/ acts'[b].ch \in Switches
  BY <1>6 DEF GpioTypes, Ended
<1>7. CASE Refuse(a)
  BY <1>6, <1>7 DEF GpioTypes, Refuse, Steps
<1>8. CASE EnterRegion(a)
  BY <1>5, <1>8 DEF GpioTypes, EnterRegion, Steps, Notify
<1>9. CASE Write(a)
  BY <1>5, <1>9 DEF GpioTypes, Write, Steps
<1>10. CASE WriteFails(a)
  BY <1>5, <1>6, <1>10 DEF GpioTypes, WriteFails, Steps, ExitRegion, Notify
<1>11. CASE Release(a)
  BY <1>5, <1>11 DEF GpioTypes, Release, Steps
<1>12. CASE ReleaseFails(a)
  BY <1>6, <1>12 DEF GpioTypes, ReleaseFails, Steps, ExitRegion, Notify
<1>13. CASE Finish(a)
  BY <1>6, <1>13 DEF GpioTypes, Finish, Steps, ExitRegion, Notify
<1> QED
  BY <1>2, <1>3, <1>4, <1>7, <1>8, <1>9, <1>10, <1>11, <1>12, <1>13

\* No step leaves the types.
LEMMA TypesStep == GpioTypes /\ Wiring /\ [GpioNext]_gpioVars => GpioTypes'
<1> SUFFICES ASSUME GpioTypes, Wiring, [GpioNext]_gpioVars PROVE GpioTypes'
  OBVIOUS
<1>1. ASSUME NEW ch \in Inputs, InputChanges(ch) PROVE GpioTypes'
  BY <1>1 DEF GpioTypes, InputChanges, Environment, Notify, Channels
<1>2. ASSUME NEW ch \in Devices, DriverChanges(ch) PROVE GpioTypes'
  BY <1>2 DEF GpioTypes, DriverChanges, Environment, Notify
<1>3. CASE Trigger
  BY <1>3 DEF GpioTypes, Trigger, lines
<1>4. CASE Poll
  BY <1>4 DEF GpioTypes, Poll, lines
<1>5. CASE Shutdown \/ StopTasks \/ Cleanup
  BY <1>5 DEF GpioTypes, Shutdown, StopTasks, Cleanup, lines, poller
<1>6. CASE UNCHANGED gpioVars
  BY <1>6 DEF GpioTypes, gpioVars, lines, poller
<1> QED
  BY <1>1, <1>2, <1>3, <1>4, <1>5, <1>6, TypesOfRequests DEF GpioNext

-----------------------------------------------------------------------------
(* One action inside of a region *)

\* Where nothing enters or leaves a region, OneAction holds on.
LEMMA SameInside ==
  ASSUME OneAction, entered' = entered,
         \A b \in Requests : Inside(b)' = Inside(b) /\ (Inside(b) => acts'[b].ch = acts[b].ch)
  PROVE  OneAction'
  BY DEF OneAction

\* An action begins or is refused outside of its region.
LEMMA OneActionOutside ==
  ASSUME GpioTypes, OneAction, NEW a \in Requests, ~Inside(a), entered' = entered,
         NEW r, acts' = [acts EXCEPT ![a] = r], r.step \notin {"write", "release", "delay"}
  PROVE  OneAction'
<1>1. acts'[a] = r /\ \A b \in Requests \ {a} : acts'[b] = acts[b]
  BY DEF GpioTypes
<1>2. \A b \in Requests : Inside(b)' = Inside(b) /\ (Inside(b) => acts'[b].ch = acts[b].ch)
  BY <1>1 DEF Inside
<1> QED
  BY <1>2, SameInside

\* An action goes on inside of its region.
LEMMA OneActionGoesOn ==
  ASSUME GpioTypes, OneAction, NEW a \in Requests, Inside(a), acts[a] # Idle, entered' = entered,
         NEW step \in {"write", "release", "delay"}, GoTo(a, step)
  PROVE  OneAction'
<1>1. acts[a] \in Running
  BY DEF GpioTypes
<1>2. acts' = [acts EXCEPT ![a] = [acts[a] EXCEPT !.step = step]]
  BY DEF GoTo
<1>3. acts'[a].step = step /\ acts'[a].ch = acts[a].ch /\ \A b \in Requests \ {a} : acts'[b] = acts[b]
  BY <1>1, <1>2 DEF GpioTypes, Running
<1>4. \A b \in Requests : Inside(b)' = Inside(b) /\ (Inside(b) => acts'[b].ch = acts[b].ch)
  BY <1>3 DEF Inside
<1> QED
  BY <1>4, SameInside

\* An action enters its region when nobody is in it.
LEMMA OneActionEnters ==
  ASSUME GpioTypes, OneAction, NEW a \in Requests, EnterRegion(a)
  PROVE  OneAction'
<1>1. acts[a] \in Running /\ acts[a].step = "enter" /\ acts[a].ch \notin entered
  BY DEF GpioTypes, EnterRegion, Steps
<1>2. acts' = [acts EXCEPT ![a] = [acts[a] EXCEPT !.step = "write"]]
  BY DEF EnterRegion, GoTo
<1>3. acts'[a].step = "write" /\ acts'[a].ch = acts[a].ch /\ \A b \in Requests \ {a} : acts'[b] = acts[b]
  BY <1>1, <1>2 DEF GpioTypes, Running
<1>4. ~Inside(a) /\ Inside(a)' /\ \A b \in Requests \ {a} : Inside(b)' = Inside(b)
  BY <1>1, <1>3 DEF Inside
<1>5. \A b \in Requests : Inside(b) => acts[b].ch # acts[a].ch
  BY <1>1 DEF OneAction
<1>6. entered' = entered \cup {acts[a].ch}
  BY DEF EnterRegion
<1>7. \A ch : ch \in entered' <=> \E b \in Requests : Inside(b)' /\ acts'[b].ch = ch
  BY <1>3, <1>4, <1>6 DEF OneAction
<1>8. \A b, c \in Requests : Inside(b)' /\ Inside(c)' /\ acts'[b].ch = acts'[c].ch => b = c
  BY <1>3, <1>4, <1>5 DEF OneAction
<1> QED
  BY <1>7, <1>8 DEF OneAction

\* An action leaves its region, in which nobody else was.
LEMMA OneActionLeaves ==
  ASSUME GpioTypes, OneAction, NEW a \in Requests, Inside(a), ExitRegion(a)
  PROVE  OneAction'
<1>1. acts'[a] = Idle /\ \A b \in Requests \ {a} : acts'[b] = acts[b]
  BY DEF GpioTypes, ExitRegion, Ended
<1>2. ~Inside(a)' /\ \A b \in Requests \ {a} : Inside(b)' = Inside(b)
  BY <1>1 DEF Inside, Idle
<1>3. \A b \in Requests \ {a} : Inside(b) => acts[b].ch # acts[a].ch
  BY DEF OneAction
<1>4. entered' = entered \ {acts[a].ch}
  BY DEF ExitRegion
<1>5. \A ch : ch \in entered' <=> \E b \in Requests : Inside(b)' /\ acts'[b].ch = ch
  BY <1>1, <1>2, <1>3, <1>4 DEF OneAction
<1>6. \A b, c \in Requests : Inside(b)' /\ Inside(c)' /\ acts'[b].ch = acts'[c].ch => b = c
  BY <1>1, <1>2 DEF OneAction
<1> QED
  BY <1>5, <1>6 DEF OneAction

\* Every step keeps OneAction.
LEMMA OneActionStep == GpioTypes /\ OneAction /\ [GpioNext]_gpioVars => OneAction'
<1> SUFFICES ASSUME GpioTypes, OneAction, [GpioNext]_gpioVars PROVE OneAction'
  OBVIOUS
<1>1. ASSUME UNCHANGED <<entered, acts>> PROVE OneAction'
  BY <1>1 DEF OneAction, Inside
<1>2. ASSUME NEW a \in Requests, NEW ch, NEW op, Begin(a, ch, op) PROVE OneAction'
  <2>1. PICK wait \in BOOLEAN : acts' = [acts EXCEPT ![a] = Action(ch, op, wait)]
    BY <1>2 DEF Begin
  <2>2. ~Inside(a) /\ entered' = entered
    BY <1>2 DEF Begin, Inside, Idle
  <2>3. Action(ch, op, wait).step = "enter"
    BY DEF Action
  <2> QED
    BY <2>1, <2>2, <2>3, OneActionOutside
<1>3. ASSUME NEW a \in Requests, Switch(a) \/ Pulse(a) \/ PowerAction(a) PROVE OneAction'
  BY <1>2, <1>3 DEF Switch, Pulse, PowerAction
<1>4. ASSUME NEW a \in Requests, Refuse(a) PROVE OneAction'
  <2>1. ~Inside(a) /\ entered' = entered /\ acts' = [acts EXCEPT ![a] = Idle]
    BY <1>4 DEF Refuse, Ended, Inside
  <2> QED
    BY <2>1, IdleIsOutside, OneActionOutside
<1>5. ASSUME NEW a \in Requests, Write(a) \/ Release(a) PROVE OneAction'
  BY <1>5, OneActionGoesOn DEF Write, Release, Steps, Inside
<1>6. ASSUME NEW a \in Requests, WriteFails(a) PROVE OneAction'
  BY <1>6, OneActionGoesOn, OneActionLeaves DEF WriteFails, Steps, Inside
<1>7. ASSUME NEW a \in Requests, ReleaseFails(a) \/ Finish(a) PROVE OneAction'
  BY <1>7, OneActionLeaves DEF ReleaseFails, Finish, Steps, Inside
<1>8. ASSUME (\E ch \in Inputs : InputChanges(ch)) \/ (\E ch \in Devices : DriverChanges(ch))
             \/ Trigger \/ Poll \/ Shutdown \/ StopTasks \/ Cleanup \/ UNCHANGED gpioVars
      PROVE  OneAction'
  BY <1>1, <1>8 DEF InputChanges, DriverChanges, Environment, Trigger, Poll, Shutdown,
     StopTasks, Cleanup, gpioVars
<1> QED
  BY <1>3, <1>4, <1>5, <1>6, <1>7, <1>8, OneActionEnters DEF GpioNext

-----------------------------------------------------------------------------
(* Buttons that are held *)

\* HeldByPulse holds on where no button is pressed, no failure is forgotten and
\* no action is past its release.
LEMMA StillHeld ==
  ASSUME HeldByPulse, failed \subseteq failed', initial \subseteq initial',
         \A ch \in Buttons : level'[ch] => level[ch],
         \A b \in Requests : acts[b].step = "release" =>
           acts'[b].step = "release" /\ acts'[b].ch = acts[b].ch
  PROVE  HeldByPulse'
  BY DEF HeldByPulse

\* As StillHeld, for a step that changes one action.
LEMMA HeldByOthers ==
  ASSUME GpioTypes, HeldByPulse, failed' = failed, initial' = initial, level' = level,
         NEW a \in Requests, acts[a].step # "release", NEW r, acts' = [acts EXCEPT ![a] = r]
  PROVE  HeldByPulse'
<1>1. \A b \in Requests \ {a} : acts'[b] = acts[b]
  BY DEF GpioTypes
<1> QED
  BY <1>1 DEF HeldByPulse

\* Every step keeps HeldByPulse.
LEMMA HeldByPulseStep == GpioTypes /\ Wiring /\ HeldByPulse /\ [GpioNext]_gpioVars => HeldByPulse'
<1> SUFFICES ASSUME GpioTypes, Wiring, HeldByPulse, [GpioNext]_gpioVars PROVE HeldByPulse'
  OBVIOUS
<1>1. ASSUME UNCHANGED <<level, failed, initial, acts>> PROVE HeldByPulse'
  BY <1>1 DEF HeldByPulse
<1>2. ASSUME NEW a \in Requests, NEW ch, NEW op, Begin(a, ch, op) PROVE HeldByPulse'
  <2>1. PICK wait \in BOOLEAN : acts' = [acts EXCEPT ![a] = Action(ch, op, wait)]
    BY <1>2 DEF Begin
  <2>2. acts[a].step # "release" /\ UNCHANGED <<level, failed, initial>>
    BY <1>2 DEF Begin, Idle, lines
  <2> QED
    BY <2>1, <2>2, HeldByOthers
<1>3. ASSUME NEW a \in Requests, Switch(a) \/ Pulse(a) \/ PowerAction(a) PROVE HeldByPulse'
  BY <1>2, <1>3 DEF Switch, Pulse, PowerAction
<1>4. ASSUME NEW a \in Requests, Refuse(a) \/ EnterRegion(a) \/ WriteFails(a) \/ Finish(a)
      PROVE  HeldByPulse'
  <2>1. acts[a].step # "release" /\ UNCHANGED <<level, failed, initial>>
    BY <1>4 DEF Refuse, EnterRegion, WriteFails, Finish
  <2>2. Ended(a) \/ (\E step : GoTo(a, step))
    BY <1>4 DEF Refuse, EnterRegion, WriteFails, Finish, ExitRegion
  <2>3. CASE Ended(a)
    BY <2>1, <2>3, HeldByOthers DEF Ended
  <2>4. ASSUME NEW step, GoTo(a, step) PROVE HeldByPulse'
    <3>1. acts' = [acts EXCEPT ![a] = [acts[a] EXCEPT !.step = step]]
      BY <2>4 DEF GoTo
    <3> QED
      BY <2>1, <3>1, HeldByOthers
  <2> QED
    BY <2>2, <2>3, <2>4
<1>5. ASSUME NEW a \in Requests, Write(a) PROVE HeldByPulse'
  <2>1. acts[a] \in Running /\ acts[a].step = "write"
    BY <1>5 DEF GpioTypes, Write, Steps
  <2>2. level' = [level EXCEPT ![acts[a].ch] = acts[a].op # "off"]
        /\ failed' = failed /\ initial' = initial \ {acts[a].ch}
    BY <1>5 DEF Write
  <2>3. \A b \in Requests \ {a} : acts'[b] = acts[b]
    BY <1>5 DEF GpioTypes, Write, GoTo
  <2>4. CASE acts[a].op = "pulse"
    <3>1. acts' = [acts EXCEPT ![a] = [acts[a] EXCEPT !.step = "release"]]
      BY <1>5, <2>4 DEF Write, GoTo
    <3>2. acts'[a].step = "release" /\ acts'[a].ch = acts[a].ch
      BY <2>1, <3>1 DEF GpioTypes, Running
    <3>3. \A ch \in Channels \ {acts[a].ch} : level'[ch] = level[ch]
      BY <2>2 DEF GpioTypes
    <3>4. \A ch \in Buttons : level'[ch] => ch = acts[a].ch \/ level[ch]
      BY <3>3 DEF Channels, Outputs
    <3> QED
      BY <2>1, <2>2, <2>3, <3>2, <3>4 DEF HeldByPulse
  <2>5. CASE acts[a].op # "pulse"
    <3>1. acts[a].ch \in Switches
      BY <1>5, <2>5 DEF GpioTypes, Write, Steps
    <3>2. \A ch \in Buttons : level'[ch] = level[ch] /\ ch # acts[a].ch
      BY <2>2, <3>1 DEF GpioTypes, Wiring, Channels, Outputs
    <3> QED
      BY <2>1, <2>2, <2>3, <3>2 DEF HeldByPulse
  <2> QED
    BY <2>4, <2>5
<1>6. ASSUME NEW a \in Requests, Release(a) PROVE HeldByPulse'
  <2>1. acts[a] \in Running
    BY <1>6 DEF GpioTypes, Release, Steps
  <2>2. level' = [level EXCEPT ![acts[a].ch] = FALSE]
        /\ failed' = failed \ {acts[a].ch} /\ initial' = initial \ {acts[a].ch}
    BY <1>6 DEF Release
  <2>3. \A b \in Requests \ {a} : acts'[b] = acts[b]
    BY <1>6 DEF GpioTypes, Release, GoTo
  <2>4. ~level'[acts[a].ch] /\ \A ch \in Channels \ {acts[a].ch} : level'[ch] = level[ch]
    BY <2>1, <2>2 DEF GpioTypes, Running, Channels
  <2>5. \A ch \in Buttons : level'[ch] => level[ch] /\ ch # acts[a].ch
    BY <2>4 DEF Channels, Outputs
  <2> QED
    BY <2>2, <2>3, <2>5 DEF HeldByPulse
<1>7. ASSUME NEW a \in Requests, ReleaseFails(a) PROVE HeldByPulse'
  <2>1. failed' = failed \cup {acts[a].ch} /\ initial' = initial /\ level' = level
    BY <1>7 DEF ReleaseFails
  <2>2. \A b \in Requests \ {a} : acts'[b] = acts[b]
    BY <1>7 DEF GpioTypes, ReleaseFails, ExitRegion, Ended
  <2> QED
    BY <2>1, <2>2 DEF HeldByPulse
<1>8. ASSUME NEW ch \in Inputs, InputChanges(ch) PROVE HeldByPulse'
  <2>1. \A out \in Buttons : level'[out] = level[out]
    BY <1>8 DEF InputChanges, GpioTypes, Wiring, Channels, Outputs
  <2>2. failed' = failed /\ initial' = initial /\ acts' = acts
    BY <1>8 DEF InputChanges, Environment
  <2> QED
    BY <2>1, <2>2 DEF HeldByPulse
<1>9. ASSUME (\E ch \in Devices : DriverChanges(ch))
             \/ Trigger \/ Poll \/ Shutdown \/ StopTasks \/ Cleanup \/ UNCHANGED gpioVars
      PROVE  HeldByPulse'
  BY <1>1, <1>9 DEF DriverChanges, Environment, Trigger, Poll, Shutdown,
     StopTasks, Cleanup, gpioVars, lines
<1> QED
  BY <1>3, <1>4, <1>5, <1>6, <1>7, <1>8, <1>9 DEF GpioNext

\* Every step keeps FailedAtTheEnd.
LEMMA FailedAtTheEndStep == GpioTypes /\ FailedAtTheEnd /\ [GpioNext]_gpioVars => FailedAtTheEnd'
<1> SUFFICES ASSUME GpioTypes, FailedAtTheEnd, [GpioNext]_gpioVars PROVE FailedAtTheEnd'
  OBVIOUS
<1>1. ASSUME failed' \subseteq failed, stage = "clean" => stage' = "clean" PROVE FailedAtTheEnd'
  BY <1>1 DEF FailedAtTheEnd
<1>2. ASSUME NEW a \in Requests, ReleaseFails(a) PROVE FailedAtTheEnd'
  BY <1>2 DEF ReleaseFails, Steps, Writable, GpioTypes, FailedAtTheEnd
<1>3. ASSUME NEW a \in Requests, Switch(a) \/ Pulse(a) \/ PowerAction(a) PROVE FailedAtTheEnd'
  BY <1>1, <1>3 DEF Switch, Pulse, PowerAction, Begin, lines, daemon
<1>4. ASSUME NEW a \in Requests,
             Refuse(a) \/ EnterRegion(a) \/ Write(a) \/ WriteFails(a) \/ Release(a) \/ Finish(a)
      PROVE  FailedAtTheEnd'
  BY <1>1, <1>4 DEF Refuse, EnterRegion, Write, WriteFails, Release, Finish,
     Steps
<1>5. ASSUME (\E ch \in Inputs : InputChanges(ch)) \/ (\E ch \in Devices : DriverChanges(ch))
             \/ Trigger \/ Poll \/ Shutdown \/ StopTasks \/ Cleanup \/ UNCHANGED gpioVars
      PROVE  FailedAtTheEnd'
  BY <1>1, <1>5 DEF InputChanges, DriverChanges, Environment, Trigger, Poll, Shutdown,
     StopTasks, Cleanup, gpioVars, lines, daemon
<1> QED
  BY <1>2, <1>3, <1>4, <1>5 DEF GpioNext

-----------------------------------------------------------------------------
(* What the clients know *)

\* Every step keeps ClientsKnow: what moves without a notification is in a region.
LEMMA ClientsKnowStep ==
  GpioTypes /\ OneAction /\ ClientsKnow /\ [GpioNext]_gpioVars => ClientsKnow'
<1> SUFFICES ASSUME GpioTypes, OneAction, ClientsKnow, [GpioNext]_gpioVars PROVE ClientsKnow'
  OBVIOUS
<1>1. ASSUME notes' # "none" PROVE ClientsKnow'
  BY <1>1 DEF ClientsKnow
<1>2. ASSUME UNCHANGED <<notes, known, entered, offline>>,
             \A ch \in Channels \ entered : level'[ch] = level[ch]
      PROVE  ClientsKnow'
  BY <1>2, SeenChannels DEF ClientsKnow
<1>3. ASSUME NEW a \in Requests, Switch(a) \/ Pulse(a) \/ PowerAction(a) PROVE ClientsKnow'
  BY <1>2, <1>3 DEF Switch, Pulse, PowerAction, Begin, lines, poller
<1>4. ASSUME NEW a \in Requests, Refuse(a) PROVE ClientsKnow'
  BY <1>2, <1>4 DEF Refuse, Steps
<1>5. ASSUME NEW a \in Requests, EnterRegion(a) \/ ReleaseFails(a) \/ Finish(a) PROVE ClientsKnow'
  BY <1>1, <1>5, Notified DEF EnterRegion, ReleaseFails, Finish, ExitRegion
<1>6. ASSUME NEW a \in Requests, WriteFails(a) PROVE ClientsKnow'
  BY <1>1, <1>2, <1>6, Notified DEF WriteFails, Steps, ExitRegion
<1>7. ASSUME NEW a \in Requests, Write(a) \/ Release(a) PROVE ClientsKnow'
  <2>1. acts[a].ch \in entered
    BY <1>7 DEF Write, Release, OneAction, Inside
  <2>2. \A ch \in Channels \ entered : level'[ch] = level[ch]
    BY <1>7, <2>1 DEF Write, Release, GpioTypes
  <2> QED
    BY <1>2, <1>7, <2>2 DEF Write, Release, Steps
<1>8. ASSUME (\E ch \in Inputs : InputChanges(ch)) \/ (\E ch \in Devices : DriverChanges(ch))
      PROVE  ClientsKnow'
  BY <1>1, <1>8, Notified DEF InputChanges, DriverChanges, Environment
<1>9. CASE Trigger
  BY <1>1, <1>9 DEF Trigger
<1>10. CASE Poll
  <2>1. Current' = Current
    BY <1>10, SeenChannels DEF Poll, lines
  <2>2. known' = Current
    BY <1>10 DEF Poll, Current
  <2> QED
    BY <2>1, <2>2 DEF ClientsKnow
<1>11. CASE Shutdown \/ StopTasks \/ Cleanup \/ UNCHANGED gpioVars
  BY <1>2, <1>11 DEF Shutdown, StopTasks, Cleanup, gpioVars, lines, poller
<1> QED
  BY <1>3, <1>4, <1>5, <1>6, <1>7, <1>8, <1>9, <1>10, <1>11 DEF GpioNext

-----------------------------------------------------------------------------
(* The theorems *)

\* The invariant holds at the start.
LEMMA GpioInitIInv == GpioInit => GpioIInv
<1> SUFFICES ASSUME GpioInit PROVE GpioIInv
  OBVIOUS
<1>1. \A a \in Requests : acts[a] = Idle /\ ~Inside(a)
  BY DEF GpioInit, Inside, Idle
<1>2. GpioTypes
  BY <1>1 DEF GpioInit, GpioTypes
<1>3. OneAction
  BY <1>1 DEF GpioInit, OneAction
<1>4. HeldByPulse /\ FailedAtTheEnd /\ ClientsKnow
  BY DEF GpioInit, HeldByPulse, FailedAtTheEnd, ClientsKnow
<1> QED
  BY <1>2, <1>3, <1>4 DEF GpioIInv

\* The invariant holds always, however the lines are wired.
LEMMA GpioInductive == Wiring => (GpioSpec => []GpioIInv)
<1> SUFFICES ASSUME Wiring PROVE GpioSpec => []GpioIInv
  OBVIOUS
<1>1. GpioIInv /\ [GpioNext]_gpioVars => GpioIInv'
  BY TypesStep, OneActionStep, HeldByPulseStep, FailedAtTheEndStep,
     ClientsKnowStep DEF GpioIInv
<1> QED
  BY <1>1, GpioInitIInv, PTL DEF GpioSpec

\* A region lets one action in, and is left by every action, whatever fails in
\* it: an output is busy exactly while one action drives it (AioExclusiveRegion).
THEOREM RegionsExclude == Wiring => (GpioSpec => []OneAction)
<1>1. GpioIInv => OneAction
  BY DEF GpioIInv
<1> QED
  BY <1>1, GpioInductive, PTL

\* No button is held without a pulse that is going to let it go (the finally of
\* __inner_click() and __inner_pulse()), but when its driver failed there, or when
\* it began pressed and nothing has driven it yet.
THEOREM ButtonsAreLetGo == Wiring => (GpioSpec => []HeldByPulse)
<1>1. GpioIInv => HeldByPulse
  BY DEF GpioIInv
<1> QED
  BY <1>1, GpioInductive, PTL

\* A line of KVMD's own is let go unless the daemon released it before.
THEOREM OwnLinesFailAtTheEnd == Wiring => (GpioSpec => []FailedAtTheEnd)
<1>1. GpioIInv => FailedAtTheEnd
  BY DEF GpioIInv
<1> QED
  BY <1>1, GpioInductive, PTL

\* The pollers miss nothing: without a notification in the queue, the clients
\* know the levels and who is busy (poll_state()).
THEOREM NothingIsMissed == Wiring => (GpioSpec => []ClientsKnow)
<1>1. GpioIInv => ClientsKnow
  BY DEF GpioIInv
<1> QED
  BY <1>1, GpioInductive, PTL

=============================================================================
