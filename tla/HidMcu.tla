-------------------------------- MODULE HidMcu --------------------------------
(***************************************************************************)
(* A keyboard and a mouse behind a microcontroller: the queue of KVMD and  *)
(* its subprocess (kvmd/plugins/hid/_mcu/__init__.py) on one side of a     *)
(* serial line (serial.py), the firmware of Pico HID (hid/pico/src/main.c) *)
(* on the other.  There is one key; a press stands for every event that    *)
(* must not be done twice.                                                 *)
(***************************************************************************)
EXTENDS Integers, Sequences

CONSTANTS
  CommonRetries,  \* attempts at a request
  ReadRetries,    \* attempts without any answer
  Configs,        \* [resetSelf, resetPin, powerPin]: what the board has
  MaxCalls,       \* bound on calls
  MaxFaults       \* bound on faults of the line, of the port and of the power

ASSUME RetriesAssumption == CommonRetries \in Nat /\ ReadRetries \in Nat

VARIABLES
  config,         \* of this board
  queue,          \* __events_q
  put,            \* the event KVMD is about to put into the cleared queue
  stop,           \* __stop_event
  resetRequired,  \* __reset_required_event
  busy, online,   \* __state_flags
  pc,             \* of the subprocess
  event,          \* what it is sending
  request,        \* "event", or "repeat" after a damaged answer
  tries,          \* common_retries and read_retries
  reset,          \* reset the microcontroller before the next connection
  fw,             \* the firmware: "on", "rebooting" or "off"
  prev,           \* prev_code: "none", "error" or "pong"
  held,           \* the key is down on the host
  wire,           \* the request under way: "nothing", "event", "repeat" or "damaged"
  answer,         \* what can be read from the port
  slow,           \* an answer that comes too late
  wanted,         \* the key is down as far as the clients know
  dropped,        \* the release of the key was dropped by set_connected()
  runs,           \* how often the event was executed
  lost,           \* how many answers to it did not come in time
  left            \* calls and faults that may still come

kvmd == <<queue, put, stop, resetRequired, wanted, dropped>>
flags == <<busy, online>>
sub == <<pc, event, request, tries, reset>>
mcu == <<fw, prev, held>>
line == <<wire, answer, slow>>
ghosts == <<runs, lost>>
vars == <<config, kvmd, flags, sub, mcu, line, ghosts, left>>

Spend(what) == left[what] > 0 /\ left' = [left EXCEPT ![what] = @ - 1]
Fault == Spend("faults")

-----------------------------------------------------------------------------
(* KVMD *)

Call ==
  /\ ~stop /\ put = "nothing" /\ Spend("calls")
  /\ UNCHANGED <<config, stop, flags, sub, mcu, line, ghosts>>

\* __queue_event()
QueueEvent(e) == queue' = Append(queue, e) /\ UNCHANGED put

\* __queue_event(clear=True): the queue is cleared, and the event put into it in
\* a step of its own.
ClearAndQueue(e) == queue' = <<>> /\ put' = e

SendKeyEvent(state) ==
  /\ Call
  /\ QueueEvent(IF state THEN "press" ELSE "release")
  /\ wanted' = state
  /\ UNCHANGED <<resetRequired, dropped>>

ClearEvents ==
  /\ Call
  /\ ClearAndQueue("clear")
  /\ wanted' = FALSE
  /\ UNCHANGED <<resetRequired, dropped>>

SetParams ==
  /\ Call
  /\ ClearAndQueue("set")
  /\ UNCHANGED <<resetRequired, wanted, dropped>>

\* Whatever in the queue would have released the key is gone.
SetConnected ==
  /\ Call
  /\ ClearAndQueue("connect")
  /\ dropped' = (dropped \/ \E i \in DOMAIN queue : queue[i] \in {"release", "clear", "set"})
  /\ UNCHANGED <<resetRequired, wanted>>

Reset ==
  /\ Call
  /\ resetRequired' = TRUE
  /\ UNCHANGED <<queue, put, wanted, dropped>>

Put ==
  /\ put # "nothing"
  /\ queue' = Append(queue, put) /\ put' = "nothing"
  /\ UNCHANGED <<config, stop, resetRequired, wanted, dropped, flags, sub, mcu, line, ghosts, left>>

\* cleanup()
Stop ==
  /\ ~stop /\ put = "nothing"
  /\ stop' = TRUE
  /\ UNCHANGED <<config, queue, put, resetRequired, wanted, dropped, flags, sub, mcu, line,
                 ghosts, left>>

-----------------------------------------------------------------------------
(* The loop of the subprocess *)

Reboot == prev' = "none" /\ held' = FALSE

\* __hid_loop_wait_device()
WaitDevice ==
  /\ pc = "wait" /\ ~stop
  /\ IF reset /\ config.resetPin /\ fw # "off"
       THEN fw' = "on" /\ Reboot
       ELSE UNCHANGED mcu
  /\ \/ pc' = "loop" /\ reset' = TRUE /\ UNCHANGED <<online, left>>
     \/ online' = FALSE /\ Fault /\ UNCHANGED <<pc, reset>>
  /\ UNCHANGED <<config, kvmd, busy, event, request, tries, line, ghosts>>

Start(e) ==
  /\ event' = e /\ request' = "event"
  /\ tries' = [common |-> CommonRetries, read |-> ReadRetries]
  /\ runs' = 0 /\ lost' = 0
  /\ pc' = "send"
  /\ UNCHANGED reset

Stopping == stop /\ (pc = "wait" \/ (pc = "loop" /\ queue = <<>>))

\* Every break of the loop ends here when the process is to stop: a last
\* ClearEvent, which is not answered to.
FinalClear ==
  /\ Stopping
  /\ Start("final")
  /\ UNCHANGED <<config, kvmd, flags, mcu, line, left>>

AtLoop == pc = "loop" /\ ~Stopping

\* The event is not cleared.
ResetRequired_Again ==
  /\ AtLoop /\ resetRequired
  /\ busy' = TRUE
  /\ pc' = "wait"
  /\ UNCHANGED <<config, kvmd, online, event, request, tries, reset, mcu, line, ghosts, left>>

\* It falls through to the reset in __hid_loop_wait_device().
ResetRequired ==
  /\ AtLoop /\ resetRequired
  /\ busy' = TRUE
  /\ resetRequired' = FALSE
  /\ pc' = "wait"
  /\ UNCHANGED <<config, queue, put, stop, wanted, dropped, online, event, request, tries, reset,
                 mcu, line, ghosts, left>>

TakeEvent ==
  /\ AtLoop /\ ~resetRequired /\ queue # <<>>
  /\ Start(Head(queue))
  /\ queue' = Tail(queue)
  /\ busy' = (busy \/ Head(queue) = "set")
  /\ UNCHANGED <<config, put, stop, resetRequired, wanted, dropped, online, mcu, line, left>>

\* Nothing came for 0.1 seconds.
Ping ==
  /\ AtLoop /\ ~resetRequired /\ queue = <<>>
  /\ Start("ping")
  /\ UNCHANGED <<config, kvmd, flags, mcu, line, left>>

\* The second half of clear_events() in the subprocess.
PutClear ==
  /\ pc \in {"clear", "clear_wait"}
  /\ queue' = Append(queue, "clear")
  /\ pc' = IF pc = "clear" THEN "loop" ELSE "wait"
  /\ UNCHANGED <<config, put, stop, resetRequired, wanted, dropped, flags, event, request, tries,
                 reset, mcu, line, ghosts, left>>

-----------------------------------------------------------------------------
(* __process_request() *)

\* It returned True, or is about a ping, or raised _SelfResetError.
Processed(next) ==
  /\ pc' = IF event = "final" THEN "gave_up" ELSE next
  /\ UNCHANGED queue

\* The queue is cleared even after a stop.
Failed_AfterStop(next) ==
  IF event = "final"
    THEN Processed(next)
    ELSE /\ pc' = IF next = "loop" THEN "clear" ELSE "clear_wait"
         /\ queue' = <<>>

\* The release is lost with the rest, and nothing is put in their place.
Failed_NoClear(next) ==
  /\ pc' = IF event = "final" THEN "gave_up" ELSE next
  /\ queue' = IF stop \/ event = "final" THEN queue ELSE <<>>

\* It failed: clear_events(), which does nothing any more after a stop.
Failed(next) ==
  IF stop \/ event = "final"
    THEN Processed(next)
    ELSE /\ pc' = IF next = "loop" THEN "clear" ELSE "clear_wait"
         /\ queue' = <<>>

Unpowered == config.powerPin /\ fw = "off"

\* No attempt at the request is left.
Exhausted == tries.common = 0 \/ tries.read = 0

\* The event is dropped.
NoPower ==
  /\ pc = "send" /\ Unpowered
  /\ online' = FALSE
  /\ Processed("loop")
  /\ UNCHANGED <<config, put, stop, resetRequired, wanted, dropped, busy, event, request, tries,
                 reset, mcu, line, ghosts, left>>

GiveUp ==
  /\ pc = "send" /\ ~Unpowered /\ Exhausted
  /\ IF event = "ping" THEN Processed("loop") ELSE Failed("loop")
  /\ UNCHANGED <<config, put, stop, resetRequired, wanted, dropped, flags, event, request, tries,
                 reset, mcu, line, ghosts, left>>

CanSend == pc = "send" /\ ~Unpowered /\ ~Exhausted

\* send(): what came late is thrown away first.
Send ==
  /\ CanSend
  /\ answer' = "nothing" /\ UNCHANGED slow
  /\ \/ wire' = request /\ UNCHANGED left
     \/ Fault /\ wire' \in {"nothing", "damaged"}
  /\ pc' = "await"
  /\ UNCHANGED <<config, kvmd, flags, event, request, tries, reset, mcu, ghosts>>

\* The port raises an exception: all events are cleared, and it starts over.
SendFails ==
  /\ CanSend /\ Fault
  /\ Failed("wait")
  /\ UNCHANGED <<config, put, stop, resetRequired, wanted, dropped, flags, event, request, tries,
                 reset, mcu, line, ghosts>>

\* _TempRequestError
TryAgain(noAnswer) ==
  /\ tries' = [common |-> tries.common - 1, read |-> tries.read - noAnswer]
  /\ online' = FALSE
  /\ pc' = "send"
  /\ UNCHANGED <<queue, resetRequired, busy, reset>>

\* The request is sent again instead.
ReceiveDamaged_SendAgain ==
  /\ answer = "damaged"
  /\ request' = "event"
  /\ TryAgain(0)

ReceiveDamaged ==
  /\ answer = "damaged"
  /\ request' = "repeat"
  /\ TryAgain(0)

\* _PermRequestError: the firmware was rebooted.
ReceiveNone ==
  /\ answer = "none"
  /\ online' = (online /\ ~Unpowered)
  /\ Processed("loop")
  /\ UNCHANGED <<request, tries, resetRequired, busy, reset>>

\* __set_state_pong()
ReceivePong ==
  /\ answer = "pong"
  /\ online' = TRUE /\ busy' = FALSE
  /\ pc' = IF event = "final" THEN "cleared" ELSE "loop"
  /\ UNCHANGED <<queue, request, tries, resetRequired, reset>>

\* The microcontroller reboots by itself, or is to be reset.
ReceiveResetRequired ==
  /\ answer = "pong_reset"
  /\ online' = TRUE /\ busy' = TRUE
  /\ IF config.resetSelf
       THEN Processed("wait") /\ reset' = FALSE /\ UNCHANGED resetRequired
       ELSE Processed("loop") /\ resetRequired' = TRUE /\ UNCHANGED reset
  /\ UNCHANGED <<request, tries>>

Receive ==
  /\ pc = "await" /\ answer # "nothing"
  /\ \/ answer = "error" /\ TryAgain(0) /\ UNCHANGED request
     \/ ReceiveDamaged \/ ReceiveNone \/ ReceivePong \/ ReceiveResetRequired
  /\ answer' = "nothing"
  /\ UNCHANGED <<config, put, stop, wanted, dropped, event, mcu, wire, slow, ghosts, left>>

\* read_timeout: an answer comes afterwards, but before the next attempt.
ReadTimeout ==
  /\ pc = "await" /\ wire = "nothing" /\ answer = "nothing"
  /\ TryAgain(1)
  /\ answer' = slow /\ slow' = "nothing"
  /\ UNCHANGED <<config, put, stop, wanted, dropped, event, request, mcu, wire, ghosts, left>>

Subprocess ==
  \/ WaitDevice \/ FinalClear \/ ResetRequired \/ TakeEvent \/ Ping \/ PutClear
  \/ NoPower \/ GiveUp \/ Send \/ SendFails \/ Receive \/ ReadTimeout

-----------------------------------------------------------------------------
(* The firmware *)

\* _send_response(): the line may lose, damage or delay it.
Respond(code) ==
  /\ wire' = "nothing"
  /\ \/ answer' = code /\ UNCHANGED <<slow, lost, left>>
     \/ Fault /\ answer' = "damaged" /\ UNCHANGED <<slow, lost>>
     \/ Fault /\ lost' = lost + 1 /\ slow' \in {"nothing", code} /\ UNCHANGED answer

Releases(e) == e \in {"release", "clear", "final"}

\* _handle_request() of a command, and a reboot if it changes an output.
Execute ==
  /\ fw = "on" /\ wire = "event"
  /\ held' = (event = "press" \/ (held /\ ~Releases(event)))
  /\ dropped' = (dropped /\ ~Releases(event))
  /\ prev' = "pong"
  /\ fw' = IF event = "set" THEN "rebooting" ELSE "on"
  /\ runs' = runs + 1
  /\ Respond(IF event = "set" THEN "pong_reset" ELSE "pong")
  /\ UNCHANGED <<config, queue, put, stop, resetRequired, wanted, flags, sub>>

Repeat ==
  /\ fw = "on" /\ wire = "repeat"
  /\ Respond(prev)
  /\ UNCHANGED <<config, kvmd, flags, sub, mcu, runs>>

\* A wrong checksum, or a part of a request and then nothing for 0.1 seconds.
RejectRequest ==
  /\ fw = "on" /\ wire = "damaged"
  /\ prev' = "error"
  /\ Respond("error")
  /\ UNCHANGED <<config, kvmd, flags, sub, fw, held, runs>>

Deaf ==
  /\ fw # "on" /\ wire # "nothing"
  /\ wire' = "nothing"
  /\ UNCHANGED <<config, kvmd, flags, sub, mcu, answer, slow, ghosts, left>>

\* The watchdog, 0.1 seconds after the answer.
Boot ==
  /\ fw = "rebooting"
  /\ fw' = "on" /\ Reboot
  /\ UNCHANGED <<config, kvmd, flags, sub, line, ghosts, left>>

Firmware == Execute \/ Repeat \/ RejectRequest \/ Deaf \/ Boot

PowerOff ==
  /\ fw # "off" /\ Fault
  /\ fw' = "off" /\ Reboot
  /\ UNCHANGED <<config, kvmd, flags, sub, line, ghosts>>

PowerOn ==
  /\ fw = "off"
  /\ fw' = "on"
  /\ UNCHANGED <<config, kvmd, flags, sub, prev, held, line, ghosts, left>>

-----------------------------------------------------------------------------

Init ==
  /\ config \in Configs
  /\ queue = <<>> /\ put = "nothing" /\ stop = FALSE /\ resetRequired = FALSE
  /\ busy = FALSE /\ online = FALSE
  /\ pc = "wait" /\ event = "ping" /\ request = "event" /\ reset = TRUE
  /\ tries = [common |-> CommonRetries, read |-> ReadRetries]
  /\ fw \in {"on", "off"} /\ prev = "none" /\ held = FALSE
  /\ wire = "nothing" /\ answer = "nothing" /\ slow = "nothing"
  /\ wanted = FALSE /\ dropped = FALSE /\ runs = 0 /\ lost = 0
  /\ left = [calls |-> MaxCalls, faults |-> MaxFaults]

Calls ==
  \/ \E state \in BOOLEAN : SendKeyEvent(state)
  \/ ClearEvents \/ SetParams \/ SetConnected \/ Reset \/ Stop

Next == Calls \/ Put \/ Subprocess \/ Firmware \/ PowerOff \/ PowerOn

Spec == Init /\ [][Next]_vars

\* The processes go on, and the firmware answers.  Nobody has to call, and the
\* power does not have to come back.
FairSpec == Spec /\ WF_vars(Subprocess) /\ WF_vars(Firmware) /\ WF_vars(Boot) /\ WF_vars(Put)

-----------------------------------------------------------------------------

TypeOK ==
  /\ config \in Configs
  /\ queue \in Seq({"press", "release", "clear", "set", "connect"})
  /\ put \in {"nothing", "clear", "set", "connect"}
  /\ pc \in {"wait", "loop", "send", "await", "clear", "clear_wait", "cleared", "gave_up"}
  /\ event \in {"ping", "press", "release", "clear", "set", "connect", "final"}
  /\ request \in {"event", "repeat"}
  /\ tries \in [common : 0 .. CommonRetries, read : 0 .. ReadRetries]
  /\ fw \in {"on", "rebooting", "off"} /\ prev \in {"none", "error", "pong"}
  /\ wire \in {"nothing", "event", "repeat", "damaged"}
  /\ {answer, slow} \subseteq {"nothing", "damaged", "none", "error", "pong", "pong_reset"}
  /\ wire # "nothing" \/ slow # "nothing" => pc = "await"
  /\ {stop, resetRequired, busy, online, reset, held, wanted, dropped} \subseteq BOOLEAN

Rest == ~stop /\ pc = "loop" /\ queue = <<>> /\ put = "nothing" /\ ~resetRequired

\* When all is done, the host does not hold a key that the clients have
\* released, whatever was lost, given up, cleared or reset on the way, and no
\* key at all after a last ClearEvent that was answered.  set_connected() is
\* the exception: it drops a release and puts nothing in its place.
NoStuckKeys ==
  /\ Rest /\ fw = "on" /\ held => wanted \/ dropped
  /\ pc = "cleared" => ~held

\* The firmware does not execute an event again because its answer was damaged:
\* it takes an answer that did not come; and a positive answer is one to this
\* event, which was executed.
EachEventOnce ==
  /\ runs <= 1 + lost
  /\ pc = "await" /\ answer \in {"pong", "pong_reset"} => runs > 0

\* With a microcontroller that is there, KVMD finds its way to a state in which
\* it is online and not busy and all events are dealt with, again and again
\* until it is stopped; without one it is offline for good.
Settles ==
  /\ <>[](fw # "off") => []<>((Rest /\ online /\ ~busy) \/ stop)
  /\ <>[](fw = "off") => <>[](~online \/ stop)

\* A stop comes to an end, in whatever state it finds the process.
Stops == stop ~> pc \in {"cleared", "gave_up"}

=============================================================================
