-------------------------------- MODULE HidOtg --------------------------------
(***************************************************************************)
(* A keyboard and two mice of the USB gadget (kvmd/plugins/hid/otg): the   *)
(* calls of KVMD (__init__.py), and one process per device (device.py)     *)
(* that makes reports of the events (keyboard.py, mouse.py) and writes     *)
(* them to the host.  A report is the keys or buttons that are down; where *)
(* the pointer is, the wheel and the LEDs are left out.                    *)
(* The mode "usb_win98", which is the mouse of "usb", is left out too.     *)
(***************************************************************************)
EXTENDS Integers, Sequences, FiniteSets

CONSTANTS
  Keyboard,    \* a device
  Modes,       \* of the mouse
  FirstMode,   \* the mode it starts with
  Mouse,       \* the device of each mode
  Keys, Mods,  \* of the keyboard: keys, and those of them that are modifiers
  Buttons,     \* of a mouse
  Slots,       \* keys in a report, six of them
  WriteRetries,  \* write_retries
  MaxCalls,    \* bound on calls
  MaxChanges   \* bound on changes of the port

Mice == {Mouse[m] : m \in Modes}
Devices == {Keyboard} \cup Mice

ASSUME HidOtgAssumption ==
  /\ FirstMode \in Modes /\ Keyboard \notin Mice
  /\ Slots \in Nat \ {0} /\ WriteRetries \in Nat

VARIABLES
  mode,     \* of the mouse
  stop,     \* __stop_event of all devices
  queue,    \* __events_q
  pc,       \* of each process: "loop", "off" or "done", after the cleanup
  pending,  \* what the event still has to report
  pressed,  \* what the process holds down, and its last report
  retries,  \* attempts left at that report
  online,   \* the flag
  port,     \* "ready", "suspended" or "unplugged"
  host,     \* what is down on the host
  fresh,    \* devices the host has had no report of since it was plugged in
  wanted,   \* what the clients hold down
  left      \* calls and changes that may still come

device == <<pc, pending, pressed, retries>>
outside == <<port, left>>
vars == <<mode, stop, queue, device, online, port, host, fresh, wanted, left>>

Spend(what) == left[what] > 0 /\ left' = [left EXCEPT ![what] = @ - 1]

-----------------------------------------------------------------------------
(* Calls *)

Call == ~stop /\ Spend("calls") /\ UNCHANGED <<stop, device, online, port, host, fresh>>

Clear == [type |-> "clear"]
Key(k, state) == [type |-> "key", key |-> k, state |-> state]

\* send_key_event() and send_button_event()
SendEvent(d, k, state) ==
  /\ Call
  /\ queue' = [queue EXCEPT ![d] = Append(@, Key(k, state))]
  /\ wanted' = [wanted EXCEPT ![d] = IF state THEN @ \cup {k} ELSE @ \ {k}]
  /\ UNCHANGED mode

SendKeyEvent(k, state) == SendEvent(Keyboard, k, state)

SendMouseButtonEvent(b, state) == SendEvent(Mouse[mode], b, state)

\* A clear or reset event, after what was in the queue is gone.  Only the
\* process takes events out of the queue meanwhile.
ClearDevices(ds) ==
  /\ queue' = [d \in Devices |-> IF d \in ds THEN <<Clear>> ELSE queue[d]]
  /\ wanted' = [d \in Devices |-> IF d \in ds THEN {} ELSE wanted[d]]

\* clear_events() and reset()
ClearEvents == Call /\ ClearDevices(Devices) /\ UNCHANGED mode

\* The buttons stay down where they are.
SetParams_NoClear(m) ==
  /\ Call /\ m # mode
  /\ mode' = m
  /\ wanted' = [wanted EXCEPT ![Mouse[mode]] = {}]
  /\ UNCHANGED queue

\* set_params(): the mouse that was current lets go of its buttons.
SetParams(m) ==
  /\ Call /\ m # mode
  /\ ClearDevices({Mouse[mode]})
  /\ mode' = m

\* cleanup()
Stop ==
  /\ ~stop /\ stop' = TRUE
  /\ UNCHANGED <<mode, queue, device, online, host, fresh, wanted, outside>>

-----------------------------------------------------------------------------
(* Events and their reports *)

\* There is no free slot for a new key: all but the modifiers are let go.
Full(d, k) ==
  d = Keyboard /\ k \notin Mods /\ Cardinality(pressed[d] \ Mods) >= Slots

\* What is down in each report of _process_event().  A key that is down is let
\* go first, and pressed again.
Reports(d, e) ==
  IF e.type = "clear" THEN <<{}>>
  ELSE LET k == e.key
           release == IF k \in pressed[d] THEN <<pressed[d] \ {k}>>
                      ELSE IF e.state /\ Full(d, k) THEN <<pressed[d] \cap Mods>>
                      ELSE <<>>
           base == IF release = <<>> THEN pressed[d] ELSE release[1]
       IN  release \o (IF e.state THEN <<base \cup {k}>> ELSE <<>>)

-----------------------------------------------------------------------------
(* The process of a device *)

\* A report gets to the host ...
Written(d, keys) ==
  /\ port = "ready"
  /\ host' = [host EXCEPT ![d] = keys]
  /\ fresh' = fresh \ {d}
  /\ online' = [online EXCEPT ![d] = TRUE]

\* ... or the device is not there or not ready for it (__ensure_device()), or it
\* says that it is and refuses (__write_report()).
NotWritten(d) ==
  /\ port # "ready"
  /\ online' = [online EXCEPT ![d] = FALSE]
  /\ UNCHANGED <<host, fresh>>

Running(d) == pc[d] = "loop" /\ UNCHANGED <<mode, stop, wanted, outside>>

TakeEvent(d) ==
  /\ Running(d) /\ ~stop /\ pending[d] = <<>> /\ queue[d] # <<>>
  /\ queue' = [queue EXCEPT ![d] = Tail(@)]
  /\ pending' = [pending EXCEPT ![d] = Reports(d, Head(queue[d]))]
  /\ UNCHANGED <<pc, pressed, retries, online, host, fresh>>

\* The next report of the event, which replaces the last one.
Report(d) ==
  /\ Running(d) /\ pending[d] # <<>>
  /\ pressed' = [pressed EXCEPT ![d] = Head(pending[d])]
  /\ pending' = [pending EXCEPT ![d] = Tail(@)]
  /\ \/ Written(d, Head(pending[d])) /\ retries' = [retries EXCEPT ![d] = 0]
     \/ NotWritten(d) /\ retries' = [retries EXCEPT ![d] = WriteRetries]
  /\ UNCHANGED <<queue, pc>>

Idle(d) == Running(d) /\ ~stop /\ pending[d] = <<>> /\ queue[d] = <<>>

\* The last report again; an attempt counts when the device was ready for it.
RetryReport(d) ==
  /\ Idle(d) /\ retries[d] > 0
  /\ \/ Written(d, pressed[d]) /\ retries' = [retries EXCEPT ![d] = 0]
     \/ NotWritten(d) /\ retries' \in {retries, [retries EXCEPT ![d] = @ - 1]}
  /\ UNCHANGED <<queue, pc, pending, pressed>>

\* Only the device is asked, and not the controller.
NotConfigured_Unasked(d) ==
  /\ Idle(d) /\ retries[d] = 0 /\ online[d]
  /\ port = "suspended" /\ NotWritten(d)
  /\ UNCHANGED <<queue, device>>

\* The controller is not configured, or the device is not ready.
NotConfigured(d) ==
  /\ Idle(d) /\ retries[d] = 0 /\ online[d]
  /\ NotWritten(d)
  /\ UNCHANGED <<queue, device>>

LeaveLoop(d) ==
  /\ Running(d) /\ stop /\ pending[d] = <<>>
  /\ pc' = [pc EXCEPT ![d] = "off"]
  /\ UNCHANGED <<queue, pending, pressed, retries, online, host, fresh>>

\* _cleanup_write(): everything is let go, in one attempt.
CleanupWrite(d) ==
  /\ pc[d] = "off"
  /\ pc' = [pc EXCEPT ![d] = "done"]
  /\ Written(d, {}) \/ NotWritten(d)
  /\ UNCHANGED <<mode, stop, wanted, outside, queue, pending, pressed, retries>>

Process(d) ==
  \/ TakeEvent(d) \/ Report(d) \/ RetryReport(d) \/ NotConfigured(d)
  \/ LeaveLoop(d) \/ CleanupWrite(d)

-----------------------------------------------------------------------------
(* The host *)

PortBecomes(state) ==
  /\ port # state /\ Spend("changes")
  /\ port' = state
  /\ UNCHANGED <<mode, stop, queue, device, online, wanted>>

\* Nobody reads the reports, or reads them again.
Suspend == port = "ready" /\ PortBecomes("suspended") /\ UNCHANGED <<host, fresh>>
Resume == PortBecomes("ready") /\ UNCHANGED <<host, fresh>>

\* A host that loses a device lets go of its keys.
Unplug ==
  /\ PortBecomes("unplugged")
  /\ host' = [d \in Devices |-> {}]
  /\ fresh' = Devices

-----------------------------------------------------------------------------

Init ==
  /\ mode = FirstMode /\ stop = FALSE
  /\ queue = [d \in Devices |-> <<>>]
  /\ pc = [d \in Devices |-> "loop"]
  /\ pending = [d \in Devices |-> <<>>]
  /\ pressed = [d \in Devices |-> {}]
  /\ retries = [d \in Devices |-> 0]
  /\ online = [d \in Devices |-> TRUE]
  /\ port \in {"ready", "unplugged"}
  /\ host = [d \in Devices |-> {}] /\ fresh = Devices
  /\ wanted = [d \in Devices |-> {}]
  /\ left = [calls |-> MaxCalls, changes |-> MaxChanges]

Calls ==
  \/ \E state \in BOOLEAN :
       \/ \E k \in Keys : SendKeyEvent(k, state)
       \/ \E b \in Buttons : SendMouseButtonEvent(b, state)
  \/ ClearEvents \/ Stop
  \/ \E m \in Modes : SetParams(m)

Next == Calls \/ Suspend \/ Resume \/ Unplug \/ \E d \in Devices : Process(d)

Spec == Init /\ [][Next]_vars

\* The processes go on; nobody has to call, and the host does as it likes.
FairSpec == Spec /\ \A d \in Devices : WF_vars(Process(d))

-----------------------------------------------------------------------------

Held(d) == IF d = Keyboard THEN Keys ELSE Buttons

Events(d) == {Clear} \cup {Key(k, state) : k \in Held(d), state \in BOOLEAN}

TypeOK ==
  /\ mode \in Modes /\ stop \in BOOLEAN
  /\ port \in {"ready", "suspended", "unplugged"}
  /\ fresh \subseteq Devices
  /\ \A d \in Devices :
       /\ pc[d] \in {"loop", "off", "done"}
       /\ queue[d] \in Seq(Events(d))
       /\ pending[d] \in Seq(SUBSET Held(d)) /\ Len(pending[d]) <= 2
       /\ pressed[d] \cup host[d] \cup wanted[d] \subseteq Held(d)
       /\ d = Keyboard => Cardinality(pressed[d] \ Mods) <= Slots
       /\ retries[d] \in 0 .. WriteRetries /\ online[d] \in BOOLEAN

AtRest(d) == pc[d] = "loop" /\ queue[d] = <<>> /\ pending[d] = <<>> /\ retries[d] = 0

\* A device that is online and has nothing to do is in step with the host, unless
\* the host is a new one, and nothing is down that the clients have let go, on
\* a mouse that is not current nothing at all; neither is anything after the
\* cleanup.
HostFollows ==
  \A d \in Devices : online[d] =>
    /\ AtRest(d) => /\ host[d] = pressed[d] \/ d \in fresh
                    /\ pressed[d] \cup host[d] \subseteq wanted[d]
    /\ pc[d] = "done" => host[d] = {}

\* With a host that listens, every device comes to rest; without one, every
\* device is offline in the end; and a stop comes to an end.
Settles ==
  /\ <>[](port = "ready") => <>[](stop \/ \A d \in Devices : AtRest(d))
  /\ <>[](port = "unplugged") => <>[](stop \/ \A d \in Devices : ~online[d])
  /\ stop ~> \A d \in Devices : pc[d] = "done"

=============================================================================
