-------------------------------- MODULE Gpio --------------------------------
(***************************************************************************)
(* The lines that KVMD drives and reads: the buttons and LEDs of ATX       *)
(* (kvmd/plugins/atx/gpio.py) and the channels of the user GPIO            *)
(* (kvmd/apps/kvmd/ugpio.py), whose outputs work in the same way: a switch *)
(* or a pulse runs in the exclusive region of its output, in the request   *)
(* itself or as a short task, and a poller tells the clients.              *)
(*                                                                         *)
(* What a driver of a device does is left out but for being offline; delays*)
(* are steps.  Reads do not give way, so the poller sees one moment.       *)
(***************************************************************************)
EXTENDS FiniteSets

CONSTANTS
  Inputs,
  Switches,     \* outputs that may be switched and pulsed
  Buttons,      \* outputs that are only pulsed, among them those of ATX
  Devices,      \* the outputs and inputs of drivers that may be offline
  PowerLed,     \* __power_led_pin
  PowerButton,  \* __power_switch_pin
  ResetButton,  \* __reset_switch_pin
  Requests      \* that run at the same time

Outputs == Switches \cup Buttons
Channels == Inputs \cup Outputs

\* A line is either read or driven, and a button is not a switch.
Wiring ==
  /\ Inputs \cap Outputs = {} /\ Switches \cap Buttons = {}
  /\ PowerButton \in Buttons /\ ResetButton \in Buttons

VARIABLES
  level,    \* of each line, not inverted
  offline,  \* GpioDriverOfflineError is raised for them
  entered,  \* outputs whose region is entered
  acts,     \* what each request does
  notes,    \* the queue of __notifier: "none", "some" or "full"
  known,    \* of poll_state(), and what the clients know: of no channel at first
  stage,    \* of the daemon: "up", "waiting", "stopped" or "clean"
  waited,   \* short tasks that the shutdown waits for
  failed,   \* buttons that could not be let go
  initial   \* buttons that began pressed (`initial` of their scheme), not driven yet

lines == <<level, offline, failed, initial>>
poller == <<notes, known>>
daemon == <<stage, waited>>
gpioVars == <<lines, entered, acts, poller, daemon>>

Idle == [step |-> "idle"]

\* An action that waits is a part of its request, another one is a short task.
Action(ch, op, wait) == [step |-> "enter", ch |-> ch, op |-> op, wait |-> wait]

Inside(a) == acts[a].step \in {"write", "release", "delay"}

\* A driver that has released its lines raises too.
Writable(ch) == ch \notin offline /\ stage # "clean"

\* What a client sees of a channel: an output in its region shows nothing.
State(ch) ==
  IF ch \in entered THEN [online |-> TRUE, state |-> FALSE, busy |-> TRUE]
  ELSE [online |-> ch \notin offline, state |-> ch \notin offline /\ level[ch], busy |-> FALSE]

Current == [ch \in Channels |-> State(ch)]

Notify == notes' = IF notes = "none" THEN "some" ELSE notes

-----------------------------------------------------------------------------
(* Actions on an output *)

Steps(a) == UNCHANGED <<offline, known, stage>> /\ acts[a] # Idle

\* run_region_task() or the task of atomic_fg: the region is entered later.
Begin(a, ch, op) ==
  /\ acts[a] = Idle /\ stage # "clean"
  /\ \E wait \in BOOLEAN : acts' = [acts EXCEPT ![a] = Action(ch, op, wait)]
  /\ UNCHANGED <<lines, entered, poller, daemon>>

Switch(a) == \E ch \in Switches, op \in {"on", "off"} : Begin(a, ch, op)

Pulse(a) == \E ch \in Outputs : Begin(a, ch, "pulse")

\* power_on(), power_off(), power_off_hard() and power_reset_hard().
PowerAction(a) ==
  \/ ~level[PowerLed] /\ Begin(a, PowerButton, "pulse")
  \/ level[PowerLed] /\ (Begin(a, PowerButton, "pulse") \/ Begin(a, ResetButton, "pulse"))

Ended(a) == acts' = [acts EXCEPT ![a] = Idle] /\ waited' = waited \ {a}

\* GpioChannelIsBusyError, AtxIsBusyError.
Refuse(a) ==
  /\ Steps(a) /\ acts[a].step = "enter" /\ acts[a].ch \in entered
  /\ Ended(a)
  /\ UNCHANGED <<level, failed, initial, entered, notes>>

GoTo(a, step) == acts' = [acts EXCEPT ![a].step = step] /\ UNCHANGED waited

EnterRegion(a) ==
  /\ Steps(a) /\ acts[a].step = "enter" /\ acts[a].ch \notin entered
  /\ entered' = entered \cup {acts[a].ch}
  /\ GoTo(a, "write") /\ Notify
  /\ UNCHANGED <<level, failed, initial>>

\* AioExclusiveRegion.exit()
ExitRegion(a) == entered' = entered \ {acts[a].ch} /\ Ended(a) /\ Notify

\* The level of a switch, or the beginning of a pulse.
Write(a) ==
  /\ Steps(a) /\ acts[a].step = "write" /\ Writable(acts[a].ch)
  /\ level' = [level EXCEPT ![acts[a].ch] = acts[a].op # "off"]
  /\ initial' = initial \ {acts[a].ch}
  /\ GoTo(a, IF acts[a].op = "pulse" THEN "release" ELSE "delay")
  /\ UNCHANGED <<failed, entered, notes>>

\* A pulse tries to end all the same.
WriteFails(a) ==
  /\ Steps(a) /\ acts[a].step = "write" /\ ~Writable(acts[a].ch)
  /\ IF acts[a].op = "pulse"
       THEN GoTo(a, "release") /\ UNCHANGED <<entered, notes>>
       ELSE ExitRegion(a)
  /\ UNCHANGED <<level, failed, initial>>

\* The delay of the pulse is over, or it was cancelled or could not begin.
Release(a) ==
  /\ Steps(a) /\ acts[a].step = "release" /\ Writable(acts[a].ch)
  /\ level' = [level EXCEPT ![acts[a].ch] = FALSE]
  /\ failed' = failed \ {acts[a].ch} /\ initial' = initial \ {acts[a].ch}
  /\ GoTo(a, "delay")
  /\ UNCHANGED <<entered, notes>>

ReleaseFails(a) ==
  /\ Steps(a) /\ acts[a].step = "release" /\ ~Writable(acts[a].ch)
  /\ failed' = failed \cup {acts[a].ch}
  /\ ExitRegion(a)
  /\ UNCHANGED <<level, initial>>

\* The delay after it.
Finish(a) ==
  /\ Steps(a) /\ acts[a].step = "delay"
  /\ ExitRegion(a)
  /\ UNCHANGED <<level, failed, initial>>

-----------------------------------------------------------------------------
(* Lines and drivers *)

Environment == UNCHANGED <<failed, initial, entered, acts, known, daemon>> /\ Notify

\* A debounced input has another value.
InputChanges(ch) ==
  /\ Environment
  /\ level' = [level EXCEPT ![ch] = ~@]
  /\ UNCHANGED offline

\* A driver loses or finds its device, whose outputs are as they were left.
DriverChanges(ch) ==
  /\ Environment
  /\ offline' = IF ch \in offline THEN offline \ {ch} ELSE offline \cup {ch}
  /\ UNCHANGED level

-----------------------------------------------------------------------------
(* The poller and the shutdown *)

\* trigger_state() of a new client.
Trigger ==
  /\ notes' = "full"
  /\ UNCHANGED <<lines, entered, acts, known, daemon>>

\* Everything after a trigger, and else what differs.
Poll ==
  /\ notes # "none" /\ stage \in {"up", "waiting"}
  /\ notes' = "none"
  /\ known' = IF notes = "full" THEN Current
              ELSE [ch \in Channels |-> IF ch \in DOMAIN known /\ known[ch] = State(ch)
                                        THEN known[ch] ELSE State(ch)]
  /\ UNCHANGED <<lines, entered, acts, daemon>>

\* wait_all_short_tasks()
Shutdown ==
  /\ stage = "up" /\ stage' = "waiting"
  /\ waited' = {a \in Requests : acts[a] # Idle /\ ~acts[a].wait}
  /\ UNCHANGED <<lines, entered, acts, poller>>

StopTasks ==
  /\ stage = "waiting" /\ waited = {} /\ stage' = "stopped"
  /\ UNCHANGED <<lines, entered, acts, poller, waited>>

\* The requests that still run had no more than shutdown_timeout to end.
Cleanup ==
  /\ stage = "stopped" /\ stage' = "clean"
  /\ UNCHANGED <<lines, entered, acts, poller, waited>>

-----------------------------------------------------------------------------

\* The lines of ATX begin inactive, an output of the scheme as it says.
GpioInit ==
  /\ level \in [Channels -> BOOLEAN] /\ ~level[PowerButton] /\ ~level[ResetButton]
  /\ initial = {ch \in Buttons : level[ch]}
  /\ offline = {} /\ failed = {} /\ entered = {}
  /\ acts = [a \in Requests |-> Idle]
  /\ notes = "none" /\ known = [ch \in {} |-> FALSE]
  /\ stage = "up" /\ waited = {}

GpioNext ==
  \/ \E a \in Requests : Switch(a) \/ Pulse(a) \/ PowerAction(a)
  \/ \E a \in Requests : Refuse(a) \/ EnterRegion(a) \/ Write(a) \/ WriteFails(a)
  \/ \E a \in Requests : Release(a) \/ ReleaseFails(a) \/ Finish(a)
  \/ \E ch \in Inputs : InputChanges(ch)
  \/ \E ch \in Devices : DriverChanges(ch)
  \/ Trigger \/ Poll \/ Shutdown \/ StopTasks \/ Cleanup

GpioSpec == GpioInit /\ [][GpioNext]_gpioVars

-----------------------------------------------------------------------------
(* Properties *)

\* An output is busy exactly while one action is inside its region.
OneAction ==
  /\ entered = {acts[a].ch : a \in {b \in Requests : Inside(b)}}
  /\ \A a, b \in Requests : Inside(a) /\ Inside(b) /\ acts[a].ch = acts[b].ch => a = b

\* A button is held only inside a pulse, which is going to let it go, unless its
\* driver failed when it was to be let go, or it began so and was never driven.
HeldByPulse ==
  \A ch \in Buttons : level[ch] =>
    ch \in failed \cup initial \/ \E a \in Requests : acts[a].step = "release" /\ acts[a].ch = ch

\* A line of KVMD's own fails only when the daemon has ended before the action.
FailedAtTheEnd == failed \subseteq Devices \/ stage = "clean"

\* When nothing is queued, the clients that have been told anything know the
\* state: no step changes what they see without a notification.
ClientsKnow == notes = "none" /\ DOMAIN known # {} => known = Current
=============================================================================
