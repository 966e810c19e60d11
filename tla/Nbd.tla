--------------------------------- MODULE Nbd ---------------------------------
(***************************************************************************)
(* kvmd-nbd: NbdController of kvmd/nbd/controller.py with running() and     *)
(* poll() of NbdProcess, and the process of NbdWorker.  A bind probes the    *)
(* image and leaves an NbdProcess for the poller, a deadly task, which       *)
(* starts it, waits until it has reported, and forwards its events to the    *)
(* clients until it is gone.  An unbind only sends it a SIGTERM.            *)
(*                                                                         *)
(* The end of the daemon is left out.  A process dies when it is killed.    *)
(***************************************************************************)
EXTENDS NbdWorker

CONSTANTS
  MaxBinds,    \* bound: successful binds
  MaxUnbinds   \* bound: unbinds

VARIABLES
  proc,        \* NbdController.__proc: the number of the binding, 0 for None
  notified,    \* something is queued in __nr
  bind,        \* bind(): "idle", or "probe" under the lock
  poller,      \* __poll(): "wait", "starting", "ready", "join", "poll", "stop", "end"
  stop,        \* its `stop`
  told,        \* NbdController.__state, what the clients know
  binds, unbinds

controller == <<proc, notified, bind, poller, stop, told, binds, unbinds>>
vars == <<workerVars, controller>>

NbdAssumption == MaxFaults \in Nat /\ MaxBinds \in Nat /\ MaxUnbinds \in Nat
ASSUME NbdAssumption

Unknown == Stopped("main", FALSE)

-----------------------------------------------------------------------------
(* The calls of the clients *)

\* bind() passes its checks; a refusal changes nothing.
BindBegins ==
  /\ bind = "idle"
  /\ ~Pid /\ proc = 0
  /\ bind' = "probe"
  /\ UNCHANGED <<workerVars, proc, notified, poller, stop, told, binds, unbinds>>

BindFails ==
  /\ bind = "probe"
  /\ bind' = "idle"
  /\ UNCHANGED <<workerVars, proc, notified, poller, stop, told, binds, unbinds>>

Probed_NoNotify ==
  /\ bind = "probe" /\ binds < MaxBinds
  /\ bind' = "idle"
  /\ binds' = binds + 1
  /\ proc' = binds'
  /\ UNCHANGED <<workerVars, notified, poller, stop, told, unbinds>>

\* The image was probed: a new NbdProcess, and the poller is woken.
Probed ==
  /\ bind = "probe" /\ binds < MaxBinds
  /\ bind' = "idle"
  /\ binds' = binds + 1
  /\ proc' = binds'
  /\ notified' = TRUE
  /\ UNCHANGED <<workerVars, poller, stop, told, unbinds>>

SendSigterm == sigterm' = (sigterm \/ Alive)

\* unbind(): a process that was not started has no pid, and nothing happens.
Unbind ==
  /\ unbinds < MaxUnbinds /\ proc # 0
  /\ unbinds' = unbinds + 1
  /\ SendSigterm
  /\ UNCHANGED <<worker, tasks, link, stopped, eventsQ, ready, asked, cause, lost, faults,
                 proc, notified, bind, poller, stop, told, binds>>

-----------------------------------------------------------------------------
(* The poller *)

\* A binding is told as starting before anything is started.
Wake ==
  /\ poller = "wait" /\ notified
  /\ notified' = FALSE
  /\ IF proc = 0
     THEN UNCHANGED <<poller, told>>
     ELSE poller' = "starting" /\ told' = [id |-> proc, status |-> "starting", info |-> NoEvent]
  /\ UNCHANGED <<workerVars, proc, bind, stop, binds, unbinds>>

\* running(): a new process with queues of its own.
Start ==
  /\ poller = "starting"
  /\ poller' = "ready"
  /\ stop' = NoEvent
  /\ worker' = "boot"
  /\ device' = "open" /\ remote' = "validate" /\ checker' = "wait"
  /\ link' = FALSE /\ stopped' = FALSE
  /\ eventsQ' = <<>> /\ ready' = "none"
  /\ sigterm' = FALSE
  /\ asked' = FALSE /\ cause' = NoEvent /\ lost' = FALSE
  /\ UNCHANGED <<faults, proc, notified, bind, told, binds, unbinds>>

Ready ==
  /\ poller = "ready" /\ ready # "none"
  /\ poller' = IF ready = "online" THEN "poll" ELSE "join"
  /\ ready' = "none"
  /\ UNCHANGED <<worker, tasks, link, stopped, eventsQ, sigterm, asked, cause, lost, faults,
                 proc, notified, bind, stop, told, binds, unbinds>>

\* No report in time: NbdError, the events are never read, and SIGTERM.
ReadyTimesOut ==
  /\ poller = "ready" /\ ready = "none"
  /\ (~Alive /\ UNCHANGED faults) \/ Fault
  /\ poller' = "stop"
  /\ SendSigterm
  /\ lost' = TRUE
  /\ UNCHANGED <<worker, tasks, link, stopped, eventsQ, ready, asked, cause,
                 proc, notified, bind, stop, told, binds, unbinds>>

\* A process that failed at its start has three seconds to end.
Joined ==
  /\ poller = "join"
  /\ poller' = "poll"
  /\ UNCHANGED <<workerVars, proc, notified, bind, stop, told, binds, unbinds>>

Fetched(e) == [id |-> told.id, status |-> "running", info |-> e]

Fetch_LastStop ==
  /\ poller = "poll" /\ eventsQ # <<>>
  /\ eventsQ' = Tail(eventsQ)
  /\ LET e == Head(eventsQ)
     IN  IF e.kind = "stopped"
         THEN stop' = e /\ UNCHANGED told
         ELSE told' = Fetched(e) /\ UNCHANGED stop
  /\ UNCHANGED <<worker, tasks, link, stopped, ready, sigterm, asked, cause, lost, faults,
                 proc, notified, bind, poller, binds, unbinds>>

\* poll(): the first reason to stop is kept, the others are dropped; anything
\* else is told.
Fetch ==
  /\ poller = "poll" /\ eventsQ # <<>>
  /\ eventsQ' = Tail(eventsQ)
  /\ LET e == Head(eventsQ)
     IN  IF e.kind = "stopped"
         THEN stop' = (IF stop = NoEvent THEN e ELSE stop) /\ UNCHANGED told
         ELSE told' = Fetched(e) /\ UNCHANGED stop
  /\ UNCHANGED <<worker, tasks, link, stopped, ready, sigterm, asked, cause, lost, faults,
                 proc, notified, bind, poller, binds, unbinds>>

\* running() is left, at once when the process is gone: `__proc` is None.
Leave ==
  /\ \/ poller = "poll" /\ eventsQ = <<>>
     \/ poller = "stop"
  /\ ~Alive
  /\ poller' = "end"
  /\ proc' = 0
  /\ UNCHANGED <<workerVars, notified, bind, stop, told, binds, unbinds>>

Kill_Spared ==
  /\ poller = "stop" /\ Alive
  /\ poller' = "end"
  /\ proc' = 0
  /\ UNCHANGED <<workerVars, notified, bind, stop, told, binds, unbinds>>

\* A process that SIGTERM has not ended in time gets SIGKILL.
Kill ==
  /\ poller = "stop" /\ Alive
  /\ Die
  /\ UNCHANGED <<stopped, eventsQ, ready, sigterm, asked, cause, lost, faults, controller>>

\* The device is disconnected, and the reason told.
Finish ==
  /\ poller = "end"
  /\ poller' = "wait"
  /\ told' = [id |-> told.id, status |-> "stopped", info |-> IF stop = NoEvent THEN Unknown ELSE stop]
  /\ stop' = NoEvent
  /\ UNCHANGED <<workerVars, proc, notified, bind, binds, unbinds>>

PollerStep ==
  Wake \/ Start \/ Ready \/ ReadyTimesOut \/ Joined \/ Fetch \/ Leave \/ Kill \/ Finish

-----------------------------------------------------------------------------

Init ==
  /\ worker = "none"
  /\ device = "done" /\ remote = "done" /\ checker = "done"
  /\ link = FALSE /\ stopped = FALSE
  /\ eventsQ = <<>> /\ ready = "none"
  /\ sigterm = FALSE
  /\ asked = FALSE /\ cause = NoEvent /\ lost = FALSE
  /\ faults = 0
  /\ proc = 0 /\ notified = FALSE
  /\ bind = "idle"
  /\ poller = "wait" /\ stop = NoEvent
  /\ told = [id |-> 0, status |-> "none", info |-> NoEvent]
  /\ binds = 0 /\ unbinds = 0

Calls == BindBegins \/ BindFails \/ Probed \/ Unbind

Next ==
  \/ Calls
  \/ PollerStep
  \/ (WorkerStep \/ WorkerFault) /\ UNCHANGED controller

Spec == Init /\ [][Next]_vars

\* Every ready task of both event loops runs, and a timeout passes.
FairSpec ==
  /\ Spec
  /\ WF_vars(PollerStep)
  /\ WF_vars(MainStep /\ UNCHANGED controller)
  /\ WF_vars(Terminated /\ UNCHANGED controller)
  /\ WF_vars(DeviceStep /\ UNCHANGED controller)
  /\ WF_vars(RemoteStep /\ UNCHANGED controller)
  /\ WF_vars(CheckerStep /\ UNCHANGED controller)

-----------------------------------------------------------------------------
(* Properties *)

\* What the clients know follows the process: whatever the order of binds,
\* unbinds, failures and kills, a process that lives is told as starting or
\* running under its own binding, nothing is when the poller rests, and a remote
\* that serves again is told as online once its events are read.
StateFollows ==
  /\ Alive => proc # 0 /\ told.id = proc /\ told.status \in {"starting", "running"}
  /\ poller = "wait" /\ ~notified => proc = 0 /\ told.status \in {"none", "stopped"}
  /\ poller = "poll" /\ eventsQ = <<>> /\ Alive /\ checker = "infinite" /\ remote = "recv"
       => told.info = Running(TRUE)

\* The reason told is the first one of the process, not a consequence of it: an
\* unbind that came first is not reported as an error of the device, nor an
\* error as an unbind.  Only a reason that was never read is unknown.
FirstCause ==
  told.status = "stopped" =>
    \/ told.info = cause
    \/ told.info = Unknown /\ (cause = NoEvent \/ lost)

\* A binding that was accepted is told as running or as stopped in the end.
BindEnds ==
  \A b \in 1 .. MaxBinds : (proc = b) ~> (told.id = b /\ told.status \in {"running", "stopped"})

\* A process that has handled the SIGTERM of an unbind is told as stopped.  (One
\* that comes before the process has its signal handlers is lost.)
UnbindEnds == asked ~> (told.status = "stopped" \/ ~asked)

=============================================================================
