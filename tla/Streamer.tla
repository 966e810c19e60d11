------------------------------ MODULE Streamer ------------------------------
(***************************************************************************)
(* The life of the video streamer process: the stream controller of        *)
(* KvmdServer (kvmd/apps/kvmd/server.py), the Runner that owns the process *)
(* (kvmd/apps/kvmd/streamer/runner.py), the Snapshoter that wants it for a *)
(* moment, and the shutdown of the daemon.                                 *)
(*                                                                         *)
(* Four tasks share the Runner's fields without a lock: the controller,    *)
(* the delayed stopper, the task that keeps the process alive and, after   *)
(* the controller is cancelled, the cleanup.  atomic_fg() lets a call into *)
(* the Runner finish before its caller is cancelled.  Requests and         *)
(* websockets come between any two awaits of them.  All the parameters of  *)
(* the stream are one value; a hook and a sleep are a step.  A killed      *)
(* process dies, and a process whose creation is cancelled is reaped by    *)
(* asyncio.                                                                *)
(***************************************************************************)
EXTENDS Naturals

CONSTANTS
  Values,      \* stream parameters a client may ask for
  Valid,       \* those within the limits; the others are silently dropped
  NoParams,    \* no parameters, and no process
  Forever,     \* kvmd.streamer.forever
  MaxClients   \* bound on the websockets that stream

ASSUME StreamerAssumption ==
  /\ Valid \subseteq Values /\ Valid # {} /\ NoParams \notin Values
  /\ Forever \in BOOLEAN
  /\ MaxClients \in Nat

VARIABLES
  clients,     \* number of registered websockets with stream=1
  snapshoting, \* Snapshoter.__snapshoting
  note,        \* __streamer_notifier has something queued
  newParams,   \* __new_streamer_params
  reset,       \* __reset_streamer
  params,      \* Streamer.__params
  down,        \* the deadly tasks are being cancelled
  pc,          \* the controller, then the cleanup
  caller,      \* who called the Runner: "choose", "reset" or "cleanup"
  seen,        \* `clients` of the controller, as a truth value
  prev,        \* `prev` of the controller
  again,       \* `start` of ensure_restart()
  task,        \* Runner.__proc_task and where it is
  procParams,  \* Runner.__proc_params
  proc,        \* Runner.__proc: the parameters it was started with
  stopper,     \* Runner.__stopper_task, "wip" with __stopper_wip
  inner,       \* progress of __inner_stop() called by each of the two
  asked        \* a reset was requested while this process was running

requests == <<clients, snapshoting, newParams, reset>>
control == <<seen, prev, again, caller>>
runner == <<task, procParams, proc, stopper, inner>>
vars == <<requests, note, params, down, pc, control, runner, asked>>

Wanted == clients > 0 \/ snapshoting \/ Forever

\* The process is kept alive, and nobody plans to stop it.
Kept == task \in {"spawn", "run", "fail"} /\ stopper = "none"

\* ensure_restart() is in progress: a reset requested now is merged with it.
Restarting == caller = "reset" /\ pc \notin {"wait", "top", "choose"}

-----------------------------------------------------------------------------
(* Requests, websockets and snapshots *)

Notify == note' = TRUE

ClientJoins ==
  /\ clients < MaxClients
  /\ clients' = clients + 1
  /\ Notify
  /\ UNCHANGED <<snapshoting, newParams, reset, params, down, pc, control, runner, asked>>

ClientLeaves ==
  /\ clients > 0
  /\ clients' = clients - 1
  /\ Notify
  /\ UNCHANGED <<snapshoting, newParams, reset, params, down, pc, control, runner, asked>>

SnapshotBegins ==
  /\ ~snapshoting /\ ~down
  /\ snapshoting' = TRUE
  /\ Notify
  /\ UNCHANGED <<clients, newParams, reset, params, down, pc, control, runner, asked>>

SnapshotEnds_Silent ==
  /\ snapshoting
  /\ snapshoting' = FALSE
  /\ UNCHANGED <<clients, note, newParams, reset, params, down, pc, control, runner, asked>>

SnapshotEnds ==
  /\ snapshoting
  /\ snapshoting' = FALSE
  /\ Notify
  /\ UNCHANGED <<clients, newParams, reset, params, down, pc, control, runner, asked>>

\* POST /streamer/set_params: a value equal to the current one is not recorded.
SetParamsRequest(v) ==
  /\ newParams' = IF v # params THEN v ELSE newParams
  /\ Notify
  /\ UNCHANGED <<clients, snapshoting, reset, params, down, pc, control, runner, asked>>

\* POST /streamer/reset
ResetRequest ==
  /\ reset' = TRUE
  /\ Notify
  /\ asked' = (asked \/ (proc # NoParams /\ ~Restarting))
  /\ UNCHANGED <<clients, snapshoting, newParams, params, down, pc, control, runner>>

-----------------------------------------------------------------------------
(* The controller: __stream_controller() *)

Goto(next) == pc' = next

\* Cancelled at an await of its own; a call into the Runner finishes first.
Top ==
  /\ pc = "top" /\ ~down
  /\ seen' = (clients > 0)
  /\ Goto("choose")
  /\ UNCHANGED <<requests, note, params, down, prev, again, caller, runner, asked>>

\* After the broadcast of the client count, which is an await.
Choose ==
  /\ pc = "choose" /\ ~down
  /\ LET cur == seen \/ snapshoting \/ Forever
     IN  /\ prev' = cur
         /\ Goto(IF cur = prev THEN "after" ELSE IF cur THEN "start" ELSE "delay")
  /\ caller' = "choose"
  /\ UNCHANGED <<requests, note, params, down, seen, again, runner, asked>>

After ==
  /\ pc = "after" /\ ~down
  /\ Goto(IF newParams # NoParams THEN "debounce" ELSE "check")
  /\ UNCHANGED <<requests, note, params, down, control, runner, asked>>

\* wait(timeout=1) gets a notification, or the time is over.
Debounce ==
  /\ pc = "debounce" /\ ~down /\ note
  /\ note' = FALSE
  /\ Goto("top")
  /\ UNCHANGED <<requests, params, down, control, runner, asked>>

ApplyParams_NoReset ==
  /\ pc = "debounce" /\ ~down /\ ~note
  /\ params' = IF newParams \in Valid THEN newParams ELSE params
  /\ newParams' = NoParams
  /\ Goto("check")
  /\ UNCHANGED <<clients, snapshoting, reset, note, down, control, runner, asked>>

ApplyParams ==
  /\ pc = "debounce" /\ ~down /\ ~note
  /\ params' = IF newParams \in Valid THEN newParams ELSE params
  /\ newParams' = NoParams
  /\ reset' = TRUE
  /\ Goto("check")
  /\ UNCHANGED <<clients, snapshoting, note, down, control, runner, asked>>

\* ensure_restart() first looks whether the process is kept.
CheckReset ==
  /\ pc = "check" /\ ~down
  /\ IF reset
     THEN Goto("stop") /\ caller' = "reset" /\ again' = (task # "none" /\ stopper = "none")
     ELSE Goto("wait") /\ UNCHANGED <<caller, again>>
  /\ UNCHANGED <<requests, note, params, down, seen, prev, runner, asked>>

ResetDone ==
  /\ pc = "reset_done" /\ ~down
  /\ reset' = FALSE
  /\ Goto("wait")
  /\ UNCHANGED <<clients, snapshoting, newParams, note, params, down, control, runner, asked>>

Wait ==
  /\ pc = "wait" /\ ~down /\ note
  /\ note' = FALSE
  /\ Goto("top")
  /\ UNCHANGED <<requests, params, down, control, runner, asked>>

-----------------------------------------------------------------------------
(* The Runner, called by the controller or by the cleanup *)

\* Where the controller goes on after a call.
Return == Goto(CASE caller = "choose" -> "after"
                 [] caller = "reset" -> "reset_done"
                 [] caller = "cleanup" -> "down")

RunnerCall == UNCHANGED <<requests, note, params, down, control, asked>>

EnsureStart_IgnoresWip ==
  /\ pc = "start"
  /\ CASE task # "none" /\ stopper = "none" -> Return /\ UNCHANGED stopper
       [] stopper # "none" -> Return /\ stopper' = "none"
       [] OTHER -> Goto("hook") /\ UNCHANGED stopper
  /\ RunnerCall /\ UNCHANGED <<task, procParams, proc, inner>>

\* ensure_start(): a planned stop is cancelled, which leaves the process as it
\* is; a stop in progress is waited for.
EnsureStart ==
  /\ pc = "start"
  /\ CASE task # "none" /\ stopper = "none" -> Return /\ UNCHANGED stopper
       [] stopper = "sleep" -> Return /\ stopper' = "none"
       [] stopper = "wip" -> Goto("start_wait") /\ UNCHANGED stopper
       [] task = "none" /\ stopper = "none" -> Goto("hook") /\ UNCHANGED stopper
  /\ RunnerCall /\ UNCHANGED <<task, procParams, proc, inner>>

StartWait ==
  /\ pc = "start_wait" /\ stopper = "none"
  /\ Goto("hook")
  /\ RunnerCall /\ UNCHANGED runner

\* __inner_start(): the hook runs, then the task is created.
InnerStart ==
  /\ pc = "hook"
  /\ procParams' = params
  /\ task' = "spawn"
  /\ Return
  /\ RunnerCall /\ UNCHANGED <<proc, stopper, inner>>

\* ensure_stop(immediately=False): a stop is planned, at most one at a time.
EnsureStopLater ==
  /\ pc = "delay"
  /\ stopper' = IF task # "none" /\ stopper = "none" THEN "sleep" ELSE stopper
  /\ Return
  /\ RunnerCall /\ UNCHANGED <<task, procParams, proc, inner>>

EnsureStopNow_NoCancel ==
  /\ pc = "stop"
  /\ CASE task = "none" -> Goto("stopped") /\ UNCHANGED <<stopper, inner>>
       [] task # "none" /\ stopper = "wip" -> Goto("stop_wait") /\ UNCHANGED <<stopper, inner>>
       [] task # "none" /\ stopper # "wip" ->
            Goto("stop_inner") /\ inner' = [inner EXCEPT !["control"] = "cancel"] /\ UNCHANGED stopper
  /\ RunnerCall /\ UNCHANGED <<task, procParams, proc>>

\* ensure_stop(immediately=True): takes over a planned stop, waits for one in
\* progress.
EnsureStopNow ==
  /\ pc = "stop"
  /\ CASE task = "none" -> Goto("stopped") /\ UNCHANGED <<stopper, inner>>
       [] task # "none" /\ stopper = "wip" -> Goto("stop_wait") /\ UNCHANGED <<stopper, inner>>
       [] task # "none" /\ stopper # "wip" ->
            Goto("stop_inner") /\ inner' = [inner EXCEPT !["control"] = "cancel"] /\ stopper' = "none"
  /\ RunnerCall /\ UNCHANGED <<task, procParams, proc>>

StopWait ==
  /\ \/ pc = "stop_wait" /\ stopper = "none"
     \/ pc = "stop_inner" /\ inner["control"] = "none"
  /\ Goto("stopped")
  /\ RunnerCall /\ UNCHANGED runner

\* The rest of ensure_restart(): the delay, and ensure_start() if the process
\* was kept before.
Stopped ==
  /\ pc = "stopped"
  /\ IF caller = "reset" /\ again THEN Goto("start") ELSE Return
  /\ RunnerCall /\ UNCHANGED runner

-----------------------------------------------------------------------------
(* __inner_stop(), by the controller or the cleanup ("control"), and by the  *)
(* delayed stop ("stopper")                                                  *)

Stoppers == {"control", "stopper"}

Others == UNCHANGED <<requests, note, params, down, pc, control>>

InnerCancel_ClearsFirst(who) ==
  /\ inner[who] = "cancel"
  /\ task' = "none"
  /\ inner' = [inner EXCEPT ![who] = "kill"]
  /\ Others /\ UNCHANGED <<procParams, proc, stopper, asked>>

\* The task is cancelled and awaited.
InnerCancel(who) ==
  /\ inner[who] = "cancel"
  /\ task' = "done"
  /\ inner' = [inner EXCEPT ![who] = "kill"]
  /\ Others /\ UNCHANGED <<procParams, proc, stopper, asked>>

InnerKill(who) ==
  /\ inner[who] = "kill"
  /\ proc' = NoParams /\ asked' = FALSE
  /\ inner' = [inner EXCEPT ![who] = "hook"]
  /\ Others /\ UNCHANGED <<task, procParams, stopper>>

\* After the POST-STOP hook.
InnerClear(who) ==
  /\ inner[who] = "hook"
  /\ task' = "none"
  /\ inner' = [inner EXCEPT ![who] = "none"]
  /\ Others /\ UNCHANGED <<procParams, proc, stopper, asked>>

\* delayed_stop(): the delay is over.
StopperFires ==
  /\ stopper = "sleep"
  /\ stopper' = "wip"
  /\ inner' = [inner EXCEPT !["stopper"] = "cancel"]
  /\ Others /\ UNCHANGED <<task, procParams, proc, asked>>

StopperEnds_NoReset ==
  /\ stopper = "wip" /\ inner["stopper"] = "none"
  /\ UNCHANGED vars

\* Its `finally`.
StopperEnds ==
  /\ stopper = "wip" /\ inner["stopper"] = "none"
  /\ stopper' = "none"
  /\ Others /\ UNCHANGED <<task, procParams, proc, inner, asked>>

-----------------------------------------------------------------------------
(* __process_task_loop() *)

TaskSpawn ==
  /\ task = "spawn"
  /\ \/ task' = "run" /\ proc' = procParams
     \/ task' = "fail" /\ proc' = proc
  /\ Others /\ UNCHANGED <<procParams, stopper, inner, asked>>

\* The process dies, or its output ends.
TaskDies ==
  /\ task = "run"
  /\ task' = "fail"
  /\ Others /\ UNCHANGED <<procParams, proc, stopper, inner, asked>>

\* What is left of the process is killed; the next one after a second.
TaskRecover ==
  /\ task = "fail"
  /\ proc' = NoParams /\ asked' = FALSE
  /\ task' = "spawn"
  /\ Others /\ UNCHANGED <<procParams, stopper, inner>>

-----------------------------------------------------------------------------
(* Shutdown *)

\* stop_all_deadly_tasks() in _on_shutdown(); the Snapshoter ends with it.
Shutdown ==
  /\ ~down
  /\ down' = TRUE
  /\ UNCHANGED <<requests, note, params, pc, control, runner, asked>>

\* The cancellation reaches the controller; Streamer.cleanup() follows.
Cancelled ==
  /\ down
  /\ pc \in {"top", "choose", "after", "debounce", "check", "reset_done", "wait"}
  /\ Goto("stop") /\ caller' = "cleanup"
  /\ UNCHANGED <<requests, note, params, down, seen, prev, again, runner, asked>>

-----------------------------------------------------------------------------

Init ==
  /\ clients = 0 /\ snapshoting = FALSE /\ note = FALSE
  /\ newParams = NoParams /\ reset = FALSE
  /\ params \in Valid
  /\ down = FALSE
  /\ pc = "top" /\ caller = "choose"
  /\ seen = FALSE /\ prev = FALSE /\ again = FALSE
  /\ task = "none" /\ procParams = NoParams /\ proc = NoParams
  /\ stopper = "none" /\ inner = [who \in Stoppers |-> "none"]
  /\ asked = FALSE

Environment ==
  \/ ClientJoins \/ ClientLeaves
  \/ SnapshotBegins \/ SnapshotEnds
  \/ \E v \in Values : SetParamsRequest(v)
  \/ ResetRequest
  \/ TaskDies
  \/ Shutdown

Controller ==
  \/ Top \/ Choose \/ After \/ Debounce \/ ApplyParams \/ CheckReset \/ ResetDone \/ Wait
  \/ EnsureStart \/ StartWait \/ InnerStart
  \/ EnsureStopLater \/ EnsureStopNow \/ StopWait \/ Stopped
  \/ Cancelled

Stop(who) == InnerCancel(who) \/ InnerKill(who) \/ InnerClear(who)

Stopper == StopperFires \/ StopperEnds

Next ==
  \/ Environment
  \/ Controller
  \/ \E who \in Stoppers : Stop(who)
  \/ Stopper
  \/ TaskSpawn \/ TaskRecover

Spec == Init /\ [][Next]_vars

\* The event loop runs every task on, hooks and sleeps end, and a snapshot has
\* a limited number of retries.  Nobody has to send a request.
FairSpec ==
  /\ Spec
  /\ WF_vars(Controller) /\ WF_vars(Stopper)
  /\ \A who \in Stoppers : WF_vars(Stop(who))
  /\ WF_vars(TaskSpawn \/ TaskRecover)
  /\ WF_vars(SnapshotEnds)

-----------------------------------------------------------------------------
(* Properties *)

\* The variables have their types.
TypeOK ==
  /\ clients \in 0..MaxClients
  /\ snapshoting \in BOOLEAN /\ note \in BOOLEAN /\ reset \in BOOLEAN /\ down \in BOOLEAN
  /\ params \in Valid /\ newParams \in Values \cup {NoParams}
  /\ pc \in {"top", "choose", "after", "debounce", "check", "reset_done", "wait", "start",
             "start_wait", "hook", "delay", "stop", "stop_inner", "stop_wait", "stopped", "down"}
  /\ caller \in {"choose", "reset", "cleanup"}
  /\ seen \in BOOLEAN /\ prev \in BOOLEAN /\ again \in BOOLEAN /\ asked \in BOOLEAN
  /\ task \in {"none", "spawn", "run", "fail", "done"}
  /\ procParams \in Valid \cup {NoParams} /\ proc \in Valid \cup {NoParams}
  /\ stopper \in {"none", "sleep", "wip"}
  /\ inner \in [Stoppers -> {"none", "cancel", "kill", "hook"}]

\* The assertions of the Runner hold although four tasks use its fields:
\* __inner_start() finds no task, __inner_stop() finds one from its first to its
\* last step (the controller and the delayed stop never stop it both), and
\* __start_process() finds no process.
AssertionsHold ==
  /\ pc = "hook" => task = "none"
  /\ \A who \in Stoppers : inner[who] # "none" => task # "none"
  /\ task = "spawn" => proc = NoParams

\* A process never outlives its task, nor the daemon: neither a cancelled
\* controller, nor a planned stop, nor a restart leaves one behind.
NothingLeftBehind ==
  /\ task = "none" => proc = NoParams
  /\ pc = "down" => task = "none" /\ stopper # "sleep"

\* No wake-up is lost: when the controller sleeps with an empty queue, the
\* process is kept exactly if somebody wants it, with the parameters that are in
\* force, and no request is left unserved.
SettledIsRight ==
  pc = "wait" /\ ~note /\ ~down =>
    /\ Kept = Wanted
    /\ newParams = NoParams /\ ~reset
    /\ task # "none" => procParams = params
    /\ ~asked

\* Somebody who streams gets a process, whatever stop or restart is going on.
StartsForClients == (clients > 0 /\ ~down) ~> (Kept \/ clients = 0 \/ down)

\* When nobody needs the process any more it is stopped, after the delay.
StopsWhenUnused == ~Wanted ~> (task = "none" \/ Wanted)

\* A shutdown ends with the process gone.
ShutdownEnds == down ~> pc = "down"

=============================================================================
