--------------------------- MODULE StreamerProofs ---------------------------
(***************************************************************************)
(* Proofs about Streamer for any number of clients and any parameters.     *)
(* The assertions of the Runner are not inductive: they need to know who   *)
(* may be where.  Exclusion says that a delayed stop and an immediate one  *)
(* are never under way together, Progress what a caller may rely on after  *)
(* waiting, Processes when a process may exist.  Most steps either leave   *)
(* the Runner alone (Unmoved) or only move the controller between places   *)
(* of its own (FreeMove); the calls into the Runner and its tasks remain.  *)
(***************************************************************************)
EXTENDS Streamer, TLAPS

\* TypeOK, in three parts.
Flags ==
  /\ snapshoting \in BOOLEAN /\ note \in BOOLEAN /\ reset \in BOOLEAN /\ down \in BOOLEAN
  /\ seen \in BOOLEAN /\ prev \in BOOLEAN /\ again \in BOOLEAN /\ asked \in BOOLEAN

Data ==
  /\ clients \in 0..MaxClients
  /\ params \in Valid /\ newParams \in Values \cup {NoParams}
  /\ procParams \in Valid \cup {NoParams} /\ proc \in Valid \cup {NoParams}

\* The places of the controller where it has not called the Runner, or has only
\* just done so.
Own == {"top", "choose", "after", "debounce", "check", "reset_done", "wait", "start", "delay",
        "stop"}

Places ==
  /\ pc \in Own \cup {"start_wait", "hook", "stop_inner", "stop_wait", "stopped", "down"}
  /\ caller \in {"choose", "reset", "cleanup"}
  /\ task \in {"none", "spawn", "run", "fail", "done"}
  /\ stopper \in {"none", "sleep", "wip"}
  /\ inner \in [Stoppers -> {"none", "cancel", "kill", "hook"}]

Exclusion ==
  /\ inner["control"] # "none" => pc = "stop_inner" /\ stopper = "none" /\ task # "none"
  /\ inner["stopper"] # "none" => stopper = "wip" /\ task # "none"
  /\ pc = "hook" => task = "none" /\ stopper = "none"

Progress ==
  /\ inner["control"] \in {"kill", "hook"} => task = "done"
  /\ inner["stopper"] \in {"kill", "hook"} => task = "done"
  /\ stopper = "sleep" => task # "none"
  /\ stopper = "wip" /\ inner["stopper"] = "none" => task = "none"
  /\ pc \in {"start_wait", "stop_wait"} => stopper = "wip" \/ (stopper = "none" /\ task = "none")
  /\ pc = "stop_inner" => stopper = "none" /\ (inner["control"] = "none" => task = "none")
  /\ pc \in {"stopped", "down"} => task = "none"
  /\ pc \in {"start", "start_wait", "hook", "delay"} => caller # "cleanup"

Processes ==
  /\ task \in {"none", "spawn"} => proc = NoParams
  /\ inner["control"] = "hook" \/ inner["stopper"] = "hook" => proc = NoParams

RInv == Places /\ Exclusion /\ Progress /\ Processes
IInv == Flags /\ Data /\ RInv

\* The parts of the invariant together imply the type invariant.
LEMMA TypeParts == IInv => TypeOK
  BY DEF IInv, RInv, Flags, Data, Places, Own, TypeOK

-----------------------------------------------------------------------------

\* A step that moves neither the controller nor the Runner keeps RInv.
LEMMA Unmoved == RInv /\ UNCHANGED <<pc, caller, runner>> => RInv'
  BY DEF RInv, Places, Exclusion, Progress, Processes, runner

\* A move of the controller among its own steps, the Runner untouched, keeps RInv.
LEMMA FreeMove ==
  ASSUME RInv, UNCHANGED runner,
         pc \in Own, pc' \in Own,
         caller' \in {"choose", "reset", "cleanup"},
         pc' \in {"start", "delay"} => caller' # "cleanup"
  PROVE  RInv'
  BY DEF RInv, Places, Exclusion, Progress, Processes, runner, Own

\* The strengthened invariant holds when the streamer starts.
LEMMA InitIInv == Init => IInv
<1> SUFFICES ASSUME Init PROVE IInv
  OBVIOUS
<1>1. Flags
  BY DEF Init, Flags
<1>2. Data
  <2>1. clients \in 0..MaxClients
    BY StreamerAssumption DEF Init
  <2> QED
    BY <2>1 DEF Init, Data
<1>3. inner = [who \in Stoppers |-> "none"]
  BY DEF Init
<1>4. Places
  BY <1>3 DEF Init, Places, Own, Stoppers
<1>5. Exclusion /\ Progress /\ Processes
  BY <1>3 DEF Init, Exclusion, Progress, Processes, Stoppers
<1> QED
  BY <1>1, <1>2, <1>4, <1>5 DEF IInv, RInv

\* Requests, websockets, snapshots and the shutdown leave the Runner alone.
LEMMA EnvironmentStep == IInv /\ Environment => IInv'
<1> SUFFICES ASSUME Flags, Data, RInv, Environment PROVE Flags' /\ Data' /\ RInv'
  BY DEF IInv
<1> USE DEF Environment, runner, control, requests, Notify
<1>1. CASE ClientJoins
  <2>1. Flags'
    BY <1>1 DEF ClientJoins, Flags
  <2>2. Data'
    BY <1>1, StreamerAssumption DEF ClientJoins, Data
  <2> QED
    BY <1>1, <2>1, <2>2, Unmoved DEF ClientJoins
<1>2. CASE ClientLeaves
  <2>1. Flags'
    BY <1>2 DEF ClientLeaves, Flags
  <2>2. Data'
    BY <1>2, StreamerAssumption DEF ClientLeaves, Data
  <2> QED
    BY <1>2, <2>1, <2>2, Unmoved DEF ClientLeaves
<1>3. CASE SnapshotBegins \/ SnapshotEnds \/ ResetRequest \/ Shutdown
  <2>1. Flags'
    BY <1>3 DEF SnapshotBegins, SnapshotEnds, ResetRequest, Shutdown, Flags
  <2>2. Data'
    BY <1>3 DEF SnapshotBegins, SnapshotEnds, ResetRequest, Shutdown, Data
  <2>3. UNCHANGED <<pc, caller, runner>>
    BY <1>3 DEF SnapshotBegins, SnapshotEnds, ResetRequest, Shutdown
  <2> QED
    BY <2>1, <2>2, <2>3, Unmoved
<1>4. ASSUME NEW v \in Values, SetParamsRequest(v) PROVE Flags' /\ Data' /\ RInv'
  <2>1. Flags'
    BY <1>4 DEF SetParamsRequest, Flags
  <2>2. Data'
    BY <1>4 DEF SetParamsRequest, Data
  <2> QED
    BY <1>4, <2>1, <2>2, Unmoved DEF SetParamsRequest
<1>5. CASE TaskDies
  <2>1. Flags' /\ Data'
    BY <1>5 DEF TaskDies, Others, Flags, Data
  <2>2. RInv'
    BY <1>5 DEF TaskDies, Others, RInv, Places, Exclusion, Progress, Processes
  <2> QED
    BY <2>1, <2>2
<1> QED
  BY <1>1, <1>2, <1>3, <1>4, <1>5

\* The controller's own steps change only its place and the requests.
LEMMA ControllerStep ==
  IInv /\ (Top \/ Choose \/ After \/ Debounce \/ ApplyParams \/ CheckReset \/ ResetDone
           \/ Wait \/ Cancelled) => IInv'
<1> SUFFICES ASSUME Flags, Data, RInv,
                    Top \/ Choose \/ After \/ Debounce \/ ApplyParams \/ CheckReset \/ ResetDone
                    \/ Wait \/ Cancelled
             PROVE  Flags' /\ Data' /\ RInv'
  BY DEF IInv
<1> USE DEF runner, control, requests, Goto
<1>1. Data'
  <2>1. CASE ApplyParams
    BY <2>1 DEF ApplyParams, Data
  <2>2. CASE Top \/ Choose \/ After \/ Debounce
    BY <2>2 DEF Top, Choose, After, Debounce, Data
  <2>3. CASE CheckReset \/ ResetDone \/ Wait \/ Cancelled
    BY <2>3 DEF CheckReset, ResetDone, Wait, Cancelled, Data
  <2> QED
    BY <2>1, <2>2, <2>3
<1>2. Flags'
  <2>1. CASE Top
    <3>1. seen' = TRUE \/ seen' = FALSE
      BY <2>1 DEF Top
    <3> QED
      BY <2>1, <3>1 DEF Top, Flags
  <2>2. CASE Choose
    <3>1. prev' \in BOOLEAN
      BY <2>2, Zenon DEF Choose
    <3> QED
      BY <2>2, <3>1 DEF Choose, Flags
  <2>3. CASE After \/ Debounce \/ ApplyParams
    BY <2>3 DEF After, Debounce, ApplyParams, Flags
  <2>4. CASE CheckReset
    <3>1. again' \in BOOLEAN
      <4>1. CASE reset
        BY <2>4, <4>1, Zenon DEF CheckReset
      <4>2. CASE ~reset
        BY <2>4, <4>2 DEF CheckReset, Flags
      <4> QED
        BY <4>1, <4>2
    <3> QED
      BY <2>4, <3>1 DEF CheckReset, Flags
  <2>5. CASE ResetDone \/ Wait \/ Cancelled
    BY <2>5 DEF ResetDone, Wait, Cancelled, Flags
  <2> QED
    BY <2>1, <2>2, <2>3, <2>4, <2>5
<1>3. UNCHANGED runner /\ pc \in Own /\ pc' \in Own
  <2>1. CASE Top \/ Choose \/ After \/ Debounce
    BY <2>1 DEF Top, Choose, After, Debounce, Own
  <2>2. CASE ApplyParams \/ CheckReset \/ ResetDone \/ Wait \/ Cancelled
    BY <2>2 DEF ApplyParams, CheckReset, ResetDone, Wait, Cancelled, Own
  <2> QED
    BY <2>1, <2>2
<1>4. /\ caller' \in {"choose", "reset", "cleanup"}
      /\ pc' \in {"start", "delay"} => caller' # "cleanup"
  BY DEF RInv, Places, Top, Choose, After, Debounce, ApplyParams, CheckReset, ResetDone, Wait,
         Cancelled
<1> QED
  BY <1>1, <1>2, <1>3, <1>4, FreeMove

\* The calls into the Runner.
LEMMA RunnerStep ==
  IInv /\ (EnsureStart \/ StartWait \/ InnerStart \/ EnsureStopLater \/ EnsureStopNow
           \/ StopWait \/ Stopped) => IInv'
<1> SUFFICES ASSUME Flags, Data, RInv,
                    EnsureStart \/ StartWait \/ InnerStart \/ EnsureStopLater \/ EnsureStopNow
                    \/ StopWait \/ Stopped
             PROVE  Flags' /\ Data' /\ RInv'
  BY DEF IInv
<1> USE DEF runner, control, requests, RunnerCall
<1>1. Flags' /\ Data'
  <2>1. RunnerCall /\ UNCHANGED proc /\ procParams' \in {procParams, params}
    BY DEF EnsureStart, StartWait, InnerStart, EnsureStopLater, EnsureStopNow, StopWait, Stopped
  <2> QED
    BY <2>1 DEF Flags, Data
<1>2. Return => pc' \in {"after", "reset_done", "down"} /\ (pc' = "down" => caller = "cleanup")
  BY DEF Return, Goto, RInv, Places
<1>3. RInv'
  <2> USE DEF RInv, Places, Exclusion, Progress, Processes, Own, Goto, Stoppers
  <2>1. CASE EnsureStart
    BY <2>1, <1>2 DEF EnsureStart
  <2>2. CASE StartWait \/ Stopped
    BY <2>2, <1>2 DEF StartWait, Stopped
  <2>3. CASE InnerStart
    BY <2>3, <1>2 DEF InnerStart
  <2>4. CASE EnsureStopLater
    BY <2>4, <1>2 DEF EnsureStopLater
  <2>5. CASE EnsureStopNow
    BY <2>5 DEF EnsureStopNow
  <2>6. CASE StopWait
    BY <2>6 DEF StopWait
  <2> QED
    BY <2>1, <2>2, <2>3, <2>4, <2>5, <2>6
<1> QED
  BY <1>1, <1>3

\* The tasks of the Runner.
LEMMA TaskStep ==
  IInv /\ ((\E who \in Stoppers : Stop(who)) \/ Stopper \/ TaskSpawn \/ TaskRecover) => IInv'
<1> SUFFICES ASSUME Flags, Data, RInv,
                    (\E who \in Stoppers : Stop(who)) \/ Stopper \/ TaskSpawn \/ TaskRecover
             PROVE  Flags' /\ Data' /\ RInv'
  BY DEF IInv
<1> USE DEF requests, control, Others, Stop, Stopper
<1>1. Flags' /\ Data'
  <2>1. Others /\ procParams' = procParams
    BY DEF InnerCancel, InnerKill, InnerClear, StopperFires, StopperEnds, TaskSpawn, TaskRecover
  <2>2. asked' \in {asked, FALSE} /\ proc' \in {proc, procParams, NoParams}
    BY DEF InnerCancel, InnerKill, InnerClear, StopperFires, StopperEnds, TaskSpawn, TaskRecover
  <2>3. Flags'
    BY <2>1, <2>2 DEF Flags
  <2>4. Data'
    BY <2>1, <2>2 DEF Data
  <2> QED
    BY <2>3, <2>4
<1>2. RInv'
  <2> USE DEF RInv, Places, Exclusion, Progress, Processes
  <2>1. ASSUME NEW who \in Stoppers, InnerCancel(who) PROVE RInv'
    BY <2>1 DEF InnerCancel, Stoppers
  <2>2. ASSUME NEW who \in Stoppers, InnerKill(who) PROVE RInv'
    BY <2>2 DEF InnerKill, Stoppers
  <2>3. ASSUME NEW who \in Stoppers, InnerClear(who) PROVE RInv'
    BY <2>3 DEF InnerClear, Stoppers
  <2>4. CASE StopperFires
    BY <2>4 DEF StopperFires, Stoppers
  <2>5. CASE StopperEnds
    BY <2>5 DEF StopperEnds
  <2>6. CASE TaskSpawn
    BY <2>6 DEF TaskSpawn
  <2>7. CASE TaskRecover
    BY <2>7 DEF TaskRecover
  <2> QED
    BY <2>1, <2>2, <2>3, <2>4, <2>5, <2>6, <2>7
<1> QED
  BY <1>1, <1>2

\* A stuttering step keeps the strengthened invariant.
LEMMA Stutter == IInv /\ UNCHANGED vars => IInv'
<1> SUFFICES ASSUME Flags, Data, RInv, UNCHANGED vars PROVE Flags' /\ Data' /\ RInv'
  BY DEF IInv
<1>1. Flags' /\ Data'
  BY DEF Flags, Data, vars, runner, control, requests
<1>2. UNCHANGED <<pc, caller, runner>>
  BY DEF vars, control
<1> QED
  BY <1>1, <1>2, Unmoved

\* The strengthened invariant holds in every reachable state.
THEOREM Inductive == Spec => []IInv
<1>1. IInv /\ [Next]_vars => IInv'
  <2>1. IInv /\ Controller => IInv'
    BY ControllerStep, RunnerStep DEF Controller
  <2> QED
    BY <2>1, EnvironmentStep, TaskStep, Stutter DEF Next
<1> QED
  BY InitIInv, <1>1, PTL DEF Spec

\* Every variable keeps its type: in particular a running process was started
\* with parameters within the limits.
THEOREM TypeCorrect == Spec => []TypeOK
  BY Inductive, TypeParts, PTL

\* No assertion of the Runner can fail, for any interleaving of the controller,
\* the delayed stop, the process task and the cleanup.
THEOREM NoAssertionFails == Spec => []AssertionsHold
<1>1. IInv => AssertionsHold
  BY DEF IInv, RInv, Exclusion, Progress, Processes, AssertionsHold, Stoppers
<1> QED
  BY <1>1, Inductive, PTL

\* A process never outlives its task, nor the daemon's cleanup.
THEOREM NothingIsLeft == Spec => []NothingLeftBehind
<1>1. IInv => NothingLeftBehind
  BY DEF IInv, RInv, Exclusion, Progress, Processes, NothingLeftBehind
<1> QED
  BY <1>1, Inductive, PTL

-----------------------------------------------------------------------------
(* The controller settles on what is wanted.  Two things keep this from     *)
(* being inductive: what the controller has done is only known in the       *)
(* middle of its round (Follows, Fresh), and what it has seen is out of     *)
(* date as soon as a notification is queued (Seen).                         *)

Calls == {"start", "start_wait", "hook", "delay", "stop", "stop_inner", "stop_wait", "stopped"}

\* A task that has ended is being stopped by somebody.
DoneIsStopped == task = "done" => \E who \in Stoppers : inner[who] \in {"kill", "hook"}

\* What a process is behind with, __reset_streamer remembers.
Served ==
  /\ asked => reset /\ proc # NoParams
  /\ task # "none" /\ procParams # params => reset

\* Which call the controller makes for which reason.
Position ==
  /\ caller # "cleanup" /\ pc # "down"
  /\ pc \in {"stop", "stop_inner", "stop_wait", "stopped", "reset_done"} => caller = "reset"
  /\ pc = "delay" => caller = "choose" /\ ~prev
  /\ pc \in {"start", "start_wait", "hook"} => prev

\* Between two calls the process is kept exactly if the controller wants it.
Follows ==
  /\ pc \notin Calls \/ pc = "stop" => Kept = prev
  /\ pc \in {"stop", "stop_inner", "stop_wait", "stopped"} => again = prev

\* A restart brings a new process.
Fresh ==
  /\ caller = "reset" /\ pc \in {"stopped", "start", "start_wait", "hook"} => task = "none"
  /\ caller = "reset" /\ pc \in {"stopped", "start", "start_wait", "hook", "reset_done"} =>
       ~asked /\ (task # "none" => procParams = params)

\* Unless a notification waits, what the controller has seen is still so.
Seen ==
  ~note =>
    /\ pc = "choose" => seen = (clients > 0)
    /\ pc \notin {"top", "choose"} => prev = Wanted
    /\ pc \in {"check", "wait", "reset_done"} \/ (caller = "reset" /\ pc \in Calls) =>
         newParams = NoParams
    /\ pc = "wait" => ~reset

SInv == DoneIsStopped /\ Served /\ (~down => Position /\ Follows /\ Fresh /\ Seen)

\* At the start nothing is wanted or kept, and the controller has seen nothing.
LEMMA InitSInv == Init => SInv
<1> SUFFICES ASSUME Init PROVE SInv
  OBVIOUS
<1>1. DoneIsStopped /\ Served
  BY DEF Init, DoneIsStopped, Served
<1>2. Position /\ Follows /\ Fresh /\ Seen
  BY DEF Init, Position, Follows, Fresh, Seen, Kept, Calls
<1> QED
  BY <1>1, <1>2 DEF SInv

\* Who comes, leaves or asks for something queues a notification.
LEMMA EnvironmentSettles == IInv /\ SInv /\ Environment => SInv'
<1> SUFFICES ASSUME Flags, Data, RInv, SInv, Environment PROVE SInv'
  BY DEF IInv
<1> USE DEF Environment, runner, control, requests, Notify, SInv, Served, Position, Follows,
            Fresh, Seen, DoneIsStopped, Kept, Wanted, Calls
<1>1. CASE ClientJoins \/ ClientLeaves \/ SnapshotBegins \/ SnapshotEnds
  BY <1>1 DEF ClientJoins, ClientLeaves, SnapshotBegins, SnapshotEnds
<1>2. ASSUME NEW v \in Values, SetParamsRequest(v) PROVE SInv'
  BY <1>2 DEF SetParamsRequest
<1>3. CASE ResetRequest
  BY <1>3 DEF ResetRequest, Restarting, Flags
<1>4. CASE TaskDies
  BY <1>4 DEF TaskDies, Others
<1>5. CASE Shutdown
  BY <1>5 DEF Shutdown
<1> QED
  BY <1>1, <1>2, <1>3, <1>4, <1>5

\* The controller's own steps.
LEMMA ControllerSettles ==
  IInv /\ SInv /\ (Top \/ Choose \/ After \/ Debounce \/ ApplyParams \/ CheckReset \/ ResetDone
                   \/ Wait \/ Cancelled) => SInv'
<1> SUFFICES ASSUME Flags, Data, RInv, SInv,
                    Top \/ Choose \/ After \/ Debounce \/ ApplyParams \/ CheckReset \/ ResetDone
                    \/ Wait \/ Cancelled
             PROVE  SInv'
  BY DEF IInv
<1> USE DEF runner, control, requests, Goto, SInv, Served, Position, Follows,
            Fresh, Seen, DoneIsStopped, Kept, Wanted, Calls, Flags
<1>1. CASE Top
  BY <1>1 DEF Top
<1>2. CASE Choose
  BY <1>2 DEF Choose
<1>3. CASE After \/ Debounce \/ Wait
  BY <1>3 DEF After, Debounce, Wait
<1>4. CASE ApplyParams
  BY <1>4 DEF ApplyParams
<1>5. CASE CheckReset
  <2>1. CASE reset
    <3>1. again' = (task # "none" /\ stopper = "none")
      BY <1>5, <2>1, Zenon DEF CheckReset
    <3>2. task = "done" => stopper # "none"
      BY <1>5 DEF CheckReset, RInv, Exclusion, Progress, Stoppers
    <3>3. Kept <=> task # "none" /\ stopper = "none"
      BY <3>2 DEF RInv, Places
    <3>4. again' = prev
      BY <1>5, <3>1, <3>3 DEF CheckReset
    <3> QED
      BY <1>5, <2>1, <3>4 DEF CheckReset
  <2>2. CASE ~reset
    BY <1>5, <2>2 DEF CheckReset
  <2> QED
    BY <2>1, <2>2
<1>6. CASE ResetDone
  BY <1>6 DEF ResetDone
<1>7. CASE Cancelled
  BY <1>7 DEF Cancelled
<1> QED
  BY <1>1, <1>2, <1>3, <1>4, <1>5, <1>6, <1>7

\* The calls into the Runner.
LEMMA RunnerSettles ==
  IInv /\ SInv /\ (EnsureStart \/ StartWait \/ InnerStart \/ EnsureStopLater \/ EnsureStopNow
                   \/ StopWait \/ Stopped) => SInv'
<1> SUFFICES ASSUME Flags, Data, RInv, SInv,
                    EnsureStart \/ StartWait \/ InnerStart \/ EnsureStopLater \/ EnsureStopNow
                    \/ StopWait \/ Stopped
             PROVE  SInv'
  BY DEF IInv
<1> USE DEF runner, control, requests, RunnerCall, Goto, SInv, Served, Position, Follows,
            Fresh, Seen, DoneIsStopped, Kept, Wanted, Calls, Flags
<1>1. Return => pc' = CASE caller = "choose" -> "after" [] caller = "reset" -> "reset_done"
                        [] caller = "cleanup" -> "down"
  BY DEF Return
<1> USE DEF RInv, Places, Own, Exclusion, Progress, Processes, Stoppers
<1>2. CASE EnsureStart
  <2>1. CASE task # "none" /\ stopper \in {"none", "sleep"}
    BY <1>1, <1>2, <2>1 DEF EnsureStart
  <2>2. CASE stopper = "wip" \/ task = "none"
    BY <1>1, <1>2, <2>2 DEF EnsureStart
  <2> QED
    BY <2>1, <2>2
<1>3. CASE StartWait
  BY <1>3 DEF StartWait
<1>4. CASE InnerStart
  BY <1>1, <1>4 DEF InnerStart
<1>5. CASE EnsureStopLater
  BY <1>1, <1>5 DEF EnsureStopLater
<1>6. CASE EnsureStopNow
  BY <1>6 DEF EnsureStopNow
<1>7. CASE StopWait
  BY <1>7 DEF StopWait
<1>8. CASE Stopped
  BY <1>1, <1>8 DEF Stopped
<1> QED
  BY <1>2, <1>3, <1>4, <1>5, <1>6, <1>7, <1>8

\* The tasks of the Runner: a kept process is only ended by a stop that was planned.
LEMMA TaskSettles ==
  IInv /\ SInv /\ ((\E who \in Stoppers : Stop(who)) \/ Stopper \/ TaskSpawn \/ TaskRecover)
    => SInv'
<1> SUFFICES ASSUME Flags, Data, RInv, SInv,
                    (\E who \in Stoppers : Stop(who)) \/ Stopper \/ TaskSpawn \/ TaskRecover
             PROVE  SInv'
  BY DEF IInv
<1> USE DEF requests, control, Others, Stop, Stopper, Stoppers, SInv, Served, Position, Follows,
            Fresh, Seen, DoneIsStopped, Kept, Wanted, Calls, Flags,
            RInv, Places, Own, Exclusion, Progress, Processes
<1>1. ASSUME NEW who \in Stoppers, InnerCancel(who) PROVE SInv'
  BY <1>1 DEF InnerCancel
<1>2. ASSUME NEW who \in Stoppers, InnerKill(who) PROVE SInv'
  BY <1>2 DEF InnerKill
<1>3. ASSUME NEW who \in Stoppers, InnerClear(who) PROVE SInv'
  BY <1>3 DEF InnerClear
<1>4. CASE StopperFires
  BY <1>4 DEF StopperFires
<1>5. CASE StopperEnds
  BY <1>5 DEF StopperEnds
<1>6. CASE TaskSpawn
  BY <1>6 DEF TaskSpawn
<1>7. CASE TaskRecover
  BY <1>7 DEF TaskRecover
<1> QED
  BY <1>1, <1>2, <1>3, <1>4, <1>5, <1>6, <1>7

\* When the controller sleeps and nothing is queued, the process is kept exactly
\* if somebody wants it, with the parameters in force, and no request is left.
THEOREM ControllerSettlesRight == Spec => []SettledIsRight
<1>1. IInv /\ SInv /\ UNCHANGED vars => SInv'
  BY DEF vars, requests, control, runner, SInv, Served, Position, Follows, Fresh, Seen,
         DoneIsStopped, Kept, Wanted, Calls
<1>2. IInv /\ SInv /\ [Next]_vars => SInv'
  <2>1. IInv /\ SInv /\ Controller => SInv'
    BY ControllerSettles, RunnerSettles DEF Controller
  <2> QED
    BY <1>1, <2>1, EnvironmentSettles, TaskSettles DEF Next
<1>3. IInv /\ SInv => SettledIsRight
  BY DEF IInv, Flags, SInv, Follows, Seen, Served, SettledIsRight, Calls
<1> QED
  BY Inductive, InitSInv, <1>2, <1>3, PTL DEF Spec

=============================================================================
