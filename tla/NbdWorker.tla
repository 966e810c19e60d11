------------------------------ MODULE NbdWorker ------------------------------
(***************************************************************************)
(* The process that serves one remote image as a block device (NbdProcess  *)
(* of kvmd/nbd/process.py, NbdLink, NbdDevice and the part of BaseNbdRemote *)
(* that handles requests).  Three tasks share a pair of sockets, the link:  *)
(* "device" sits in NBD_DO_IT, "remote" answers the requests of the kernel, *)
(* and "checker" opens the device once and reports that it works.  Whichever *)
(* ends shuts the link down, and a second later the others are cancelled.   *)
(*                                                                         *)
(* Data, offsets and the protocols of the remotes are left out: a request   *)
(* succeeds, fails in a way that is tried again, or fails for good.         *)
(***************************************************************************)
EXTENDS Naturals, Sequences

CONSTANTS
  MaxFaults  \* bound: failures, timeouts, crashes, disconnections

VARIABLES
  worker,    \* "none", "boot", "loop", "up", "closing", "dead"
  device,    \* __sub_device_server(): "open", "serving", "done"
  remote,    \* __sub_remote_server(): "validate", "recv", "retry", "done"
  checker,   \* __sub_checker(): "wait", "pid", "open", "infinite", "done"
  link,      \* the sockets are connected
  stopped,   \* NbdLink._stopped: the link was shut down here
  eventsQ,   \* __events_q
  ready,     \* __ready_nr: "none", "failed" (0) or "online" (1)
  sigterm,   \* a SIGTERM is pending
  asked,     \* history: the process has handled a SIGTERM
  cause,     \* history: the first stop event it put
  lost,      \* history: what it put may not have been read
  faults

tasks == <<device, remote, checker>>
workerVars == <<worker, device, remote, checker, link, stopped, eventsQ, ready, sigterm,
                asked, cause, lost, faults>>

\* NbdRunningEvent and NbdStoppedEvent.
Running(online) == [kind |-> "running", src |-> "", ok |-> online]
Stopped(src, ok) == [kind |-> "stopped", src |-> src, ok |-> ok]
NoEvent == [kind |-> "none", src |-> "", ok |-> FALSE]

Fault == faults < MaxFaults /\ faults' = faults + 1

Alive == worker \notin {"none", "dead"}
Working == worker \in {"up", "closing"}

\* put_nowait(): the first reason to stop is remembered.
Put(e) ==
  /\ eventsQ' = Append(eventsQ, e)
  /\ cause' = IF e.kind = "stopped" /\ cause = NoEvent THEN e ELSE cause

\* NbdLink.shutdown()
Shutdown == link' = FALSE /\ stopped' = TRUE

\* A subtask ends with an error: shutdown_at_end(), then __catch_exceptions().
Fails(src) == Shutdown /\ Put(Stopped(src, FALSE))

\* /sys/block/nbdX/pid exists.
Pid == worker # "dead" /\ device = "serving"

-----------------------------------------------------------------------------
(* The process *)

\* The process that was forked has no signal handlers of its own yet.
Boot ==
  /\ worker = "boot"
  /\ worker' = "loop"
  /\ UNCHANGED <<tasks, link, stopped, eventsQ, ready, sigterm, asked, cause, lost, faults>>

\* __subprocess_loop(): the link, the handlers of the signals, the three tasks.
Spawn ==
  /\ worker = "loop"
  /\ worker' = "up"
  /\ device' = "open" /\ remote' = "validate" /\ checker' = "wait"
  /\ link' = TRUE /\ stopped' = FALSE
  /\ UNCHANGED <<eventsQ, ready, sigterm, asked, cause, lost, faults>>

\* spawn_and_follow(): the first task is over, a second passes.
FirstEnds ==
  /\ worker = "up"
  /\ "done" \in {device, remote, checker}
  /\ worker' = "closing"
  /\ UNCHANGED <<tasks, link, stopped, eventsQ, ready, sigterm, asked, cause, lost, faults>>

\* The rest is cancelled.  A checker that has not reported notifies.
Cancelled ==
  /\ device' = "done" /\ remote' = "done" /\ checker' = "done"
  /\ ready' = IF checker \in {"wait", "pid", "open"} THEN "failed" ELSE ready

CancelRest ==
  /\ worker = "closing"
  /\ worker' = "dead"
  /\ Cancelled
  /\ Shutdown
  /\ UNCHANGED <<eventsQ, sigterm, asked, cause, lost, faults>>

Die ==
  /\ worker' = "dead"
  /\ device' = "done" /\ remote' = "done" /\ checker' = "done"
  /\ link' = FALSE

\* The process is killed, at worst before its events are written to the pipe.
Crash ==
  /\ Alive
  /\ Fault
  /\ Die
  /\ eventsQ' \in {SubSeq(eventsQ, 1, n) : n \in 0 .. Len(eventsQ)}
  /\ lost' = TRUE
  /\ UNCHANGED <<stopped, ready, sigterm, asked, cause>>

Terminated_KeepsLink ==
  /\ sigterm /\ Alive
  /\ sigterm' = FALSE
  /\ asked' = (asked \/ worker # "boot")
  /\ \/ worker = "boot" /\ UNCHANGED <<worker, tasks, link, stopped, eventsQ, cause, ready>>
     \/ worker = "loop" /\ Die /\ UNCHANGED <<stopped, eventsQ, cause, ready>>
     \/ Working /\ Put(Stopped("main", TRUE)) /\ UNCHANGED <<worker, tasks, ready, link, stopped>>
  /\ UNCHANGED <<lost, faults>>

\* A SIGTERM arrives.  Before the loop has its handlers it is ignored; before
\* there is a link it is a SystemExit; then stop() shuts the link down.  When
\* the remote has closed its socket already, stop() cancels the tasks.
Terminated ==
  /\ sigterm /\ Alive
  /\ sigterm' = FALSE
  /\ asked' = (asked \/ worker # "boot")
  /\ \/ worker = "boot" /\ UNCHANGED <<worker, tasks, link, stopped, eventsQ, cause, ready>>
     \/ worker = "loop" /\ Die /\ UNCHANGED <<stopped, eventsQ, cause, ready>>
     \/ Working /\ Shutdown /\ Put(Stopped("main", TRUE)) /\ UNCHANGED <<worker, tasks, ready>>
     \/ Working /\ ~link /\ Cancelled /\ stopped' = FALSE /\ UNCHANGED <<worker, link, eventsQ, cause>>
  /\ UNCHANGED <<lost, faults>>

-----------------------------------------------------------------------------
(* The device *)

\* open_prepared(), and NBD_DO_IT begins.
DevicePrepared ==
  /\ Working /\ device = "open"
  /\ device' = "serving"
  /\ UNCHANGED <<worker, remote, checker, link, stopped, eventsQ, ready, sigterm, asked, cause, lost, faults>>

\* The device is bound by somebody else, or an ioctl fails.
DeviceFails ==
  /\ Working /\ device = "open"
  /\ Fault
  /\ device' = "done"
  /\ Fails("device")
  /\ UNCHANGED <<worker, remote, checker, ready, sigterm, asked, lost>>

\* NBD_DO_IT returns when the link is down, with or without an error.
DeviceEnds ==
  /\ Working /\ device = "serving" /\ ~link
  /\ device' = "done"
  /\ \/ Fails("device")
     \/ Shutdown /\ UNCHANGED <<eventsQ, cause>>
  /\ UNCHANGED <<worker, remote, checker, ready, sigterm, asked, lost, faults>>

\* Somebody disconnects the device; this end of the link is not told.
KernelDisconnects ==
  /\ Working /\ device = "serving" /\ link
  /\ Fault
  /\ link' = FALSE
  /\ UNCHANGED <<worker, tasks, stopped, eventsQ, ready, sigterm, asked, cause, lost>>

-----------------------------------------------------------------------------
(* The remote *)

\* serve(): the image is what it was when it was probed.
Validated ==
  /\ Working /\ remote = "validate"
  /\ remote' = "recv"
  /\ UNCHANGED <<worker, device, checker, link, stopped, eventsQ, ready, sigterm, asked, cause, lost, faults>>

\* A request fails: __ensured_for_io() closes the connection and tells that it
\* is offline, every time it tries again.
RequestFails ==
  /\ Working
  /\ (remote = "recv" /\ device = "serving" /\ link) \/ remote = "retry"
  /\ Fault
  /\ remote' = "retry"
  /\ Put(Running(FALSE))
  /\ UNCHANGED <<worker, device, checker, link, stopped, ready, sigterm, asked, lost>>

RetrySucceeds ==
  /\ Working /\ remote = "retry"
  /\ remote' = "recv"
  /\ Put(Running(TRUE))
  /\ UNCHANGED <<worker, device, checker, link, stopped, ready, sigterm, asked, lost, faults>>

\* An error that ends the service: another size, no right to write, a broken
\* protocol, or any error of the validation.
RemoteFails ==
  /\ Working
  /\ remote \in {"validate", "retry"} \/ (remote = "recv" /\ device = "serving" /\ link)
  /\ Fault
  /\ remote' = "done"
  /\ Fails("remote")
  /\ UNCHANGED <<worker, device, checker, ready, sigterm, asked, lost>>

\* The link is closed: an error unless this end did it.
RemoteClosed ==
  /\ Working /\ remote = "recv" /\ ~link
  /\ remote' = "done"
  /\ IF stopped THEN Shutdown /\ UNCHANGED <<eventsQ, cause>> ELSE Fails("remote")
  /\ UNCHANGED <<worker, device, checker, ready, sigterm, asked, lost, faults>>

-----------------------------------------------------------------------------
(* The checker *)

\* wait_passed() and wait_pid()
CheckerGoes ==
  /\ Working
  /\ \/ checker = "wait" /\ device = "serving" /\ checker' = "pid"
     \/ checker = "pid" /\ Pid /\ checker' = "open"
  /\ UNCHANGED <<worker, device, remote, link, stopped, eventsQ, ready, sigterm, asked, cause, lost, faults>>

\* open_close() worked: online.
CheckerReports ==
  /\ Working /\ checker = "open"
  /\ checker' = "infinite"
  /\ Put(Running(TRUE))
  /\ ready' = "online"
  /\ UNCHANGED <<worker, device, remote, link, stopped, sigterm, asked, lost, faults>>

\* No pid in time, or the device cannot be opened.
CheckerFails ==
  /\ Working /\ checker \in {"pid", "open"}
  /\ (~Pid /\ UNCHANGED faults) \/ Fault
  /\ checker' = "done"
  /\ ready' = "failed"
  /\ Fails("checker")
  /\ UNCHANGED <<worker, device, remote, sigterm, asked, lost>>

DeviceStep == DevicePrepared \/ DeviceFails \/ DeviceEnds
RemoteStep == Validated \/ RequestFails \/ RetrySucceeds \/ RemoteFails \/ RemoteClosed
CheckerStep == CheckerGoes \/ CheckerReports \/ CheckerFails
MainStep == Boot \/ Spawn \/ FirstEnds \/ CancelRest

WorkerStep == MainStep \/ Terminated \/ DeviceStep \/ RemoteStep \/ CheckerStep
WorkerFault == Crash \/ KernelDisconnects

=============================================================================
