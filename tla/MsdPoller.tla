----------------------------- MODULE MsdPoller ------------------------------
(***************************************************************************)
(* What the web clients are told about the drive: poll_state() of          *)
(* kvmd/plugins/msd/otg, a deadly task over the state that MsdOtg moves.   *)
(* The generator waits for a notification, reads the state under the lock  *)
(* and yields the whole of it when `online` has changed or a new websocket *)
(* asked for it, and otherwise the parts that have changed.                *)
(*                                                                         *)
(* Of a state only `online`, `busy` and whether there is a storage are     *)
(* kept.  Notifications queue up, so the wait and the read are one step.   *)
(***************************************************************************)
EXTENDS MsdOtg

CONSTANTS
  NoState    \* nothing has been yielded, or everything is to be yielded again

VARIABLES
  nr,        \* the queued notifications, or-ed: "none", "some" or "full"
  prev,      \* `prev` of poll_state(): what the clients know
  alive      \* the deadly task has not raised

poller == <<nr, prev, alive>>
allVars == <<vars, poller>>

\* get_state().  The storage and the drive are None together.
Current == [online |-> vd # NoVd /\ enabled, busy |-> busy, storage |-> vd # NoVd]

\* The region is entered or left, or a reload is over.
Notifies ==
  \/ busy' # busy
  \/ task \in {"scan", "read", "probe", "set"} /\ task' = "watch"

\* A step of the drive.
DriveStep ==
  /\ Work
  /\ nr' = IF Notifies /\ nr = "none" THEN "some" ELSE nr
  /\ UNCHANGED <<prev, alive>>

\* kvmd is started again, with a new generator and an empty queue.
NewGenerator ==
  /\ Restart
  /\ nr' = "none" /\ prev' = NoState /\ alive' = TRUE

\* trigger_state(): a websocket was opened.
Trigger ==
  /\ alive /\ nr # "full"
  /\ nr' = "full"
  /\ UNCHANGED <<vars, prev, alive>>

\* The states are compared part by part: everything is yielded again.
Whole == nr = "full" \/ prev = NoState \/ prev.online # Current.online

Poll_Forgets ==
  /\ alive /\ nr # "none" /\ lock = "free"
  /\ nr' = "none"
  /\ IF Whole \/ Current.storage \/ ~prev.storage
     THEN /\ prev' = IF Whole THEN Current ELSE [prev EXCEPT !.storage = Current.storage]
          /\ alive' = alive
     ELSE prev' = prev /\ alive' = FALSE
  /\ UNCHANGED vars

\* The parts of a storage that has become None are looked up in it.
Poll ==
  /\ alive /\ nr # "none" /\ lock = "free"
  /\ nr' = "none"
  /\ IF Whole \/ Current.storage \/ ~prev.storage
     THEN prev' = Current /\ alive' = alive
     ELSE prev' = prev /\ alive' = FALSE
  /\ UNCHANGED vars

PollInit == Init /\ nr = "none" /\ prev = NoState /\ alive = TRUE

PollNext == DriveStep \/ NewGenerator \/ Trigger \/ Poll

PollSpec == PollInit /\ [][PollNext]_allVars

-----------------------------------------------------------------------------
(* Properties *)

\* With nothing queued and the watcher idle, the clients know the state: no
\* change of `online`, `busy` or the storage goes untold.
ClientsKnow ==
  alive /\ nr = "none" /\ task = "watch" /\ events = {} => prev = Current

\* The generator does not raise: in the granularity table a storage is nullable,
\* so a client must be told that it is gone.
PollerSurvives == alive

=============================================================================
