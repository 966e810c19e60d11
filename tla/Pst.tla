--------------------------------- MODULE Pst ---------------------------------
(***************************************************************************)
(* kvmd-pst (kvmd/apps/pst/server.py): a partition is mounted read-write   *)
(* while somebody holds a websocket, and read-only otherwise.  One action  *)
(* per stretch between two awaits of the controller and of the shutdown.   *)
(* A client has one connection at a time, and finds its end in "link"; the *)
(* server notices the end of a connection in a step of its own.            *)
(***************************************************************************)
EXTENDS Integers, Sequences

CONSTANTS
  Clients,     \* who may connect
  MaxFailures  \* bound on remounts and writes that fail by themselves

ASSUME PstAssumption == MaxFailures \in Nat

VARIABLES
  rw,        \* the partition is mounted read-write
  files,     \* clients with a file open for writing on it
  wss,       \* the websockets the server has registered
  note,      \* AioNotifier: somebody came or left
  pc,        \* of the controller: "check", "rw", "ro", "pause", "wait" or "off"
  prev,      \* clients the controller knew of in its last round
  down,      \* of the shutdown: "no", "stop", "close", "clean" or "off"
  link,      \* what each client knows of its connection: "none", "open" or "closed"
  inbox,     \* storage events on their way to each client
  told,      \* the last of them: "nothing", "yes" or "no"
  failures   \* failures that may still come

mount == <<rw, files>>
server == <<wss, note, pc, prev, down>>
clients == <<link, inbox, told>>
pstVars == <<mount, server, clients, failures>>

Count(set) == IF set = {} THEN 0 ELSE 1  \* the controller only tells none from some

Fails == failures > 0 /\ failures' = failures - 1

-----------------------------------------------------------------------------
(* The controller *)

\* An event that says the same as the unread one before it adds nothing.
Received(events, allowed) ==
  IF events # <<>> /\ events[Len(events)] = allowed THEN events ELSE Append(events, allowed)

\* __broadcast_storage_state()
Broadcast(allowed) ==
  /\ inbox' = [c \in Clients |-> IF c \in wss /\ link[c] = "open"
                                   THEN Received(inbox[c], allowed) ELSE inbox[c]]
  /\ told' = [c \in Clients |-> IF c \in wss THEN (IF allowed THEN "yes" ELSE "no") ELSE told[c]]
  /\ UNCHANGED link

\* A round is over: the clients are told what the file system says.
Tell(cur) ==
  /\ Broadcast(rw')
  /\ prev' = cur
  /\ pc' = "wait"

Check ==
  /\ pc = "check"
  /\ LET cur == Count(wss) IN
       \/ /\ cur > 0 /\ ~rw
          /\ pc' = "rw" /\ UNCHANGED <<rw, prev, clients>>
       \/ /\ prev > 0 /\ cur = 0
          /\ pc' = "ro" /\ UNCHANGED <<rw, prev, clients>>
       \/ /\ (cur > 0 /\ rw) \/ (prev = 0 /\ cur = 0)
          /\ UNCHANGED rw /\ Tell(cur)
  /\ UNCHANGED <<files, wss, note, down, failures>>

\* The clients are told what was wanted and not what is.
RemountRw_Optimistic ==
  /\ pc = "rw"
  /\ \/ rw' = TRUE /\ UNCHANGED failures
     \/ rw' = rw /\ Fails
  /\ Broadcast(TRUE) /\ prev' = 1 /\ pc' = "wait"
  /\ UNCHANGED <<files, wss, note, down>>

\* The remount ends; it is not tried again before the next notification.
RemountRw ==
  /\ pc = "rw"
  /\ \/ rw' = TRUE /\ UNCHANGED failures
     \/ rw' = rw /\ Fails
  /\ Tell(1)
  /\ UNCHANGED <<files, wss, note, down>>

\* One attempt only.
RemountRo_Once ==
  /\ pc = "ro"
  /\ \/ files = {} /\ rw' = FALSE /\ UNCHANGED failures
     \/ files # {} /\ UNCHANGED <<rw, failures>>
     \/ files = {} /\ UNCHANGED rw /\ Fails
  /\ Tell(0)
  /\ UNCHANGED <<files, wss, note, down>>

\* A remount to read-only cannot succeed while a file is open for writing.
\* After a failure it is tried again: at once if a client has come meanwhile.
RemountRo ==
  /\ pc = "ro"
  /\ \/ /\ files = {}
        /\ rw' = FALSE /\ Tell(0)
        /\ UNCHANGED failures
     \/ /\ IF files = {} THEN Fails ELSE UNCHANGED failures
        /\ pc' = IF wss # {} THEN "ro" ELSE "pause"
        /\ UNCHANGED <<rw, prev, clients>>
  /\ UNCHANGED <<files, wss, note, down>>

\* ro_retries_delay is over.
Retry ==
  /\ pc = "pause"
  /\ pc' = "ro"
  /\ UNCHANGED <<mount, wss, note, prev, down, clients, failures>>

Notified ==
  /\ pc = "wait" /\ note
  /\ note' = FALSE
  /\ pc' = "check"
  /\ UNCHANGED <<mount, wss, prev, down, clients, failures>>

-----------------------------------------------------------------------------
(* Websockets *)

Connect(c) ==
  /\ link[c] = "none" /\ c \notin wss /\ down = "no"
  /\ link' = [link EXCEPT ![c] = "open"]
  /\ inbox' = [inbox EXCEPT ![c] = <<>>]
  /\ told' = [told EXCEPT ![c] = "nothing"]
  /\ wss' = wss \cup {c}
  /\ note' = TRUE
  /\ UNCHANGED <<pc, prev, down>>

\* The client's end of it.
Leave(c) ==
  /\ link' = [link EXCEPT ![c] = "none"]
  /\ inbox' = [inbox EXCEPT ![c] = <<>>]
  /\ UNCHANGED told

\* The server's end of it.
RemoveWs(c) ==
  /\ c \in wss /\ link[c] = "none"
  /\ wss' = wss \ {c}
  /\ note' = TRUE
  /\ UNCHANGED <<mount, pc, prev, down, clients, failures>>

-----------------------------------------------------------------------------
(* Start and shutdown *)

\* _init_app(): to read-write and back, and the second may fail.
Start ==
  /\ down = "off"
  /\ down' = "no"
  /\ pc' = "check" /\ prev' = 0 /\ note' = FALSE
  /\ \/ files = {} /\ rw' = FALSE /\ UNCHANGED failures
     \/ files # {} /\ rw' = TRUE /\ UNCHANGED failures
     \/ files = {} /\ rw' = TRUE /\ Fails
  /\ UNCHANGED <<files, wss, clients>>

\* The tasks are stopped; a remount that is under way may still take effect.
StopTasks ==
  /\ down = "no"
  /\ down' = "stop" /\ pc' = "off"
  /\ rw' \in CASE pc = "rw" -> {rw, TRUE}
               [] pc = "ro" /\ files = {} -> {rw, FALSE}
               [] OTHER -> {rw}
  /\ UNCHANGED <<files, wss, note, prev, clients, failures>>

TellAll ==
  /\ down = "stop"
  /\ down' = "close"
  /\ Broadcast(FALSE)
  /\ UNCHANGED <<mount, wss, note, pc, prev, failures>>

CloseAllWss ==
  /\ down = "close"
  /\ down' = "clean"
  /\ link' = [c \in Clients |-> IF c \in wss /\ link[c] = "open" THEN "closed" ELSE link[c]]
  /\ wss' = {}
  /\ note' = TRUE
  /\ UNCHANGED <<mount, pc, prev, inbox, told, failures>>

\* ro_cleanup_delay, if there was a client, and one last remount.
Cleanup ==
  /\ down = "clean"
  /\ down' = "off"
  /\ \/ files = {} /\ rw' = FALSE /\ UNCHANGED failures
     \/ files # {} /\ UNCHANGED <<rw, failures>>
     \/ files = {} /\ UNCHANGED rw /\ Fails
  /\ UNCHANGED <<files, wss, note, pc, prev, clients>>

Controller == Check \/ RemountRw \/ RemountRo \/ Retry \/ Notified

Shutdown == TellAll \/ CloseAllWss \/ Cleanup \/ Start

PstInit ==
  /\ rw \in BOOLEAN /\ files = {}
  /\ wss = {} /\ note = FALSE /\ pc = "check" /\ prev = 0 /\ down = "no"
  /\ link = [c \in Clients |-> "none"]
  /\ inbox = [c \in Clients |-> <<>>]
  /\ told = [c \in Clients |-> "nothing"]
  /\ failures = MaxFailures

-----------------------------------------------------------------------------

PstType ==
  /\ rw \in BOOLEAN /\ files \subseteq Clients
  /\ wss \subseteq Clients /\ note \in BOOLEAN /\ prev \in 0 .. 1
  /\ pc \in {"check", "rw", "ro", "pause", "wait", "off"}
  /\ down \in {"no", "stop", "close", "clean", "off"}
  /\ link \in [Clients -> {"none", "open", "closed"}]
  /\ inbox \in [Clients -> Seq(BOOLEAN)]
  /\ told \in [Clients -> {"nothing", "yes", "no"}]
  /\ failures \in 0 .. MaxFailures

\* A client that was told it may write can write as long as it holds its
\* websocket, whoever else comes and goes and whatever fails, until a shutdown.
WritableWhileAllowed ==
  \A c \in wss : told[c] = "yes" /\ down = "no" => rw

\* Once the controller has seen a client, the partition does not stay writable
\* without one.
ReadOnlyAgain == prev > 0 ~> (~rw \/ wss # {} \/ down # "no")

=============================================================================
