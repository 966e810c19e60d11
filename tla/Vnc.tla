--------------------------------- MODULE Vnc ---------------------------------
(***************************************************************************)
(* One client of kvmd-vnc at a time, from the handshake to the cleanup     *)
(* (kvmd/apps/vnc/server.py, kvmd/apps/vnc/rfb): the tasks of the          *)
(* connection, which wait for each other in three stages and end together, *)
(* with the frames (VncFrames) and the input (VncInput) of the client.     *)
(* The encryption and the passwords of the handshake are left out.         *)
(***************************************************************************)
EXTENDS VncFrames, VncInput

CONSTANTS
  Abilities,   \* encodings of clients
  Units,       \* numbers of units of the switch
  Budgets      \* bounds: connections, settings, inputs, and whether the client watches:
               \* if not, it asks for no updates, and its streamer is silent

VARIABLES
  life,      \* "none", "open" or "ending", after the end of a task
  main,      \* "security", "loop", "encodings" or "params"
  kvmd,      \* "stage1", "stage2", "params" or "ws"
  accepted,  \* __stage2_encodings_accepted
  closing,   \* KVMD has not noticed the end of a websocket
  left       \* what may still come

tasks == <<life, main, kvmd, accepted>>
vars == <<frameVars, inputVars, tasks, closing, left>>

Spend(what) == left[what] > 0 /\ left' = [left EXCEPT ![what] = @ - 1]

\* After the end of a task the others are cancelled before they go far.
Running == life = "open" /\ UNCHANGED closing

-----------------------------------------------------------------------------
(* The connection *)

\* handle_client() asks KVMD for its kind of authorization, which may fail.
Connect ==
  /\ life = "none" /\ Spend("clients")
  /\ life' \in {"none", "open"}
  /\ UNCHANGED <<frameVars, inputVars, main, kvmd, accepted, closing>>

\* The right answer in a kind of security both sides know: stage one.
Authorize ==
  /\ Running /\ main = "security"
  /\ main' = "loop" /\ kvmd' = "stage2"
  /\ UNCHANGED <<frameVars, inputVars, life, accepted, left>>

\* A task is over, whatever the reason.
Fail ==
  /\ Running /\ life' = "ending"
  /\ UNCHANGED <<frameVars, inputVars, main, kvmd, accepted, left>>

\* The peer is gone, a message of it or an answer of KVMD is bad, or the
\* websocket is closed.
TaskFails == Fail

NoEncodingsInTime == kvmd = "stage2" /\ ~accepted /\ Fail

Unaccepted == SenderFails /\ Fail

\* Both __cleanup(): the tasks are cancelled, and the websocket is closed with
\* the task that has it.  The next client begins from the start.
Cleanup ==
  /\ life = "ending"
  /\ life' = "none" /\ main' = "security" /\ kvmd' = "stage1" /\ accepted' = FALSE
  /\ NextClient /\ NextInput /\ closing' = (closing \/ ws)
  /\ UNCHANGED left

-----------------------------------------------------------------------------
(* The task of KVMD *)

KvmdTask == Running /\ UNCHANGED <<frameVars, life, main, accepted, left>>

Accepted ==
  /\ KvmdTask /\ kvmd = "stage2" /\ accepted
  /\ kvmd' = "params"
  /\ UNCHANGED inputVars

\* set_params() and the websocket, at which KVMD lets go of everything.
OpenKvmdWs ==
  /\ KvmdTask /\ kvmd = "params"
  /\ kvmd' = "ws" /\ ws' = TRUE /\ held' = {}
  /\ UNCHANGED <<mods, buttons, magic, units, down>>

Event ==
  /\ KvmdTask /\ UNCHANGED kvmd
  /\ \E n \in Units : SwitchEvent(n)

\* KVMD notices the end of a websocket, and lets go of everything again.
RemoveWs ==
  /\ closing /\ closing' = FALSE /\ held' = {}
  /\ UNCHANGED <<frameVars, mods, buttons, magic, units, down, ws, tasks, left>>

-----------------------------------------------------------------------------
(* The main task *)

Message == Running /\ main = "loop" /\ UNCHANGED <<life, kvmd, accepted>>

\* __handle_set_encodings(): the task that sends frames sees the new ones at once.
SetEncodings(e) ==
  /\ Message /\ Spend("settings")
  /\ enc' = e /\ main' = "encodings"
  /\ UNCHANGED <<inputVars, reading, queue, hasKey, last, sender, notified, cont, reset,
                 size, shared, client>>

\* _on_set_encodings(): stage two, and then KVMD is asked ...
AcceptEncodings ==
  /\ Running /\ main = "encodings"
  /\ accepted' = TRUE /\ main' = "params"
  /\ UNCHANGED <<frameVars, inputVars, life, kvmd, left>>

\* ... and answers.
ApplyParams ==
  /\ Running /\ main = "params" /\ main' = "loop"
  /\ UNCHANGED <<frameVars, inputVars, life, kvmd, accepted, left>>

Input ==
  /\ Message /\ Spend("inputs") /\ UNCHANGED <<frameVars, main>>
  /\ \E state \in BOOLEAN :
       \/ \E code \in Codes : KeyEvent(code, state)
       \/ \E key \in Keys : QemuEvent(key, state)
       \/ \E button \in Buttons : PointerEvent(button, state)

\* __check_encodings() wants SetEncodings first.
Request == Message /\ accepted /\ left.watches /\ UpdateRequest /\ UNCHANGED <<inputVars, main, left>>

ContUpdates ==
  /\ Message /\ Spend("settings")
  /\ \E enabled \in BOOLEAN : EnableContUpdates(enabled)
  /\ UNCHANGED <<inputVars, main>>

MainTask ==
  \/ Authorize \/ AcceptEncodings \/ ApplyParams
  \/ Input \/ Request \/ ContUpdates
  \/ \E e \in Abilities : SetEncodings(e)

-----------------------------------------------------------------------------
(* The tasks of the frames *)

Frames == Running /\ UNCHANGED <<inputVars, tasks, left>>

\* Stage three is the websocket.
ReadTask ==
  /\ Frames /\ Read
  /\ source = "stage3" => ws
  /\ source = "read" => left.watches

SendTask == Frames /\ SendFrames

-----------------------------------------------------------------------------

Init ==
  /\ life = "none" /\ main = "security" /\ kvmd = "stage1" /\ accepted = FALSE
  /\ FramesInit /\ InputInit /\ closing = FALSE
  /\ left \in Budgets

Next ==
  \/ Connect \/ TaskFails \/ NoEncodingsInTime \/ Unaccepted \/ Cleanup
  \/ Accepted \/ OpenKvmdWs \/ Event \/ RemoveWs
  \/ MainTask \/ ReadTask \/ SendTask

Spec == Init /\ [][Next]_vars

\* The tasks go on, the timeout comes, and KVMD notices; the client does as it likes,
\* and so do failures.  A streamer is opened or gives an error, but one that is read
\* may be silent for ever: read_frame() of a memsink waits again after each timeout.
FairSpec ==
  /\ Spec
  /\ WF_vars(Accepted \/ OpenKvmdWs \/ NoEncodingsInTime)
  /\ WF_vars(ReadTask /\ source # "read") /\ WF_vars(SendTask \/ Unaccepted)
  /\ WF_vars(Cleanup) /\ WF_vars(RemoveWs)

-----------------------------------------------------------------------------

\* Whatever a client may hold, and KVMD for it.
Keyset == {KeyOf(c, m) : c \in Codes, m \in SUBSET Modifiers}
Holdable == ((Keyset \cup Keys \cup {Shift}) \ {NoKey}) \cup Buttons

VncTypeOK ==
  /\ life \in {"none", "open", "ending"}
  /\ main \in {"security", "loop", "encodings", "params"}
  /\ kvmd \in {"stage1", "stage2", "params", "ws"}
  /\ {accepted, closing, required, hasKey, notified, cont, reset, owed, ws} \subseteq BOOLEAN
  /\ enc \in Abilities \cup {NoEncodings}
  /\ source \in {"stage3", "closed", "read"} /\ format \in {"jpeg", "h264"}
  /\ queue \in Seq(StreamFrames) /\ Len(queue) <= QueueLimit + 1
  /\ last \in Pictures \cup {NoFrame}
  /\ sender \in {"wait", "frame", "resize", "message", "send"}
  /\ {size, shared} \subseteq AllSizes
  /\ decoder \in {"empty", "ok", "broken"}
  /\ mods \subseteq Modifiers /\ buttons \subseteq Buttons
  /\ magic \in [taps : 0 .. Trigger, digits : {0, 1}]
  /\ units \in Units \cup {0}
  /\ down \subseteq Codes \cup Keys \cup Buttons /\ held \subseteq Holdable

\* The stages come one after the other, as the assertions of the handlers say
\* (__stage1_authorized, __kvmd_session, has_tight): nothing is handled before the
\* authorization, the websocket waits for the encodings, the reader waits for the
\* websocket, and so no client is sent a picture before its encodings are known;
\* all that is over when the next client comes.
StagesInOrder ==
  /\ main = "security" <=> kvmd = "stage1"
  /\ life = "none" \/ main = "security" => ~accepted
  /\ kvmd \in {"params", "ws"} => accepted
  /\ ws <=> kvmd = "ws"
  /\ source # "stage3" \/ queue # <<>> => ws
  /\ sender \in {"resize", "message", "send"} \/ last # NoFrame => ws
  /\ enc # NoEncodings => accepted \/ main = "encodings"
  /\ life = "none" => main = "security" /\ enc = NoEncodings /\ down = {} /\ ~owed

\* Nothing is down on the host that the client has let go, but for keys of codes
\* that change with the modifiers; and nothing when the client is gone.
NoStuckKeys ==
  /\ ws => held \subseteq Meant \cup Ambiguous
  /\ ~ws /\ ~closing => held = {}

\* An update was asked for, and none is being sent.
Awaited == life = "open" /\ owed /\ sender \in {"wait", "frame"}

\* A request for a key frame is answered by another frame.
Ignored ==
  source = "read" /\ required /\ queue' # queue /\ queue' # <<>>
    /\ queue'[Len(queue')].format = "h264" /\ ~queue'[Len(queue')].key

\* What the code leaves to the streamer: frames or errors keep coming, and in the
\* end it gives the key frames that it is asked for.
Streams == WF_vars(ReadTask) /\ <>[][~Ignored]_vars

\* The server does not wait for ever for encodings, nor KVMD for the end of a
\* connection; and a client does not wait for ever for an update that it asked for,
\* whatever frames are dropped, merged or resized and whatever fails, as long as
\* the streamer goes on (Streams).  When a memsink is silent, it does.
Served ==
  /\ []<>(~(kvmd = "stage2" /\ life = "open") /\ life # "ending" /\ ~closing)
  /\ Streams => []<>~Awaited

=============================================================================
