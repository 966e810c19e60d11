------------------------------ MODULE VncFrames ------------------------------
(***************************************************************************)
(* How frames get from the streamer to a client of kvmd-vnc: the task that *)
(* reads them, the queue, and the task that sends them when the client     *)
(* allows it (kvmd/apps/vnc/server.py), with the updates and the           *)
(* notifications of kvmd/apps/vnc/rfb.  A picture is its format, its size  *)
(* and whether it begins with a key frame.  The rate of key frames (gop),  *)
(* the limits of lengths, names and LEDs are left out.                     *)
(***************************************************************************)
EXTENDS Integers, Sequences

CONSTANTS
  Sizes,      \* of pictures
  FirstSize,  \* of the first client
  NoFrame,    \* no frame has been taken from the queue
  QueueLimit  \* ten

ASSUME QueueLimitAssumption == QueueLimit \in Nat

VARIABLES
  enc,       \* _encodings: what the client can do, of H264 and resizing
  source,    \* the reading task: "stage3", "closed" or "read"
  format,    \* of the streamer it reads
  required,  \* it has asked the streamer for a key frame
  queue,     \* __fb_q
  hasKey,    \* __fb_has_key
  last,      \* the frame being sent
  sender,    \* the sending task: "wait", "frame", "resize", "message" or "send"
  notified,  \* __fb_notifier
  cont,      \* __fb_cont_updates
  reset,     \* __fb_reset_h264
  size,      \* _width and _height
  shared,    \* the size in _SharedParams, where the next client begins
  decoder,   \* of the client: "empty", "ok" or "broken"
  owed       \* the client has been promised an update

reading == <<source, format, required>>
client == <<decoder, owed>>
frameVars == <<enc, reading, queue, hasKey, last, sender, notified, cont, reset,
               size, shared, client>>

\* What RfbClientEncodings holds before SetEncodings.
NoEncodings == [h264 |-> FALSE, resize |-> FALSE]

\* A frame of a stream, and the data of one or more of them, which is the whole
\* of a picture when it begins with a key.
Frame(f, key, s) == [format |-> f, key |-> key, size |-> s]
Data(frame) == IF frame.format = "jpeg" \/ frame.key THEN "whole" ELSE "delta"
Taken(frame) == [format |-> frame.format, size |-> frame.size, data |-> Data(frame)]

JpegFrames == {Frame("jpeg", FALSE, s) : s \in Sizes}
H264Frames == {Frame("h264", key, s) : key \in BOOLEAN, s \in Sizes}

-----------------------------------------------------------------------------
(* __streamer_task_loop() *)

\* A full queue loses its oldest frame.
QueueFrame(frame) ==
  queue' = Append(IF Len(queue) > QueueLimit THEN Tail(queue) ELSE queue, frame)

Source == UNCHANGED <<enc, hasKey, last, sender, notified, cont, reset, size, shared, client>>

\* The preferred streamer; the order of __streamers is H264 first.
StartReading ==
  /\ source = "stage3"
  /\ source' = "closed"
  /\ format' = IF enc.h264 THEN "h264" ELSE "jpeg"
  /\ UNCHANGED <<required, queue>> /\ Source

OpenStreamer ==
  /\ source = "closed"
  /\ source' = "read" /\ required' = ~hasKey
  /\ UNCHANGED <<format, queue>> /\ Source

\* The streamer is asked for a key frame, and may give another one.
ReadFrame ==
  /\ source = "read"
  /\ \E frame \in IF format = "jpeg" THEN JpegFrames ELSE H264Frames : QueueFrame(frame)
  /\ required' = ~hasKey
  /\ UNCHANGED <<source, format>> /\ Source

\* A text instead of a picture.  After a permanent error the streamer is the
\* default one, which is HTTP and has temporary errors only.
StreamerFails ==
  /\ source \in {"closed", "read"}
  /\ source' = "closed"
  /\ format' \in {format, "jpeg"}
  /\ QueueFrame(Frame("jpeg", FALSE, size))
  /\ UNCHANGED required /\ Source

Read == StartReading \/ OpenStreamer \/ ReadFrame \/ StreamerFails

-----------------------------------------------------------------------------
(* __fb_sender_task_loop() *)

\* The frame goes on where the last one ends.
Continues(taken, frame) ==
  taken # NoFrame /\ frame.format = "h264" /\ taken.format = "h264"
    /\ ~frame.key /\ frame.size = taken.size

\* The flag outlives its key frame.
Merge_KeepsKey(s, frame) ==
  IF Continues(s.last, frame)
    THEN [s EXCEPT !.last.data = IF @ = "nothing" THEN "delta" ELSE @]
    ELSE [last |-> Taken(frame), hasKey |-> s.hasKey \/ frame.key]

\* One turn of the inner loop, on the frame being sent and __fb_has_key.
Merge(s, frame) ==
  IF Continues(s.last, frame)
    THEN [s EXCEPT !.last.data = IF @ = "nothing" THEN "delta" ELSE @]
    ELSE [last |-> Taken(frame), hasKey |-> frame.key]

\* All that is in the queue, to which nobody adds meanwhile.
Drained ==
  LET s[i \in 0 .. Len(queue)] ==
        IF i = 0 THEN [last |-> last, hasKey |-> hasKey] ELSE Merge(s[i - 1], queue[i])
  IN  s[Len(queue)]

Sender == UNCHANGED <<enc, reading, cont>>

Allowed ==
  /\ sender = "wait" /\ notified
  /\ sender' = "frame" /\ notified' = FALSE
  /\ UNCHANGED <<queue, hasKey, last, reset, size, shared, client>> /\ Sender

\* The client has switched H264 off: RfbError.
Unwanted(frame) == frame.format = "h264" /\ ~enc.h264

\* The frame gets sent, or it is H264 without a key and waits for another.
Prepare_NotAgain(frame, key) ==
  IF frame.format = "h264" /\ ~key
    THEN sender' = "wait" /\ notified' = notified /\ last' = [frame EXCEPT !.data = "nothing"]
    ELSE sender' = "send" /\ notified' = notified /\ last' = frame

Prepare(frame, key) ==
  IF frame.format = "h264" /\ ~key
    THEN sender' = "wait" /\ notified' = TRUE /\ last' = [frame EXCEPT !.data = "nothing"]
    ELSE sender' = "send" /\ notified' = notified /\ last' = frame

\* The new frame, if it has another size, needs a resize, or a message to
\* connect again where the client cannot resize.
TakeFrames ==
  /\ sender = "frame" /\ queue # <<>>
  /\ queue' = <<>> /\ hasKey' = Drained.hasKey
  /\ LET frame == Drained.last
     IN  IF frame.size = size
           THEN ~Unwanted(frame) /\ Prepare(frame, hasKey') /\ UNCHANGED shared
           ELSE /\ last' = frame /\ shared' = frame.size
                /\ sender' = IF enc.resize THEN "resize" ELSE "message"
                /\ UNCHANGED notified
  /\ UNCHANGED <<reset, size, client>> /\ Sender

\* __send_resize()
Resize ==
  /\ sender = "resize"
  /\ size' = last.size /\ reset' = TRUE
  /\ ~Unwanted(last) /\ Prepare(last, hasKey)
  /\ UNCHANGED <<queue, hasKey, shared, decoder, owed>> /\ Sender

\* The decoder of a client needs a key after a reset, and at the start.
Decoded(data, afresh) ==
  IF data = "whole" THEN "ok"
  ELSE IF afresh \/ decoder = "empty" THEN "broken" ELSE decoder

\* An update is over: the next one, when updates are continuous.
Updated == notified' = (notified \/ cont) /\ owed' = cont

\* _send_fb_jpeg() with a text, whose picture stays to be sent.
SendMessage ==
  /\ sender = "message"
  /\ sender' = "wait" /\ reset' = TRUE /\ Updated
  /\ UNCHANGED <<queue, hasKey, last, size, shared, decoder>> /\ Sender

\* _send_fb_jpeg() and _send_fb_h264(), which carry the flag that resets.
Send ==
  /\ sender = "send"
  /\ sender' = "wait"
  /\ last' = [last EXCEPT !.data = "nothing"]
  /\ reset' = (last.format = "jpeg")
  /\ decoder' = IF last.format = "jpeg" THEN decoder ELSE Decoded(last.data, reset)
  /\ Updated
  /\ UNCHANGED <<queue, hasKey, size, shared>> /\ Sender

\* The client does not take H264 any more; the connection ends.
SenderFails ==
  \/ sender = "frame" /\ queue # <<>> /\ Drained.last.size = size /\ Unwanted(Drained.last)
  \/ sender = "resize" /\ Unwanted(last)

SendFrames == Allowed \/ TakeFrames \/ Resize \/ SendMessage \/ Send

-----------------------------------------------------------------------------
(* Messages of the client about frames *)

Asking == UNCHANGED <<reading, queue, hasKey, last, sender, reset, size, shared, decoder>>

\* __handle_fb_update_request(): nothing to do when updates are continuous.
UpdateRequest ==
  /\ ~owed
  /\ IF cont THEN UNCHANGED <<notified, owed>> ELSE notified' = TRUE /\ owed' = TRUE
  /\ UNCHANGED <<enc, cont>> /\ Asking

\* __handle_enable_cont_updates(); a client that disables them asks again.
EnableContUpdates(enabled) ==
  /\ cont' = enabled /\ owed' = enabled
  /\ notified' = (notified \/ enabled)
  /\ UNCHANGED enc /\ Asking

-----------------------------------------------------------------------------

FramesInit ==
  /\ enc = NoEncodings
  /\ source = "stage3" /\ format = "jpeg" /\ required = FALSE
  /\ queue = <<>> /\ hasKey = FALSE /\ last = NoFrame
  /\ sender = "wait" /\ notified = FALSE /\ cont = FALSE /\ reset = FALSE
  /\ size = FirstSize /\ shared = FirstSize
  /\ decoder = "empty" /\ owed = FALSE

\* The next client begins with the size of the last one.
NextClient ==
  /\ enc' = NoEncodings
  /\ source' = "stage3" /\ format' = "jpeg" /\ required' = FALSE
  /\ queue' = <<>> /\ hasKey' = FALSE /\ last' = NoFrame
  /\ sender' = "wait" /\ notified' = FALSE /\ cont' = FALSE /\ reset' = FALSE
  /\ size' = shared /\ decoder' = "empty" /\ owed' = FALSE
  /\ UNCHANGED shared

\* The sizes pictures and clients have, what is in the queue, and what is sent.
AllSizes == Sizes \cup {FirstSize}
StreamFrames == [format : {"jpeg", "h264"}, key : BOOLEAN, size : AllSizes]
Pictures == [format : {"jpeg", "h264"}, size : AllSizes, data : {"whole", "delta", "nothing"}]

\* What the client has been sent can be shown: H264 begins with a key frame at
\* the start and after every reset, and a picture has the size of the screen.
Showable ==
  /\ decoder # "broken"
  /\ sender = "send" => last.size = size /\ last.data # "nothing"
                        /\ (last.format = "h264" => hasKey)

=============================================================================
