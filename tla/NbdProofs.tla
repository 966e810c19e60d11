------------------------------ MODULE NbdProofs ------------------------------
(***************************************************************************)
(* Proofs about Nbd for any number of bindings, unbinds and faults.        *)
(*                                                                         *)
(* What the clients are told comes out of a queue that outlives the tasks  *)
(* that fill it, and may be cut off by a crash.  So the invariant is about *)
(* the queue: its first reason to stop is the first one of the process     *)
(* (FirstStop), and a remote that serves is what the last event of it says *)
(* that is not a reason to stop (Says).  Which of the poller's states go   *)
(* with a process, a binding and a notification is in PInv.                *)
(***************************************************************************)
EXTENDS Nbd, SequenceTheorems, TLAPS

StopEvents ==
  {Stopped("main", TRUE), Stopped("device", FALSE), Stopped("remote", FALSE),
   Stopped("checker", FALSE)}
Events == {Running(TRUE), Running(FALSE)} \cup StopEvents

\* No reason to stop is in the queue.
NoStop(q) == \A i \in 1 .. Len(q) : q[i].kind # "stopped"

\* The first one that is, is c.
FirstStop(q, c) ==
  \A i \in 1 .. Len(q) :
    q[i].kind = "stopped" /\ (\A j \in 1 .. i - 1 : q[j].kind # "stopped") => q[i] = c

\* Once q is read, what was "info" is v.
Says(q, info, v) ==
  \E i \in 0 .. Len(q) :
    /\ v = IF i = 0 THEN info ELSE q[i]
    /\ \A j \in i + 1 .. Len(q) : q[j].kind = "stopped"

\* The poller, its binding, and the process.
PInv ==
  /\ poller \in {"wait", "starting", "ready", "join", "poll", "stop", "end"}
  /\ poller \in {"starting", "ready", "join", "poll", "stop"} => proc # 0 /\ told.id = proc
  /\ poller # "wait" => told.status \in {"starting", "running"}
  /\ poller = "wait" => told.status \in {"none", "stopped"}
  /\ poller \in {"wait", "end"} /\ proc # 0 => notified
  /\ bind = "probe" => proc = 0
  /\ binds \in Nat
  /\ poller \in {"wait", "starting", "end"} => ~Alive

Serving == poller \notin {"wait", "starting"}

\* The first reason is kept, or in the queue, or lost with a part of it.
CInv ==
  /\ eventsQ \in Seq(Events)
  /\ Serving => /\ cause = NoEvent => NoStop(eventsQ) /\ stop = NoEvent
                /\ stop = NoEvent => FirstStop(eventsQ, cause)
                /\ stop # NoEvent => stop = cause
                /\ cause # NoEvent /\ (Alive \/ ~lost) /\ stop = NoEvent => ~NoStop(eventsQ)
  /\ poller = "stop" => lost
  /\ poller = "end" /\ stop = NoEvent => cause = NoEvent \/ lost
  /\ FirstCause

\* A remote that serves is told as online in the end.
Serves == Alive /\ checker = "infinite" /\ remote \in {"validate", "recv"}
LInv == Serves => Says(eventsQ, told.info, Running(TRUE))

IInv == PInv /\ CInv /\ LInv

-----------------------------------------------------------------------------
(* Queues *)

\* Events of the two kinds.
LEMMA Kinds ==
  /\ \A e \in StopEvents : e.kind = "stopped" /\ e # NoEvent
  /\ \A e \in Events : (e.kind = "stopped" \/ e.kind = "running") /\ e # NoEvent
  /\ Running(TRUE).kind = "running" /\ Running(FALSE).kind = "running"
<1>1. \A e \in StopEvents : e.kind = "stopped"
  BY DEF StopEvents, Stopped
<1>2. Running(TRUE).kind = "running" /\ Running(FALSE).kind = "running" /\ NoEvent.kind = "none"
  BY DEF Running, NoEvent
<1>3. \A e \in Events : e \in StopEvents \/ e = Running(TRUE) \/ e = Running(FALSE)
  BY DEF Events
<1> QED
  BY <1>1, <1>2, <1>3

\* One event more.
LEMMA Appended ==
  ASSUME NEW q \in Seq(Events), NEW e \in Events, NEW c, NEW info, NEW v
  PROVE  /\ Append(q, e) \in Seq(Events)
         /\ NoStop(Append(q, e)) <=> NoStop(q) /\ e.kind # "stopped"
         /\ FirstStop(q, c) /\ (NoStop(q) /\ e.kind = "stopped" => e = c) => FirstStop(Append(q, e), c)
         /\ Says(q, info, v) /\ e.kind = "stopped" => Says(Append(q, e), info, v)
         /\ Says(Append(q, e), info, e)
<1> DEFINE a == Append(q, e)
           n == Len(q) + 1
<1>1. /\ a \in Seq(Events) /\ Len(a) = n /\ a[n] = e /\ Len(q) \in Nat
      /\ \A i \in 1 .. Len(q) : a[i] = q[i]
  OBVIOUS
<1> HIDE DEF a
<1>2. NoStop(a) <=> NoStop(q) /\ e.kind # "stopped"
  BY <1>1 DEF NoStop
<1>3. ASSUME FirstStop(q, c), NoStop(q) /\ e.kind = "stopped" => e = c PROVE FirstStop(a, c)
  <2> SUFFICES ASSUME NEW i \in 1 .. Len(a), a[i].kind = "stopped",
                      \A j \in 1 .. i - 1 : a[j].kind # "stopped"
               PROVE  a[i] = c
    BY DEF FirstStop
  <2>1. CASE i = n
    <3>1. NoStop(q)
      BY <1>1, <2>1 DEF NoStop
    <3> QED
      BY <1>1, <1>3, <2>1, <3>1
  <2>2. CASE i # n
    <3>1. i \in 1 .. Len(q) /\ a[i] = q[i]
      BY <1>1, <2>2
    <3>2. \A j \in 1 .. i - 1 : q[j].kind # "stopped"
      BY <1>1, <3>1
    <3> QED
      BY <1>3, <3>1, <3>2 DEF FirstStop
  <2> QED
    BY <2>1, <2>2
<1>4. ASSUME Says(q, info, v), e.kind = "stopped" PROVE Says(a, info, v)
  <2>1. PICK i \in 0 .. Len(q) :
          /\ v = IF i = 0 THEN info ELSE q[i]
          /\ \A j \in i + 1 .. Len(q) : q[j].kind = "stopped"
    BY <1>4 DEF Says
  <2>2. i \in 0 .. Len(a) /\ v = IF i = 0 THEN info ELSE a[i]
    BY <1>1, <2>1
  <2>3. \A j \in i + 1 .. Len(a) : a[j].kind = "stopped"
    BY <1>1, <1>4, <2>1
  <2> QED
    BY <2>2, <2>3 DEF Says
<1>5. Says(a, info, e)
  <2>1. n \in 0 .. Len(a) /\ n # 0 /\ \A j \in n + 1 .. Len(a) : FALSE
    BY <1>1
  <2> QED
    BY <1>1, <2>1 DEF Says
<1> QED
  BY <1>1, <1>2, <1>3, <1>4, <1>5 DEF a

\* One event less.
LEMMA Taken ==
  ASSUME NEW q \in Seq(Events), q # <<>>, NEW c, NEW info, NEW v
  PROVE  /\ Head(q) \in Events /\ Tail(q) \in Seq(Events)
         /\ NoStop(q) <=> NoStop(Tail(q)) /\ Head(q).kind # "stopped"
         /\ FirstStop(q, c) /\ Head(q).kind = "stopped" => Head(q) = c
         /\ FirstStop(q, c) /\ Head(q).kind # "stopped" => FirstStop(Tail(q), c)
         /\ Says(q, info, v) /\ Head(q).kind = "stopped" => v = Head(q) \/ Says(Tail(q), info, v)
         /\ Says(q, info, v) /\ Head(q).kind # "stopped" => Says(Tail(q), Head(q), v)
<1> DEFINE t == Tail(q)
<1>1. /\ t \in Seq(Events) /\ Len(q) \in Nat \ {0} /\ Len(t) = Len(q) - 1
      /\ Head(q) = q[1] /\ Head(q) \in Events
      /\ \A i \in 1 .. Len(q) - 1 : t[i] = q[i + 1]
  OBVIOUS
<1> HIDE DEF t
<1>2. \A i \in 2 .. Len(q) : i - 1 \in 1 .. Len(t) /\ q[i] = t[i - 1]
  BY <1>1
<1>3. NoStop(q) <=> NoStop(t) /\ Head(q).kind # "stopped"
  <2>1. ASSUME NoStop(q) PROVE NoStop(t) /\ Head(q).kind # "stopped"
    BY <1>1, <2>1 DEF NoStop
  <2>2. ASSUME NoStop(t), Head(q).kind # "stopped" PROVE NoStop(q)
    <3> SUFFICES ASSUME NEW i \in 1 .. Len(q) PROVE q[i].kind # "stopped"
      BY DEF NoStop
    <3>1. CASE i = 1
      BY <1>1, <2>2, <3>1
    <3>2. CASE i # 1
      <4>1. i \in 2 .. Len(q)
        BY <1>1, <3>2
      <4> QED
        BY <1>2, <2>2, <4>1 DEF NoStop
    <3> QED
      BY <3>1, <3>2
  <2> QED
    BY <2>1, <2>2
<1>4. ASSUME FirstStop(q, c), Head(q).kind = "stopped" PROVE Head(q) = c
  <2>1. 1 \in 1 .. Len(q) /\ \A j \in 1 .. 1 - 1 : FALSE
    BY <1>1
  <2> QED
    BY <1>1, <1>4, <2>1 DEF FirstStop
<1>5. ASSUME FirstStop(q, c), Head(q).kind # "stopped" PROVE FirstStop(t, c)
  <2> SUFFICES ASSUME NEW i \in 1 .. Len(t), t[i].kind = "stopped",
                      \A j \in 1 .. i - 1 : t[j].kind # "stopped"
               PROVE  t[i] = c
    BY DEF FirstStop
  <2>1. i + 1 \in 1 .. Len(q) /\ q[i + 1] = t[i]
    BY <1>1
  <2>2. \A j \in 1 .. (i + 1) - 1 : q[j].kind # "stopped"
    <3> SUFFICES ASSUME NEW j \in 1 .. (i + 1) - 1 PROVE q[j].kind # "stopped"
      OBVIOUS
    <3>1. CASE j = 1
      BY <1>1, <1>5, <3>1
    <3>2. CASE j # 1
      <4>1. j \in 2 .. Len(q) /\ j - 1 \in 1 .. i - 1
        BY <1>1, <3>2
      <4> QED
        BY <1>2, <4>1
    <3> QED
      BY <3>1, <3>2
  <2> QED
    BY <1>5, <2>1, <2>2 DEF FirstStop
<1>6. ASSUME Says(q, info, v)
      PROVE  /\ Head(q).kind = "stopped" => v = Head(q) \/ Says(t, info, v)
             /\ Head(q).kind # "stopped" => Says(t, Head(q), v)
  <2>1. PICK i \in 0 .. Len(q) :
          /\ v = IF i = 0 THEN info ELSE q[i]
          /\ \A j \in i + 1 .. Len(q) : q[j].kind = "stopped"
    BY <1>6 DEF Says
  <2>2. CASE i = 0
    <3>1. Head(q).kind = "stopped" /\ v = info
      BY <1>1, <2>1, <2>2
    <3>2. 0 \in 0 .. Len(t) /\ \A j \in 0 + 1 .. Len(t) : t[j].kind = "stopped"
      BY <1>1, <2>1, <2>2
    <3> QED
      BY <3>1, <3>2, Zenon DEF Says
  <2>3. CASE i = 1
    <3>1. v = Head(q)
      BY <1>1, <2>1, <2>3
    <3>2. 0 \in 0 .. Len(t) /\ \A j \in 0 + 1 .. Len(t) : t[j].kind = "stopped"
      BY <1>1, <2>1, <2>3
    <3> QED
      BY <3>1, <3>2, Zenon DEF Says
  <2>4. CASE i > 1
    <3>1. i - 1 \in 0 .. Len(t) /\ i - 1 # 0 /\ v = t[i - 1]
      BY <1>1, <1>2, <2>1, <2>4
    <3>2. \A j \in (i - 1) + 1 .. Len(t) : t[j].kind = "stopped"
      BY <1>1, <2>1, <2>4
    <3> QED
      BY <3>1, <3>2, Zenon DEF Says
  <2> QED
    BY <2>1, <2>2, <2>3, <2>4
<1> QED
  BY <1>1, <1>3, <1>4, <1>5, <1>6 DEF t

\* The end of the queue is lost.
LEMMA CutOff ==
  ASSUME NEW q \in Seq(Events), NEW n \in 0 .. Len(q), NEW c
  PROVE  /\ SubSeq(q, 1, n) \in Seq(Events)
         /\ NoStop(q) => NoStop(SubSeq(q, 1, n))
         /\ FirstStop(q, c) => FirstStop(SubSeq(q, 1, n), c)
<1> DEFINE s == SubSeq(q, 1, n)
<1>1. /\ s \in Seq(Events) /\ Len(s) = n /\ n \in Nat /\ n <= Len(q) /\ Len(q) \in Nat
      /\ \A i \in 1 .. n : s[i] = q[i]
  OBVIOUS
<1> HIDE DEF s
<1>2. NoStop(q) => NoStop(s)
  BY <1>1 DEF NoStop
<1>3. ASSUME FirstStop(q, c) PROVE FirstStop(s, c)
  <2> SUFFICES ASSUME NEW i \in 1 .. Len(s), s[i].kind = "stopped",
                      \A j \in 1 .. i - 1 : s[j].kind # "stopped"
               PROVE  s[i] = c
    BY DEF FirstStop
  <2>1. i \in 1 .. Len(q) /\ s[i] = q[i] /\ \A j \in 1 .. i - 1 : q[j].kind # "stopped"
    BY <1>1
  <2> QED
    BY <1>3, <2>1 DEF FirstStop
<1> QED
  BY <1>1, <1>2, <1>3 DEF s

\* An empty queue says what was said before.
LEMMA SaysNothing == ASSUME NEW info, NEW v, Says(<<>>, info, v) PROVE info = v
<1>1. Len(<<>>) = 0 /\ \A i \in 0 .. 0 : i = 0
  OBVIOUS
<1> QED
  BY <1>1, Zenon DEF Says

-----------------------------------------------------------------------------
(* The process *)

\* A step that does not make the remote serve.
Keeps == Serves' => Serves

Cut == \E n \in 0 .. Len(eventsQ) : eventsQ' = SubSeq(eventsQ, 1, n)

\* All that the steps of the process do to what it tells.
WorkerEffect ==
  /\ Alive
  /\ \/ Keeps /\ UNCHANGED <<eventsQ, cause, lost>>
     \/ Keeps /\ UNCHANGED lost /\ \E e \in StopEvents : Put(e)
     \/ UNCHANGED lost /\ Put(Running(TRUE))
     \/ ~Serves' /\ UNCHANGED lost /\ Put(Running(FALSE))
     \/ ~Alive' /\ lost' = TRUE /\ UNCHANGED cause /\ Cut

LEMMA WorkerEffects == WorkerStep \/ WorkerFault => WorkerEffect
<1> SUFFICES ASSUME WorkerStep \/ WorkerFault PROVE WorkerEffect
  OBVIOUS
<1> USE DEF WorkerEffect, Keeps, Serves, Alive, Working
<1>1. CASE MainStep
  BY <1>1 DEF MainStep, Boot, Spawn, FirstEnds, CancelRest, Cancelled, tasks
<1>2. CASE Terminated
  <2>1. Stopped("main", TRUE) \in StopEvents
    BY DEF StopEvents
  <2> QED
    BY <1>2, <2>1 DEF Terminated, Die, Cancelled, tasks
<1>3. CASE DeviceStep
  <2>1. Stopped("device", FALSE) \in StopEvents
    BY DEF StopEvents
  <2> QED
    BY <1>3, <2>1 DEF DeviceStep, DevicePrepared, DeviceFails, DeviceEnds, Fails
<1>4. CASE RemoteStep
  <2>1. Stopped("remote", FALSE) \in StopEvents
    BY DEF StopEvents
  <2>2. CASE Validated \/ RemoteFails \/ RemoteClosed
    BY <2>1, <2>2 DEF Validated, RemoteFails, RemoteClosed, Fails
  <2>3. CASE RequestFails
    BY <2>3 DEF RequestFails
  <2>4. CASE RetrySucceeds
    BY <2>4 DEF RetrySucceeds
  <2> QED
    BY <1>4, <2>2, <2>3, <2>4 DEF RemoteStep
<1>5. CASE CheckerStep
  <2>1. Stopped("checker", FALSE) \in StopEvents
    BY DEF StopEvents
  <2>2. CASE CheckerGoes
    BY <2>2 DEF CheckerGoes
  <2>3. CASE CheckerReports
    BY <2>3 DEF CheckerReports
  <2>4. CASE CheckerFails
    BY <2>1, <2>4 DEF CheckerFails, Fails
  <2> QED
    BY <1>5, <2>2, <2>3, <2>4 DEF CheckerStep
<1>6. CASE Crash
  BY <1>6 DEF Crash, Die, Cut
<1>7. CASE KernelDisconnects
  BY <1>7 DEF KernelDisconnects, tasks
<1> QED
  BY <1>1, <1>2, <1>3, <1>4, <1>5, <1>6, <1>7 DEF WorkerStep, WorkerFault

\* An event more, while the process is served.
LEMMA PutKeeps ==
  ASSUME CInv, Serving, Alive, NEW e \in Events, Put(e), UNCHANGED <<stop, lost>>
  PROVE  /\ eventsQ' \in Seq(Events)
         /\ cause' = NoEvent => NoStop(eventsQ') /\ stop' = NoEvent
         /\ stop' = NoEvent => FirstStop(eventsQ', cause')
         /\ stop' # NoEvent => stop' = cause'
         /\ cause' # NoEvent /\ stop' = NoEvent => ~NoStop(eventsQ')
<1>1. eventsQ \in Seq(Events) /\ eventsQ' = Append(eventsQ, e)
  BY DEF CInv, Put
<1>2. /\ eventsQ' \in Seq(Events)
      /\ NoStop(eventsQ') <=> NoStop(eventsQ) /\ e.kind # "stopped"
      /\ \A c : FirstStop(eventsQ, c) /\ (NoStop(eventsQ) /\ e.kind = "stopped" => e = c)
                  => FirstStop(eventsQ', c)
  BY <1>1, Appended
<1>3. e # NoEvent
  BY Kinds
<1>4. CASE e.kind = "stopped" /\ cause = NoEvent
  <2>1. cause' = e /\ NoStop(eventsQ) /\ stop = NoEvent
    BY <1>4 DEF Put, CInv
  <2>2. FirstStop(eventsQ, e)
    BY <2>1 DEF NoStop, FirstStop
  <2> QED
    BY <1>2, <1>3, <1>4, <2>1, <2>2
<1>5. CASE ~(e.kind = "stopped" /\ cause = NoEvent)
  <2>1. cause' = cause
    BY <1>5 DEF Put
  <2>2. stop = NoEvent => FirstStop(eventsQ', cause)
    <3> SUFFICES ASSUME stop = NoEvent PROVE FirstStop(eventsQ', cause)
      OBVIOUS
    <3>1. FirstStop(eventsQ, cause)
      BY DEF CInv
    <3>2. NoStop(eventsQ) /\ e.kind = "stopped" => e = cause
      <4>1. NoStop(eventsQ) => cause = NoEvent
        BY DEF CInv
      <4> QED
        BY <1>5, <4>1
    <3> QED
      BY <1>2, <3>1, <3>2
  <2> QED
    BY <1>2, <1>5, <2>1, <2>2 DEF CInv
<1> QED
  BY <1>4, <1>5

\* The steps of the process.
LEMMA WorkerKeeps ==
  ASSUME IInv, WorkerStep \/ WorkerFault, UNCHANGED controller
  PROVE  IInv'
<1> USE DEF controller
<1>1. WorkerEffect
  BY WorkerEffects
<1>2. Alive /\ poller \notin {"wait", "starting", "end"}
  BY <1>1 DEF WorkerEffect, IInv, PInv
<1>3. told.status # "stopped"
  BY <1>2 DEF IInv, PInv
<1>4. PInv'
  BY <1>2 DEF IInv, PInv
<1>5. FirstCause' /\ CInv
  BY <1>3 DEF FirstCause, IInv
<1>6. Serving /\ UNCHANGED <<stop, told, poller>>
  BY <1>2 DEF Serving
<1>7. CASE Keeps /\ UNCHANGED <<eventsQ, cause, lost>>
  <2>1. CInv'
    BY <1>2, <1>5, <1>6, <1>7 DEF CInv, Serving
  <2>2. LInv'
    BY <1>6, <1>7 DEF LInv, Keeps, IInv
  <2> QED
    BY <1>4, <2>1, <2>2 DEF IInv
<1>8. ASSUME NEW e \in Events, Put(e), UNCHANGED lost PROVE CInv'
  <2>1. /\ eventsQ' \in Seq(Events)
        /\ cause' = NoEvent => NoStop(eventsQ') /\ stop' = NoEvent
        /\ stop' = NoEvent => FirstStop(eventsQ', cause')
        /\ stop' # NoEvent => stop' = cause'
        /\ cause' # NoEvent /\ stop' = NoEvent => ~NoStop(eventsQ')
    BY <1>2, <1>5, <1>6, <1>8, PutKeeps
  <2>2. poller = "stop" => lost
    BY <1>5 DEF CInv
  <2> QED
    BY <1>2, <1>5, <1>6, <1>8, <2>1, <2>2 DEF CInv, Serving
<1>9. /\ eventsQ \in Seq(Events) /\ StopEvents \subseteq Events
      /\ Running(TRUE) \in Events /\ Running(FALSE) \in Events
  BY <1>5 DEF CInv, Events
<1>10. ASSUME NEW e \in StopEvents, Keeps, Put(e), UNCHANGED lost PROVE IInv'
  <2>1. LInv'
    <3>1. e \in Events /\ e.kind = "stopped" /\ eventsQ' = Append(eventsQ, e)
      BY <1>9, <1>10, Kinds DEF Put
    <3>2. Says(eventsQ, told.info, Running(TRUE)) => Says(eventsQ', told.info, Running(TRUE))
      BY <1>9, <3>1, Appended
    <3> QED
      BY <1>6, <1>10, <3>2 DEF LInv, Keeps, IInv
  <2> QED
    BY <1>4, <1>8, <1>9, <1>10, <2>1 DEF IInv
<1>11. CASE UNCHANGED lost /\ Put(Running(TRUE))
  <2>1. Says(eventsQ', told.info, Running(TRUE))
    <3>1. eventsQ' = Append(eventsQ, Running(TRUE))
      BY <1>11 DEF Put
    <3> QED
      BY <1>9, <3>1, Appended
  <2>2. CInv'
    BY <1>8, <1>9, <1>11
  <2> QED
    BY <1>4, <1>6, <2>1, <2>2 DEF IInv, LInv
<1>12. CASE ~Serves' /\ UNCHANGED lost /\ Put(Running(FALSE))
  <2>1. CInv'
    BY <1>8, <1>9, <1>12
  <2> QED
    BY <1>4, <1>12, <2>1 DEF IInv, LInv
<1>13. CASE ~Alive' /\ lost' = TRUE /\ UNCHANGED cause /\ Cut
  <2>1. /\ eventsQ' \in Seq(Events)
        /\ NoStop(eventsQ) => NoStop(eventsQ')
        /\ FirstStop(eventsQ, cause) => FirstStop(eventsQ', cause)
    BY <1>9, <1>13, CutOff DEF Cut
  <2>2. CInv'
    BY <1>2, <1>5, <1>6, <1>13, <2>1 DEF CInv, Serving
  <2> QED
    BY <1>4, <1>13, <2>2 DEF IInv, LInv, Serves
<1> QED
  BY <1>1, <1>7, <1>10, <1>11, <1>12, <1>13 DEF WorkerEffect

-----------------------------------------------------------------------------
(* The calls and the poller *)

LEMMA CallsKeep == IInv /\ Calls => IInv'
<1> SUFFICES ASSUME IInv, Calls PROVE IInv'
  OBVIOUS
<1>1. /\ UNCHANGED <<worker, eventsQ, cause, lost, checker, remote, poller, stop, told>>
  BY DEF Calls, BindBegins, BindFails, Probed, Unbind, workerVars, tasks
<1>2. CInv' /\ LInv'
  BY <1>1 DEF IInv, CInv, Serving, FirstCause, LInv, Serves, Alive
<1>3. PInv'
  <2>1. CASE BindBegins \/ BindFails \/ Unbind
    BY <1>1, <2>1 DEF IInv, PInv, Alive, BindBegins, BindFails, Unbind
  <2>2. CASE Probed
    <3>1. poller \in {"wait", "end"}
      BY <2>2 DEF IInv, PInv, Probed
    <3> QED
      BY <1>1, <2>2, <3>1 DEF IInv, PInv, Alive, Probed
  <2> QED
    BY <2>1, <2>2 DEF Calls
<1> QED
  BY <1>2, <1>3 DEF IInv

LEMMA PollerKeeps == IInv /\ PollerStep => IInv'
<1> SUFFICES ASSUME IInv, PollerStep PROVE IInv'
  OBVIOUS
<1> USE DEF IInv
<1>1. CASE Wake
  <2>1. /\ poller = "wait" /\ notified' = FALSE
        /\ UNCHANGED <<worker, eventsQ, cause, lost, checker, remote, stop, proc, bind, binds>>
        /\ \/ proc = 0 /\ UNCHANGED <<poller, told>>
           \/ proc # 0 /\ poller' = "starting"
                /\ told' = [id |-> proc, status |-> "starting", info |-> NoEvent]
    BY <1>1 DEF Wake, workerVars, tasks
  <2>2. PInv'
    BY <2>1 DEF PInv, Alive
  <2>3. CInv'
    BY <2>1 DEF CInv, Serving, FirstCause, Alive
  <2>4. ~Serves'
    BY <2>1 DEF PInv, Serves, Alive
  <2> QED
    BY <2>2, <2>3, <2>4 DEF LInv
<1>2. CASE Start
  <2>1. /\ poller = "starting" /\ poller' = "ready" /\ stop' = NoEvent /\ checker' = "wait"
        /\ eventsQ' = <<>> /\ cause' = NoEvent /\ lost' = FALSE
        /\ UNCHANGED <<proc, notified, bind, told, binds>>
    BY <1>2 DEF Start
  <2>2. PInv'
    BY <2>1 DEF PInv
  <2>3. <<>> \in Seq(Events) /\ NoStop(<<>>) /\ FirstStop(<<>>, NoEvent)
    BY DEF NoStop, FirstStop
  <2>4. told.status # "stopped"
    BY <2>1 DEF PInv
  <2>5. CInv'
    BY <2>1, <2>3, <2>4 DEF CInv, Serving, FirstCause, Alive
  <2> QED
    BY <2>1, <2>2, <2>5 DEF LInv, Serves
<1>3. CASE Ready \/ Joined
  <2>1. /\ poller \in {"ready", "join"} /\ poller' \in {"join", "poll"}
        /\ UNCHANGED <<worker, eventsQ, cause, lost, checker, remote, stop, told, proc, notified,
                       bind, binds>>
    BY <1>3 DEF Ready, Joined, workerVars, tasks
  <2>2. PInv'
    BY <2>1 DEF PInv, Alive
  <2>3. CInv'
    BY <2>1 DEF CInv, Serving, FirstCause, Alive
  <2>4. LInv'
    BY <2>1 DEF LInv, Serves, Alive
  <2> QED
    BY <2>2, <2>3, <2>4
<1>4. CASE ReadyTimesOut
  <2>1. /\ poller = "ready" /\ poller' = "stop" /\ lost' = TRUE
        /\ UNCHANGED <<worker, eventsQ, cause, checker, remote, stop, told, proc, notified, bind, binds>>
    BY <1>4 DEF ReadyTimesOut, tasks
  <2>2. PInv'
    BY <2>1 DEF PInv, Alive
  <2>3. told.status # "stopped"
    BY <2>1 DEF PInv
  <2>4. CInv'
    BY <2>1, <2>3 DEF CInv, Serving, FirstCause, Alive
  <2>5. LInv'
    BY <2>1 DEF LInv, Serves, Alive
  <2> QED
    BY <2>2, <2>4, <2>5
<1>5. CASE Fetch
  <2> DEFINE e == Head(eventsQ)
  <2>1. /\ poller = "poll" /\ eventsQ # <<>> /\ eventsQ' = Tail(eventsQ)
        /\ UNCHANGED <<worker, cause, lost, checker, remote, proc, notified, bind, binds, poller>>
        /\ e.kind = "stopped" => stop' = (IF stop = NoEvent THEN e ELSE stop) /\ told' = told
        /\ e.kind # "stopped" => told' = Fetched(e) /\ stop' = stop
    BY <1>5 DEF Fetch, tasks
  <2>2. eventsQ \in Seq(Events)
    BY DEF CInv
  <2>3. /\ e \in Events /\ eventsQ' \in Seq(Events)
        /\ NoStop(eventsQ) <=> NoStop(eventsQ') /\ e.kind # "stopped"
        /\ FirstStop(eventsQ, cause) /\ e.kind = "stopped" => e = cause
        /\ FirstStop(eventsQ, cause) /\ e.kind # "stopped" => FirstStop(eventsQ', cause)
    BY <2>1, <2>2, Taken
  <2>4. \A info, v :
          /\ Says(eventsQ, info, v) /\ e.kind = "stopped" => v = e \/ Says(eventsQ', info, v)
          /\ Says(eventsQ, info, v) /\ e.kind # "stopped" => Says(eventsQ', e, v)
    BY <2>1, <2>2, Taken
  <2> HIDE DEF e
  <2>5. e # NoEvent
    BY <2>3, Kinds
  <2>6. told'.id = told.id /\ told'.status \in {"starting", "running"}
    BY <2>1 DEF PInv, Fetched
  <2>7. PInv'
    BY <2>1, <2>6 DEF PInv, Alive
  <2>8. CInv'
    <3>1. FirstCause' /\ Serving
      BY <2>1, <2>6 DEF FirstCause, Serving
    <3>2. CASE e.kind = "stopped"
      BY <2>1, <2>3, <2>5, <3>1, <3>2 DEF CInv, Serving, Alive
    <3>3. CASE e.kind # "stopped"
      BY <2>1, <2>3, <3>1, <3>3 DEF CInv, Serving, Alive
    <3> QED
      BY <3>2, <3>3
  <2>9. LInv'
    <3>1. Serves' => Says(eventsQ, told.info, Running(TRUE))
      BY <2>1 DEF LInv, Serves, Alive
    <3>2. CASE e.kind = "stopped"
      <4>1. e # Running(TRUE)
        BY <3>2, Kinds
      <4> QED
        BY <2>1, <2>4, <3>1, <3>2, <4>1 DEF LInv
    <3>3. CASE e.kind # "stopped"
      <4>1. told'.info = e
        BY <2>1, <3>3 DEF Fetched
      <4> QED
        BY <2>4, <3>1, <3>3, <4>1 DEF LInv
    <3> QED
      BY <3>2, <3>3
  <2> QED
    BY <2>7, <2>8, <2>9
<1>6. CASE Leave
  <2>1. /\ poller \in {"poll", "stop"}
        /\ poller = "poll" => eventsQ = <<>>
        /\ ~Alive /\ poller' = "end" /\ proc' = 0
        /\ UNCHANGED <<worker, eventsQ, cause, lost, checker, remote, stop, told, notified, bind, binds>>
    BY <1>6 DEF Leave, workerVars, tasks
  <2>2. PInv'
    BY <2>1 DEF PInv, Alive
  <2>3. stop = NoEvent => cause = NoEvent \/ lost
    <3>1. NoStop(<<>>)
      BY DEF NoStop
    <3> QED
      BY <2>1, <3>1 DEF CInv, Serving
  <2>4. CInv'
    BY <2>1, <2>3 DEF CInv, Serving, FirstCause, Alive
  <2> QED
    BY <2>1, <2>2, <2>4 DEF LInv, Serves, Alive
<1>7. CASE Kill
  <2>1. /\ poller = "stop" /\ ~Alive'
        /\ UNCHANGED <<eventsQ, cause, lost, controller>>
    BY <1>7 DEF Kill, Die, Alive
  <2>2. PInv'
    BY <2>1 DEF PInv, controller
  <2>3. CInv'
    BY <2>1 DEF CInv, Serving, FirstCause, Alive, controller
  <2> QED
    BY <2>1, <2>2, <2>3 DEF LInv, Serves
<1>8. CASE Finish
  <2>1. /\ poller = "end" /\ poller' = "wait" /\ stop' = NoEvent
        /\ told' = [id |-> told.id, status |-> "stopped",
                    info |-> IF stop = NoEvent THEN Unknown ELSE stop]
        /\ UNCHANGED <<worker, eventsQ, cause, lost, checker, remote, proc, notified, bind, binds>>
    BY <1>8 DEF Finish, workerVars, tasks
  <2>2. PInv'
    BY <2>1 DEF PInv, Alive
  <2>3. CInv'
    BY <2>1 DEF CInv, Serving, FirstCause, Alive
  <2>4. ~Serves'
    BY <2>1 DEF PInv, Serves, Alive
  <2> QED
    BY <2>2, <2>3, <2>4 DEF LInv
<1> QED
  BY <1>1, <1>2, <1>3, <1>4, <1>5, <1>6, <1>7, <1>8 DEF PollerStep

-----------------------------------------------------------------------------

\* The strengthened invariant holds at the start.
LEMMA InitIInv == Init => IInv
<1> SUFFICES ASSUME Init PROVE IInv
  OBVIOUS
<1>1. PInv /\ ~Alive
  BY DEF Init, PInv, Alive
<1>2. CInv
  BY DEF Init, CInv, Serving, FirstCause
<1> QED
  BY <1>1, <1>2 DEF IInv, LInv, Serves

\* Every step keeps it.
LEMMA NextIInv == IInv /\ [Next]_vars => IInv'
<1> SUFFICES ASSUME IInv, [Next]_vars PROVE IInv'
  OBVIOUS
<1>1. CASE UNCHANGED vars
  BY <1>1 DEF vars, workerVars, controller, tasks, IInv, PInv, CInv, LInv, Serving, FirstCause,
       Serves, Alive
<1> QED
  BY <1>1, CallsKeep, PollerKeeps, WorkerKeeps DEF Next

\* The strengthened invariant holds in every reachable state.
THEOREM Inductive == Spec => []IInv
  BY InitIInv, NextIInv, PTL DEF Spec

\* The clients are told the first reason of the end of a process, and an unknown
\* one only when it had none or what it told was lost.
THEOREM FirstCauseIsTold == Spec => []FirstCause
<1>1. IInv => FirstCause
  BY DEF IInv, CInv
<1> QED
  BY <1>1, Inductive, PTL

\* What the clients know follows the process that lives, its binding, and the
\* remote that serves again.
THEOREM StateIsFollowed == Spec => []StateFollows
<1>1. IInv => StateFollows
  <2> SUFFICES ASSUME IInv PROVE StateFollows
    OBVIOUS
  <2>1. Alive => proc # 0 /\ told.id = proc /\ told.status \in {"starting", "running"}
    BY DEF IInv, PInv
  <2>2. poller = "wait" /\ ~notified => proc = 0 /\ told.status \in {"none", "stopped"}
    BY DEF IInv, PInv
  <2>3. ASSUME eventsQ = <<>>, Alive, checker = "infinite", remote = "recv"
        PROVE  told.info = Running(TRUE)
    BY <2>3, SaysNothing DEF IInv, LInv, Serves
  <2> QED
    BY <2>1, <2>2, <2>3 DEF StateFollows
<1> QED
  BY <1>1, Inductive, PTL

=============================================================================
