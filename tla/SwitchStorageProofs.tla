------------------------- MODULE SwitchStorageProofs -------------------------
(***************************************************************************)
(* Proofs about SwitchStorage for any clients, EDIDs, names and bounds.    *)
(*                                                                         *)
(* Of kvmd-pst: a client is told "yes" only together with a look at the    *)
(* mount, and the mount only becomes read-only together with a telling,    *)
(* or when nobody is registered (Closed).  Of the saver: while it holds    *)
(* the lock the configuration does not move, so that what is left to write *)
(* can be said as a list of the configuration's own values (Planned); what *)
(* was written is what the files hold, key by key, unless a save of the    *)
(* key stopped half-way (Written).                                         *)
(***************************************************************************)
EXTENDS SwitchStorage, SequenceTheorems, TLAPS

\* When the last websocket is closed for a shutdown, no new one comes.
Closed == down \in {"clean", "off"} => wss = {}

\* Nobody has a file open for writing on a read-only partition.
OpenIsWritable == files # {} => rw

PInv == PstType /\ Closed /\ OpenIsWritable /\ WritableWhileAllowed

-----------------------------------------------------------------------------
(* kvmd-pst *)

\* What a broadcast leaves of the types.
LEMMA BroadcastType ==
  ASSUME PstType, NEW allowed \in BOOLEAN, Broadcast(allowed)
  PROVE  /\ inbox' \in [Clients -> Seq(BOOLEAN)]
         /\ told' \in [Clients -> {"nothing", "yes", "no"}]
         /\ link' = link
         /\ \A c \in wss : told'[c] = IF allowed THEN "yes" ELSE "no"
<1>1. ASSUME NEW c \in Clients PROVE Received(inbox[c], allowed) \in Seq(BOOLEAN)
  <2>1. inbox[c] \in Seq(BOOLEAN)
    BY DEF PstType
  <2>2. Append(inbox[c], allowed) \in Seq(BOOLEAN)
    BY <2>1
  <2> QED
    BY <2>1, <2>2, Zenon DEF Received
<1>2. inbox' \in [Clients -> Seq(BOOLEAN)]
  BY <1>1 DEF PstType, Broadcast
<1> QED
  BY <1>2 DEF PstType, Broadcast

\* A failure is one of those that may still come.
LEMMA FailsType == PstType /\ Fails => failures' \in 0 .. MaxFailures
  BY PstAssumption DEF PstType, Fails

\* The end of a round: everybody who is registered learns what rw is.
LEMMA TellStep ==
  ASSUME PInv, NEW cur \in 0 .. 1, Tell(cur), rw' \in BOOLEAN, files # {} => rw',
         UNCHANGED <<files, wss, note, down>>, failures' \in 0 .. MaxFailures
  PROVE  PInv'
<1>1. /\ inbox' \in [Clients -> Seq(BOOLEAN)]
      /\ told' \in [Clients -> {"nothing", "yes", "no"}]
      /\ link' = link
      /\ \A c \in wss : told'[c] = IF rw' THEN "yes" ELSE "no"
  BY BroadcastType DEF Tell, PInv
<1>2. PstType'
  BY <1>1 DEF PstType, Tell, PInv
<1>3. WritableWhileAllowed'
  BY <1>1 DEF WritableWhileAllowed
<1> QED
  BY <1>2, <1>3 DEF PInv, Closed, OpenIsWritable

\* A step inside a round.
LEMMA RoundStep ==
  ASSUME PInv, UNCHANGED <<mount, wss, prev, down, clients>>,
         note' \in BOOLEAN, pc' \in {"check", "rw", "ro", "pause"},
         failures' \in 0 .. MaxFailures
  PROVE  PInv'
  BY DEF PInv, Closed, OpenIsWritable, WritableWhileAllowed, mount, clients, PstType

\* The rounds of the controller.
LEMMA ControllerStep == PInv /\ Controller => PInv'
<1> SUFFICES ASSUME PInv, Controller PROVE PInv'
  OBVIOUS
<1>1. PstType /\ OpenIsWritable
  BY DEF PInv
<1>2. CASE Check
  <2>1. Count(wss) \in 0 .. 1
    BY DEF Count
  <2>2. CASE Tell(Count(wss)) /\ UNCHANGED rw
    <3>1. rw' \in BOOLEAN /\ (files # {} => rw') /\ failures' \in 0 .. MaxFailures
      BY <1>1, <1>2, <2>2 DEF Check, PstType, OpenIsWritable
    <3> QED
      BY <1>2, <2>1, <2>2, <3>1, TellStep DEF Check
  <2>3. CASE pc' \in {"rw", "ro"} /\ UNCHANGED <<rw, prev, clients>>
    BY <1>1, <1>2, <2>3, RoundStep DEF Check, PstType, mount
  <2> QED
    BY <1>2, <2>2, <2>3 DEF Check
<1>3. CASE RemountRw
  <2>1. failures' \in 0 .. MaxFailures
    BY <1>1, <1>3, FailsType DEF RemountRw, PstType
  <2>2. rw' \in BOOLEAN /\ (files # {} => rw')
    <3>1. CASE rw' = TRUE
      BY <3>1, Zenon
    <3>2. CASE rw' = rw
      BY <1>1, <3>2, Zenon DEF PstType, OpenIsWritable
    <3>3. rw' = TRUE \/ rw' = rw
      BY <1>3, Zenon DEF RemountRw
    <3> QED
      BY <3>1, <3>2, <3>3
  <2>3. 1 \in 0 .. 1
    OBVIOUS
  <2> QED
    BY <1>3, <2>1, <2>2, <2>3, TellStep DEF RemountRw
<1>4. CASE RemountRo
  <2>1. failures' \in 0 .. MaxFailures
    BY <1>1, <1>4, FailsType DEF RemountRo, PstType
  <2>2. CASE files = {} /\ rw' = FALSE /\ Tell(0)
    <3>1. 0 \in 0 .. 1
      OBVIOUS
    <3>2. rw' \in BOOLEAN /\ (files # {} => rw')
      BY <2>2, Zenon
    <3>3. UNCHANGED <<files, wss, note, down>>
      BY <1>4 DEF RemountRo
    <3> QED
      BY <2>1, <2>2, <3>1, <3>2, <3>3, TellStep
  <2>3. CASE pc' \in {"ro", "pause"} /\ UNCHANGED <<rw, prev, clients>>
    BY <1>1, <1>4, <2>1, <2>3, RoundStep DEF RemountRo, PstType, mount
  <2> QED
    BY <1>4, <2>2, <2>3 DEF RemountRo
<1>5. CASE Retry \/ Notified
  BY <1>1, <1>5, RoundStep DEF Retry, Notified, PstType
<1> QED
  BY <1>2, <1>3, <1>4, <1>5 DEF Controller

\* The shutdown, a new start, and the end of a connection.
LEMMA ShutdownStep ==
  PInv /\ (Shutdown \/ StopTasks \/ \E c \in Clients : RemoveWs(c)) => PInv'
<1> SUFFICES ASSUME PInv, Shutdown \/ StopTasks \/ \E c \in Clients : RemoveWs(c) PROVE PInv'
  OBVIOUS
<1> USE DEF PInv, Closed, OpenIsWritable, WritableWhileAllowed, mount, clients
<1>1. CASE TellAll
  <2>1. /\ inbox' \in [Clients -> Seq(BOOLEAN)]
        /\ told' \in [Clients -> {"nothing", "yes", "no"}]
        /\ link' = link
    BY <1>1, BroadcastType DEF TellAll
  <2> QED
    BY <1>1, <2>1 DEF TellAll, PstType
<1>2. CASE CloseAllWss
  BY <1>2 DEF CloseAllWss, PstType
<1>3. CASE Cleanup
  <2>1. failures' \in 0 .. MaxFailures
    BY <1>3, FailsType DEF Cleanup, PstType
  <2> QED
    BY <1>3, <2>1 DEF Cleanup, PstType
<1>4. CASE Start
  <2>1. failures' \in 0 .. MaxFailures
    BY <1>4, FailsType DEF Start, PstType
  <2>2. rw' \in BOOLEAN /\ (files # {} => rw')
    <3>1. rw' = TRUE \/ (rw' = FALSE /\ files = {})
      BY <1>4, Zenon DEF Start
    <3> QED
      BY <3>1, Zenon
  <2>3. /\ down' = "no" /\ pc' = "check" /\ prev' = 0 /\ note' = FALSE
        /\ wss' = {} /\ UNCHANGED <<files, clients>>
    BY <1>4 DEF Start
  <2>4. PstType'
    <3>1. rw' \in BOOLEAN /\ note' \in BOOLEAN
      BY <2>2, <2>3, Zenon
    <3>2. prev' \in 0 .. 1
      BY <2>3
    <3> QED
      BY <2>1, <2>3, <3>1, <3>2, Zenon DEF PstType
  <2> QED
    BY <2>2, <2>3, <2>4
<1>5. CASE StopTasks
  <2>1. rw' \in CASE pc = "rw" -> {rw, TRUE} [] pc = "ro" /\ files = {} -> {rw, FALSE}
                 [] OTHER -> {rw}
    BY <1>5, Zenon DEF StopTasks
  <2>2. rw' \in BOOLEAN /\ (files # {} => rw')
    <3>1. CASE pc = "rw"
      BY <2>1, <3>1 DEF PstType
    <3>2. CASE pc = "ro" /\ files = {}
      BY <2>1, <3>2 DEF PstType
    <3>3. CASE pc # "rw" /\ ~(pc = "ro" /\ files = {})
      BY <2>1, <3>3 DEF PstType
    <3> QED
      BY <3>1, <3>2, <3>3
  <2> QED
    BY <1>5, <2>2 DEF StopTasks, PstType
<1>6. ASSUME NEW c \in Clients, RemoveWs(c) PROVE PInv'
  BY <1>6 DEF RemoveWs, PstType
<1> QED
  BY <1>1, <1>2, <1>3, <1>4, <1>5, <1>6 DEF Shutdown

\* A client may connect, leave, read an event, and open a file while it can.
LEMMA ConnectStep ==
  ASSUME PInv, NEW c \in Clients, Connect(c), UNCHANGED <<mount, failures>>
  PROVE  PInv'
<1> USE DEF PInv, Closed, OpenIsWritable, WritableWhileAllowed, mount, clients
<1>1. PstType'
  BY DEF Connect, PstType
<1>2. WritableWhileAllowed'
  BY DEF Connect, PstType
<1> QED
  BY <1>1, <1>2 DEF Connect

LEMMA ClientStep ==
  ASSUME PInv, UNCHANGED <<rw, server, told>>,
         link' \in [Clients -> {"none", "open", "closed"}],
         inbox' \in [Clients -> Seq(BOOLEAN)],
         failures' \in 0 .. MaxFailures,
         files' \subseteq Clients, rw \/ files' \subseteq files
  PROVE  PInv'
  BY DEF PInv, Closed, OpenIsWritable, WritableWhileAllowed, server, PstType

\* The end of a connection on the client's side.
LEMMA LeaveType ==
  ASSUME PstType, NEW c \in Clients, Leave(c)
  PROVE  /\ link' \in [Clients -> {"none", "open", "closed"}]
         /\ inbox' \in [Clients -> Seq(BOOLEAN)]
         /\ told' = told
  BY DEF PstType, Leave

\* kvmd-pstrun.
LEMMA RunStep == PInv /\ PstRun => PInv'
<1> SUFFICES ASSUME PInv, PstRun PROVE PInv'
  OBVIOUS
<1>0. PstType
  BY DEF PInv
<1> USE RunAssumption DEF mount, clients
<1>1. CASE RunStarts
  BY <1>1, ConnectStep DEF RunStarts
<1>2. CASE RunReceives
  <2>1. CASE inbox' = [inbox EXCEPT ![Runner] = Tail(@)] /\ UNCHANGED <<link, told>>
             /\ inbox[Runner] # <<>>
    <3>1. Tail(inbox[Runner]) \in Seq(BOOLEAN)
      BY <1>0, <2>1 DEF PstType
    <3>2. inbox' \in [Clients -> Seq(BOOLEAN)]
      BY <1>0, <2>1, <3>1 DEF PstType
    <3> QED
      BY <1>0, <1>2, <2>1, <3>2, ClientStep DEF RunReceives, PstType
  <2>2. CASE UNCHANGED clients
    BY <1>0, <1>2, <2>2, ClientStep DEF RunReceives, PstType
  <2> QED
    BY <1>2, <2>1, <2>2 DEF RunReceives
<1>3. CASE ProcessOpens \/ ProcessCloses
  BY <1>0, <1>3, ClientStep DEF ProcessOpens, ProcessCloses, PstType
<1>4. CASE RunEnds
  BY <1>0, <1>4, ClientStep, LeaveType DEF RunEnds, PstType
<1> QED
  BY <1>1, <1>2, <1>3, <1>4 DEF PstRun

-----------------------------------------------------------------------------
(* The saver *)

EdidKeys == (SUBSET Ids) \X (Ids \cup {Default})
Disks == [all : (SUBSET Ids) \cup {Torn}, port : Ids \cup {Default, Torn},
          name : Names \cup {Torn}]

StoreType ==
  /\ disk \in Disks /\ cache \in Configs
  /\ prevs \in [edids : EdidKeys \cup {NoValue}, name : Names \cup {NoValue}]
  /\ broken \subseteq {"all", "port", "name"}

SaverType ==
  /\ spc \in {"wait", "debounce", "save", "asked", "write", "fill", "retry"}
  /\ lock \in {"free", "saver"}
  /\ spc \in {"asked", "write", "fill"} <=> lock = "saver"
  /\ todo # <<>> <=> lock = "saver"
  /\ save \in BOOLEAN /\ loading \in BOOLEAN /\ fresh \in BOOLEAN
  /\ run \in {"off", "listening", "running", "killing"}

\* The entries of a save, with the values of the configuration.
AllEdids == Entry("", "all", cache.all)
PortEdid == Entry("edids", "port", cache.port)
PortName == Entry("name", "name", cache.name)

\* What a save may still have to write.
Plans == {<<AllEdids, PortEdid>>, <<AllEdids, PortEdid, PortName>>,
          <<PortEdid>>, <<PortEdid, PortName>>, <<PortName>>}

\* A key that is not in the plan is saved, and the EDIDs before those of the ports.
Planned ==
  lock = "saver" =>
    /\ todo \in Plans
    /\ todo = <<PortName>> => prevs.edids = Keys.edids
    /\ todo \in {<<AllEdids, PortEdid>>, <<PortEdid>>} => prevs.name = cache.name
    /\ todo \in {<<PortEdid>>, <<PortEdid, PortName>>} => disk.all = cache.all
    /\ spc = "fill" => Head(todo).file \in broken

\* What was written last is in the files, unless a save stopped half-way.
WrittenName == "name" \notin broken => prevs.name \in {NoValue, disk.name}
WrittenEdids ==
  broken \cap {"all", "port"} = {} => prevs.edids \in {NoValue, <<disk.all, disk.port>>}

SInv ==
  StoreType /\ SaverType /\ Planned /\ WrittenName /\ WrittenEdids /\ SavedWhenIdle

\* The keys of a configuration are values.
LEMMA KeysAreValues ==
  ASSUME cache \in Configs
  PROVE  /\ Keys.edids = <<cache.all, cache.port>> /\ Keys.edids # NoValue
         /\ Keys.name = cache.name /\ cache.name # NoValue
         /\ Keys.edids \in EdidKeys
  BY StorageAssumption DEF Keys, Configs, EdidKeys

\* When the keys were written last as they are, and nothing is broken, the files
\* hold the configuration.
LEMMA WrittenIsSaved ==
  ASSUME NEW d \in Disks, NEW c \in Configs,
         <<c.all, c.port>> \in {NoValue, <<d.all, d.port>>}, c.name \in {NoValue, d.name}
  PROVE  d = c
<1>1. <<c.all, c.port>> # NoValue /\ c.name # NoValue
  BY StorageAssumption DEF Configs
<1>2. d.all = c.all /\ d.port = c.port /\ d.name = c.name
  BY <1>1
<1> QED
  BY <1>2 DEF Disks, Configs

\* Two elements and one are three.
LEMMA TwoAndOne == ASSUME NEW a, NEW b, NEW c PROVE <<a, b>> \o <<c>> = <<a, b, c>>
<1> DEFINE S == {a, b, c}
           two == <<a, b>>
           one == <<c>>
           three == <<a, b, c>>
<1>1. /\ two \in Seq(S) /\ one \in Seq(S) /\ three \in Seq(S)
      /\ Len(two) = 2 /\ Len(one) = 1 /\ Len(three) = 3
  OBVIOUS
<1>2. two \o one \in Seq(S) /\ Len(two \o one) = 3
  BY <1>1
<1>3. \A i \in 1 .. 3 : (two \o one)[i] = three[i]
  BY <1>1
<1> HIDE DEF two, one, three
<1>4. two \o one = three
  BY <1>1, <1>2, <1>3, SeqEqual
<1> QED
  BY <1>4 DEF two, one, three

\* The plan of a save, by what differs.
LEMMA UnsavedPlans ==
  /\ Keys.edids = prevs.edids /\ Keys.name = prevs.name => Unsaved = <<>>
  /\ Keys.edids = prevs.edids /\ Keys.name # prevs.name => Unsaved = <<PortName>>
  /\ Keys.edids # prevs.edids /\ Keys.name = prevs.name => Unsaved = <<AllEdids, PortEdid>>
  /\ Keys.edids # prevs.edids /\ Keys.name # prevs.name =>
       Unsaved = <<AllEdids, PortEdid, PortName>>
<1>1. Unsaved = (IF Keys.edids # prevs.edids THEN <<AllEdids, PortEdid>> ELSE <<>>)
                \o (IF Keys.name # prevs.name THEN <<PortName>> ELSE <<>>)
  BY DEF Unsaved, AllEdids, PortEdid, PortName
<1>2. /\ <<>> \o <<>> = <<>> /\ <<>> \o <<PortName>> = <<PortName>>
      /\ <<AllEdids, PortEdid>> \o <<>> = <<AllEdids, PortEdid>>
      /\ <<AllEdids, PortEdid>> \o <<PortName>> = <<AllEdids, PortEdid, PortName>>
  BY TwoAndOne
<1>3. CASE Keys.edids = prevs.edids /\ Keys.name = prevs.name
  BY <1>1, <1>2, <1>3, Zenon
<1>4. CASE Keys.edids = prevs.edids /\ Keys.name # prevs.name
  BY <1>1, <1>2, <1>4, Zenon
<1>5. CASE Keys.edids # prevs.edids /\ Keys.name = prevs.name
  BY <1>1, <1>2, <1>5, Zenon
<1>6. CASE Keys.edids # prevs.edids /\ Keys.name # prevs.name
  BY <1>1, <1>2, <1>6, Zenon
<1> QED
  BY <1>3, <1>4, <1>5, <1>6, Zenon

\* What is first in a plan, and what remains of it.
LEMMA PlanParts ==
  /\ Head(<<AllEdids, PortEdid>>) = AllEdids /\ Tail(<<AllEdids, PortEdid>>) = <<PortEdid>>
  /\ Head(<<AllEdids, PortEdid, PortName>>) = AllEdids
  /\ Tail(<<AllEdids, PortEdid, PortName>>) = <<PortEdid, PortName>>
  /\ Head(<<PortEdid>>) = PortEdid /\ Tail(<<PortEdid>>) = <<>>
  /\ Head(<<PortEdid, PortName>>) = PortEdid /\ Tail(<<PortEdid, PortName>>) = <<PortName>>
  /\ Head(<<PortName>>) = PortName /\ Tail(<<PortName>>) = <<>>
  /\ <<PortEdid>> # <<>> /\ <<PortEdid, PortName>> # <<>> /\ <<PortName>> # <<>>
  OBVIOUS

\* Plans of different length or with different entries are different.
LEMMA PlansDiffer ==
  /\ <<PortName>> \notin {<<AllEdids, PortEdid>>, <<PortEdid>>, <<PortEdid, PortName>>}
  /\ <<AllEdids, PortEdid>> \notin {<<PortName>>, <<PortEdid>>, <<PortEdid, PortName>>}
  /\ <<AllEdids, PortEdid, PortName>> \notin {<<PortName>>, <<AllEdids, PortEdid>>, <<PortEdid>>,
                                              <<PortEdid, PortName>>}
  /\ <<PortEdid>> \notin {<<PortName>>, <<AllEdids, PortEdid>>}
  /\ <<PortEdid, PortName>> \notin {<<PortName>>, <<AllEdids, PortEdid>>, <<PortEdid>>}
  BY DEF AllEdids, PortEdid, PortName, Entry

\* A step that leaves the store and the saver alone.
LEMMA StoreUnmoved ==
  ASSUME SInv, UNCHANGED <<store, spc, todo, lock, broken>>,
         save' \in BOOLEAN, loading' \in BOOLEAN, fresh' = fresh,
         save' = save \/ spc # "wait",
         run' \in {"off", "listening", "running", "killing"}
  PROVE  SInv'
<1>1. StoreType' /\ WrittenName' /\ WrittenEdids'
  BY DEF SInv, StoreType, WrittenName, WrittenEdids, store
<1>2. SaverType'
  BY DEF SInv, SaverType
<1>3. Planned'
  BY DEF SInv, Planned, store, AllEdids, PortEdid, PortName, Plans, Keys, Entry
<1>4. SavedWhenIdle'
  BY DEF SInv, SavedWhenIdle, store
<1> QED
  BY <1>1, <1>2, <1>3, <1>4 DEF SInv

\* A step that neither writes nor holds the lock afterwards, and leaves the saver
\* with work to do or nothing to claim.
LEMMA NotIdle ==
  ASSUME SInv, UNCHANGED <<disk, prevs, broken, run>>, cache' \in Configs,
         spc' \in {"wait", "debounce", "save", "retry"}, lock' = "free", todo' = <<>>,
         save' \in BOOLEAN, loading' \in BOOLEAN, fresh' \in BOOLEAN,
         spc' = "wait" => save' \/ disk = cache'
  PROVE  SInv'
  BY DEF SInv, StoreType, SaverType, Planned, WrittenName, WrittenEdids, SavedWhenIdle

\* An exception in a save leaves the saver with work to do.
LEMMA ErrorStep ==
  ASSUME SInv, UNCHANGED <<store, save, loading, fresh, broken, run>>, StorageError
  PROVE  SInv'
<1>1. cache' \in Configs /\ save' \in BOOLEAN /\ loading' \in BOOLEAN /\ fresh' \in BOOLEAN
  BY DEF SInv, StoreType, SaverType, store
<1> QED
  BY <1>1, NotIdle DEF StorageError, SaverIs, store

\* One file of the plan is what it should be: what remains is a plan, and the
\* files hold the configuration when nothing remains.
LEMMA SavedStep ==
  ASSUME SInv, spc \in {"write", "fill"}, Saved(Head(todo)),
         disk' = [disk EXCEPT ![Head(todo).file] = Head(todo).value],
         disk' = disk \/ spc = "fill",
         UNCHANGED <<cache, save, loading, fresh, run>>
  PROVE  SInv'
<1> USE DEF SInv
<1>1. cache \in Configs /\ prevs \in [edids : EdidKeys \cup {NoValue}, name : Names \cup {NoValue}]
  BY DEF StoreType
<1>2. lock = "saver" /\ todo \in Plans
  BY DEF SaverType, Planned
<1>3. UNCHANGED <<AllEdids, PortEdid, PortName, Keys>>
  BY DEF AllEdids, PortEdid, PortName, Keys
<1>4. /\ AllEdids.key = "" /\ AllEdids.file = "all" /\ AllEdids.value = cache.all
      /\ PortEdid.key = "edids" /\ PortEdid.file = "port" /\ PortEdid.value = cache.port
      /\ PortName.key = "name" /\ PortName.file = "name" /\ PortName.value = cache.name
  BY DEF AllEdids, PortEdid, PortName, Entry
<1>5. CASE todo \in {<<AllEdids, PortEdid>>, <<AllEdids, PortEdid, PortName>>}
  <2>1. Head(todo) = AllEdids /\ Tail(todo) \in {<<PortEdid>>, <<PortEdid, PortName>>}
    BY <1>5, PlanParts
  <2>2. disk' = [disk EXCEPT !.all = cache.all] /\ prevs' = prevs /\ broken' = broken
    BY <1>4, <2>1 DEF Saved
  <2>3. todo' = Tail(todo) /\ Tail(todo) # <<>> /\ spc' = "write" /\ lock' = lock
    BY <2>1, PlanParts DEF Saved, SaverIs
  <2>4. StoreType'
    BY <1>1, <2>2 DEF StoreType, Disks, Configs
  <2>5. SaverType'
    BY <1>2, <2>3 DEF SaverType
  <2>6. WrittenName' /\ WrittenEdids'
    <3>1. disk' = disk \/ "all" \in broken
      BY <1>2, <1>4, <2>1 DEF Planned
    <3> QED
      BY <2>2, <3>1 DEF WrittenName, WrittenEdids, StoreType, Disks
  <2>7. Planned'
    <3>1. disk'.all = cache'.all
      BY <2>2 DEF StoreType, Disks
    <3>2. todo = <<AllEdids, PortEdid>> => prevs.name = cache.name
      BY <1>2 DEF Planned
    <3>3. todo' \in {<<PortEdid>>, <<PortEdid, PortName>>} /\
          (todo' = <<PortEdid>> => todo = <<AllEdids, PortEdid>>)
      BY <1>5, <2>1, <2>3, PlanParts, PlansDiffer
    <3>4. todo' # <<PortName>> /\ todo' # <<AllEdids, PortEdid>>
      BY <3>3, PlansDiffer
    <3> QED
      BY <1>3, <2>2, <2>3, <3>1, <3>2, <3>3, <3>4 DEF Planned, Plans
  <2>8. SavedWhenIdle'
    BY <2>3 DEF SavedWhenIdle
  <2> QED
    BY <2>4, <2>5, <2>6, <2>7, <2>8
<1>6. CASE todo \in {<<PortEdid>>, <<PortEdid, PortName>>}
  <2>1. Head(todo) = PortEdid /\ Tail(todo) \in {<<>>, <<PortName>>} /\ disk.all = cache.all
    BY <1>2, <1>6, PlanParts DEF Planned
  <2>2. /\ disk' = [disk EXCEPT !.port = cache.port]
        /\ prevs' = [prevs EXCEPT !.edids = <<disk.all, cache.port>>]
        /\ broken' = broken \ {"all", "port"} /\ todo' = Tail(todo)
    BY <1>4, <2>1 DEF Saved
  <2>3. prevs'.edids = Keys.edids /\ prevs'.name = prevs.name
    BY <1>1, <2>1, <2>2, KeysAreValues
  <2>4. disk'.all = cache.all /\ disk'.port = cache.port /\ disk'.name = disk.name
    BY <2>1, <2>2 DEF StoreType, Disks
  <2>5. StoreType'
    <3>1. <<disk.all, cache.port>> \in EdidKeys
      BY <1>1, <2>1, KeysAreValues
    <3>2. prevs' \in [edids : EdidKeys \cup {NoValue}, name : Names \cup {NoValue}]
      BY <1>1, <2>2, <3>1
    <3> QED
      BY <1>1, <2>2, <3>2 DEF StoreType, Disks, Configs
  <2>6. WrittenName' /\ WrittenEdids'
    BY <1>1, <2>2, <2>3, <2>4, KeysAreValues DEF WrittenName, WrittenEdids
  <2>7. CASE todo = <<PortEdid, PortName>>
    <3>1. todo' = <<PortName>> /\ spc' = "write" /\ lock' = lock
      BY <2>1, <2>2, <2>7, PlanParts DEF Saved, SaverIs
    <3>2. SaverType'
      BY <1>2, <3>1 DEF SaverType
    <3>3. Planned'
      BY <1>3, <2>3, <3>1, PlansDiffer DEF Planned, Plans
    <3> QED
      BY <2>5, <2>6, <3>1, <3>2, <3>3 DEF SavedWhenIdle
  <2>8. CASE todo = <<PortEdid>>
    <3>1. todo' = <<>> /\ spc' = "wait" /\ lock' = "free"
      BY <2>1, <2>2, <2>8, PlanParts DEF Saved, SaverIs
    <3>2. SaverType'
      BY <3>1 DEF SaverType
    <3>3. prevs'.name = Keys'.name /\ prevs'.edids = Keys'.edids
      BY <1>1, <1>2, <1>3, <2>3, <2>8, KeysAreValues DEF Planned
    <3>4. broken' = {} => disk' = cache'
      <4> SUFFICES ASSUME broken' = {} PROVE disk' = cache'
        OBVIOUS
      <4>1. disk' \in Disks /\ cache' \in Configs
        BY <2>5 DEF StoreType
      <4>2. /\ prevs'.edids \in {NoValue, <<disk'.all, disk'.port>>}
           /\ prevs'.name \in {NoValue, disk'.name}
        BY <2>6 DEF WrittenEdids, WrittenName
      <4>3. prevs'.edids = <<cache'.all, cache'.port>> /\ prevs'.name = cache'.name
        BY <3>3 DEF Keys
      <4> QED
        BY <4>1, <4>2, <4>3, WrittenIsSaved
    <3> QED
      BY <2>5, <2>6, <3>1, <3>2, <3>4 DEF Planned, SavedWhenIdle
  <2> QED
    BY <1>6, <2>7, <2>8
<1>7. CASE todo = <<PortName>>
  <2>1. Head(todo) = PortName /\ Tail(todo) = <<>> /\ prevs.edids = Keys.edids
    BY <1>2, <1>7, PlanParts DEF Planned
  <2>2. /\ disk' = [disk EXCEPT !.name = cache.name]
        /\ prevs' = [prevs EXCEPT !.name = cache.name]
        /\ broken' = broken \ {"name"} /\ todo' = <<>> /\ spc' = "wait" /\ lock' = "free"
    BY <1>4, <2>1 DEF Saved, SaverIs
  <2>3. prevs'.edids = Keys.edids /\ prevs'.name = cache.name
    BY <1>1, <2>1, <2>2
  <2>4. disk'.all = disk.all /\ disk'.port = disk.port /\ disk'.name = cache.name
    BY <2>2 DEF StoreType, Disks
  <2>5. StoreType'
    BY <1>1, <2>2 DEF StoreType, Disks, Configs
  <2>6. WrittenName' /\ WrittenEdids'
    BY <1>1, <2>1, <2>2, <2>3, <2>4 DEF WrittenName, WrittenEdids
  <2>7. SaverType'
    BY <2>2 DEF SaverType
  <2>8. prevs'.name = Keys'.name /\ prevs'.edids = Keys'.edids
    BY <1>1, <1>3, <2>3, KeysAreValues
  <2>9. broken' = {} => disk' = cache'
    <3> SUFFICES ASSUME broken' = {} PROVE disk' = cache'
      OBVIOUS
    <3>1. disk' \in Disks /\ cache' \in Configs
      BY <2>5 DEF StoreType
    <3>2. /\ prevs'.edids \in {NoValue, <<disk'.all, disk'.port>>}
         /\ prevs'.name \in {NoValue, disk'.name}
      BY <2>6 DEF WrittenEdids, WrittenName
    <3>3. prevs'.edids = <<cache'.all, cache'.port>> /\ prevs'.name = cache'.name
      BY <2>8 DEF Keys
    <3> QED
      BY <3>1, <3>2, <3>3, WrittenIsSaved
  <2> QED
    BY <2>2, <2>5, <2>6, <2>7, <2>9 DEF Planned, SavedWhenIdle
<1> QED
  BY <1>2, <1>5, <1>6, <1>7 DEF Plans

\* An edit, a load and a restart.
LEMMA ConfigurationStep ==
  SInv /\ (CreateEdid \/ RemoveEdid \/ SetPortParams \/ LoadSucceeds \/ LoadFails \/ DeviceFound
           \/ Crash) => SInv'
<1> SUFFICES ASSUME SInv, CreateEdid \/ RemoveEdid \/ SetPortParams \/ LoadSucceeds \/ LoadFails
                          \/ DeviceFound \/ Crash
             PROVE  SInv'
  OBVIOUS
<1>1. StoreType /\ SaverType
  BY DEF SInv
<1>2. ASSUME NEW c \in Configs, Set(c) PROVE SInv'
  <2>1. lock = "free" /\ todo = <<>> /\ spc \in {"wait", "debounce", "save", "retry"}
    BY <1>1, <1>2 DEF Set, SaverType
  <2> QED
    BY <1>1, <1>2, <2>1, NotIdle DEF Set, SaverType, runVars
<1>3. CASE CreateEdid
  <2>1. PICK id \in Ids \ cache.all : Set([cache EXCEPT !.all = @ \cup {id}])
    BY <1>3 DEF CreateEdid
  <2>2. [cache EXCEPT !.all = @ \cup {id}] \in Configs
    BY <1>1 DEF StoreType, Configs
  <2> QED
    BY <1>2, <2>1, <2>2
<1>4. CASE RemoveEdid
  <2>1. PICK id \in cache.all :
          Set([cache EXCEPT !.all = @ \ {id}, !.port = IF @ = id THEN Default ELSE @])
    BY <1>4 DEF RemoveEdid
  <2>2. [cache EXCEPT !.all = @ \ {id}, !.port = IF @ = id THEN Default ELSE @] \in Configs
    BY <1>1 DEF StoreType, Configs
  <2> QED
    BY <1>2, <2>1, <2>2
<1>5. CASE SetPortParams
  <2>1. ASSUME NEW id \in (cache.all \cup {Default}) \ {cache.port},
               Set([cache EXCEPT !.port = id])
        PROVE  SInv'
    <3>1. [cache EXCEPT !.port = id] \in Configs
      BY <1>1 DEF StoreType, Configs
    <3> QED
      BY <1>2, <2>1, <3>1
  <2>2. ASSUME NEW name \in Names \ {cache.name}, Set([cache EXCEPT !.name = name])
        PROVE  SInv'
    <3>1. [cache EXCEPT !.name = name] \in Configs
      BY <1>1 DEF StoreType, Configs
    <3> QED
      BY <1>2, <2>2, <3>1
  <2> QED
    BY <1>5, <2>1, <2>2 DEF SetPortParams
<1>6. CASE LoadSucceeds
  <2>1. lock = "free" /\ todo = <<>> /\ spc \in {"wait", "debounce", "save", "retry"}
    BY <1>1, <1>6 DEF LoadSucceeds, SaverType
  <2>2. disk.all # Torn /\ disk.port # Torn /\ disk.name # Torn
    BY <1>1, <1>6 DEF LoadSucceeds, StoreType, Disks
  <2>3. cache' \in Configs
    <3>1. disk.all \in SUBSET Ids /\ disk.port \in Ids \cup {Default} /\ disk.name \in Names
      BY <1>1, <2>2 DEF StoreType, Disks
    <3>2. disk = [all |-> disk.all, port |-> disk.port, name |-> disk.name]
      BY <1>1 DEF StoreType, Disks
    <3>3. cache' = disk
      BY <1>6 DEF LoadSucceeds
    <3> QED
      BY <3>1, <3>2, <3>3 DEF Configs
  <2> QED
    BY <1>1, <1>6, <2>1, <2>3, NotIdle DEF LoadSucceeds, SaverType, runVars
<1>7. CASE LoadFails \/ DeviceFound
  BY <1>1, <1>7, StoreUnmoved DEF LoadFails, DeviceFound, store, SaverType, runVars
<1>8. CASE Crash
  <2>1. StoreType'
    <3>1. cache' \in Configs
      BY <1>8, StorageAssumption DEF Crash, DefaultCache, Configs
    <3> QED
      BY <1>1, <1>8, <3>1 DEF Crash, StoreType, NothingWritten
  <2>2. SaverType'
    BY <1>1, <1>8 DEF Crash, SaverType, runVars
  <2>3. WrittenName' /\ WrittenEdids'
    BY <1>8 DEF Crash, WrittenName, WrittenEdids, NothingWritten
  <2> QED
    BY <1>8, <2>1, <2>2, <2>3 DEF Crash, SInv, Planned, SavedWhenIdle
<1> QED
  BY <1>3, <1>4, <1>5, <1>6, <1>7, <1>8

\* The steps of the saver.
LEMMA SaverStep == SInv /\ SaverSteps => SInv'
<1> SUFFICES ASSUME SInv, SaverSteps PROVE SInv'
  OBVIOUS
<1> USE DEF runVars
<1>1. StoreType /\ SaverType
  BY DEF SInv
<1>2. CASE SaverNotified \/ Debounced \/ Retries
  <2>1. UNCHANGED <<store, todo, lock, loading, fresh, broken, run>> /\ save' \in BOOLEAN
    BY <1>1, <1>2 DEF SaverNotified, Debounced, Retries, SaverType
  <2>2. spc' \in {"debounce", "save"} /\ spc \in {"wait", "debounce", "retry"}
    BY <1>2 DEF SaverNotified, Debounced, Retries, SaverIs
  <2>3. lock = "free" /\ todo = <<>>
    BY <1>1, <2>2 DEF SaverType
  <2> QED
    BY <1>1, <2>1, <2>2, <2>3, NotIdle DEF store, StoreType, SaverType
<1>3. CASE SaveNothing
  <2>1. /\ spc = "save" /\ lock = "free" /\ todo = <<>> /\ Unsaved = <<>> /\ spc' = "wait"
        /\ UNCHANGED <<store, todo, save, lock, loading, fresh, broken, run>>
    BY <1>1, <1>3 DEF SaveNothing, SaverIs, SaverType
  <2>2. Keys.edids = prevs.edids /\ Keys.name = prevs.name
    BY <2>1, UnsavedPlans, PlanParts
  <2>3. broken = {} => disk = cache
    <3> SUFFICES ASSUME broken = {} PROVE disk = cache
      OBVIOUS
    <3>1. disk \in Disks /\ cache \in Configs
      BY <1>1 DEF StoreType
    <3>2. prevs.edids \in {NoValue, <<disk.all, disk.port>>} /\ prevs.name \in {NoValue, disk.name}
      BY DEF SInv, WrittenEdids, WrittenName
    <3>3. prevs.edids = <<cache.all, cache.port>> /\ prevs.name = cache.name
      BY <2>2 DEF Keys
    <3> QED
      BY <3>1, <3>2, <3>3, WrittenIsSaved
  <2>4. StoreType' /\ WrittenName' /\ WrittenEdids'
    BY <2>1 DEF SInv, StoreType, WrittenName, WrittenEdids, store
  <2>5. SaverType' /\ Planned' /\ SavedWhenIdle'
    BY <1>1, <2>1, <2>3 DEF SaverType, Planned, SavedWhenIdle, store
  <2> QED
    BY <2>4, <2>5 DEF SInv
<1>4. CASE SaveConnects
  <2>1. /\ todo' = Unsaved /\ Unsaved # <<>> /\ lock' = "saver" /\ spc' = "asked"
        /\ UNCHANGED <<store, save, loading, fresh, broken, run>>
    BY <1>4 DEF SaveConnects, SaverIs
  <2>2. UNCHANGED <<AllEdids, PortEdid, PortName, Keys, prevs, disk, cache>>
    BY <2>1 DEF AllEdids, PortEdid, PortName, Keys, store
  <2>3. StoreType' /\ WrittenName' /\ WrittenEdids'
    BY <2>1 DEF SInv, StoreType, WrittenName, WrittenEdids, store
  <2>4. SaverType' /\ SavedWhenIdle'
    BY <1>1, <2>1 DEF SaverType, SavedWhenIdle
  <2>5. /\ todo' \in {<<PortName>>, <<AllEdids, PortEdid>>, <<AllEdids, PortEdid, PortName>>}
        /\ todo' = <<PortName>> => prevs.edids = Keys.edids
        /\ todo' = <<AllEdids, PortEdid>> => prevs.name = cache.name
    <3>1. CASE Keys.edids = prevs.edids /\ Keys.name # prevs.name
      BY <2>1, <3>1, UnsavedPlans, PlansDiffer
    <3>2. CASE Keys.edids # prevs.edids /\ Keys.name = prevs.name
      BY <2>1, <3>2, UnsavedPlans, PlansDiffer DEF Keys
    <3>3. CASE Keys.edids # prevs.edids /\ Keys.name # prevs.name
      BY <2>1, <3>3, UnsavedPlans, PlansDiffer
    <3> QED
      BY <2>1, <3>1, <3>2, <3>3, UnsavedPlans
  <2>6. todo' \notin {<<PortEdid>>, <<PortEdid, PortName>>}
    BY <2>5, PlansDiffer
  <2>7. Planned'
    BY <2>1, <2>2, <2>5, <2>6 DEF Planned, Plans
  <2> QED
    BY <2>3, <2>4, <2>7 DEF SInv
<1>5. CASE SaveAnswered
  <2>1. UNCHANGED <<store, save, loading, fresh, broken, run>> /\ spc = "asked"
    BY <1>5 DEF SaveAnswered
  <2>2. CASE StorageError
    BY <2>1, <2>2, ErrorStep
  <2>3. CASE spc' = "write" /\ UNCHANGED <<lock, todo>>
    <3>1. StoreType' /\ WrittenName' /\ WrittenEdids'
      BY <2>1 DEF SInv, StoreType, WrittenName, WrittenEdids, store
    <3>2. SaverType' /\ SavedWhenIdle'
      BY <1>1, <2>1, <2>3 DEF SaverType, SavedWhenIdle
    <3>3. Planned'
      BY <2>1, <2>3 DEF SInv, Planned, Plans, AllEdids, PortEdid, PortName, Keys, Entry, store
    <3> QED
      BY <3>1, <3>2, <3>3 DEF SInv
  <2> QED
    BY <1>5, <2>2, <2>3 DEF SaveAnswered, SaverIs
<1>6. CASE SkipEqual
  <2>1. /\ spc = "write" /\ Saved(Head(todo)) /\ disk' = disk
        /\ disk[Head(todo).file] = Head(todo).value
        /\ UNCHANGED <<cache, save, loading, fresh, run>>
    BY <1>6 DEF SkipEqual
  <2>2. disk' = [disk EXCEPT ![Head(todo).file] = Head(todo).value]
    BY <1>1, <2>1 DEF StoreType, Disks
  <2> QED
    BY <2>1, <2>2, SavedStep
<1>7. CASE Fill
  BY <1>7, SavedStep DEF Fill
<1>8. CASE FillFails \/ WriteFails
  BY <1>8, ErrorStep DEF FillFails, WriteFails
<1>9. CASE Truncate
  <2>1. /\ spc = "write" /\ disk' = [disk EXCEPT ![Head(todo).file] = Torn]
        /\ broken' = broken \cup {Head(todo).file} /\ spc' = "fill"
        /\ UNCHANGED <<cache, prevs, todo, save, lock, loading, fresh, run>>
    BY <1>9 DEF Truncate, SaverIs
  <2>2. lock = "saver" /\ todo \in Plans
    BY <1>1, <2>1 DEF SInv, SaverType, Planned
  <2>3. UNCHANGED <<AllEdids, PortEdid, PortName, Keys>>
    BY <2>1 DEF AllEdids, PortEdid, PortName, Keys
  <2>4. /\ Head(todo).file \in {"all", "port", "name"}
        /\ todo \in {<<PortEdid>>, <<PortEdid, PortName>>} => Head(todo).file = "port"
    <3>1. AllEdids.file = "all" /\ PortEdid.file = "port" /\ PortName.file = "name"
      BY DEF AllEdids, PortEdid, PortName, Entry
    <3>2. Head(todo) \in {AllEdids, PortEdid, PortName}
      BY <2>2, PlanParts DEF Plans
    <3>3. todo \in {<<PortEdid>>, <<PortEdid, PortName>>} => Head(todo) = PortEdid
      BY PlanParts
    <3> QED
      BY <3>1, <3>2, <3>3
  <2>5. StoreType'
    <3>1. disk' \in Disks
      <4>1. CASE Head(todo).file = "all"
        BY <1>1, <2>1, <4>1 DEF StoreType, Disks
      <4>2. CASE Head(todo).file = "port"
        BY <1>1, <2>1, <4>2 DEF StoreType, Disks
      <4>3. CASE Head(todo).file = "name"
        BY <1>1, <2>1, <4>3 DEF StoreType, Disks
      <4> QED
        BY <2>4, <4>1, <4>2, <4>3
    <3> QED
      BY <1>1, <2>1, <2>4, <3>1 DEF StoreType
  <2>6. WrittenName' /\ WrittenEdids'
    BY <1>1, <2>1, <2>4 DEF SInv, WrittenName, WrittenEdids, StoreType, Disks
  <2>7. SaverType' /\ SavedWhenIdle'
    BY <1>1, <2>1 DEF SaverType, SavedWhenIdle
  <2>8. todo \in {<<PortEdid>>, <<PortEdid, PortName>>} => disk'.all = cache.all
    BY <1>1, <2>1, <2>2, <2>4 DEF SInv, Planned, StoreType, Disks
  <2>9. Planned'
    BY <2>1, <2>2, <2>3, <2>8 DEF SInv, Planned, Plans
  <2> QED
    BY <2>5, <2>6, <2>7, <2>9 DEF SInv
<1> QED
  BY <1>2, <1>3, <1>4, <1>5, <1>6, <1>7, <1>8, <1>9 DEF SaverSteps

-----------------------------------------------------------------------------
(* Both together *)

\* What the steps of KVMD do to its connection and to the mount.
LEMMA StorageAndMount ==
  PInv /\ SInv /\ (SaverSteps \/ CreateEdid \/ RemoveEdid \/ SetPortParams \/ LoadSucceeds
                   \/ LoadFails \/ DeviceFound \/ Crash) => PInv'
<1> SUFFICES ASSUME PInv, SInv,
                    SaverSteps \/ CreateEdid \/ RemoveEdid \/ SetPortParams \/ LoadSucceeds
                    \/ LoadFails \/ DeviceFound \/ Crash
             PROVE  PInv'
  OBVIOUS
<1> USE StorageAssumption DEF mount, clients
<1>0. PstType /\ (Leave(Saver) => /\ link' \in [Clients -> {"none", "open", "closed"}]
                                 /\ inbox' \in [Clients -> Seq(BOOLEAN)]
                                 /\ told' = told)
  BY LeaveType DEF PInv
<1>1. CASE SaveConnects
  BY <1>1, ConnectStep DEF SaveConnects
<1>2. CASE UNCHANGED pstVars
  <2>1. UNCHANGED <<rw, files, server, link, inbox, told, failures>>
    BY <1>2 DEF pstVars
  <2> QED
    BY <1>0, <2>1, ClientStep DEF PstType
<1>3. CASE SaverNotified \/ Debounced \/ SaveNothing \/ Retries \/ CreateEdid \/ RemoveEdid
          \/ SetPortParams \/ LoadSucceeds \/ LoadFails \/ DeviceFound
  BY <1>2, <1>3 DEF SaverNotified, Debounced, SaveNothing, Retries, CreateEdid, RemoveEdid,
       SetPortParams, Set, LoadSucceeds, LoadFails, DeviceFound
<1>4. CASE SaveAnswered \/ WriteFails
  <2>1. UNCHANGED <<mount, server, failures>> /\ (Leave(Saver) \/ UNCHANGED clients)
    BY <1>4 DEF SaveAnswered, WriteFails, StorageError
  <2> QED
    BY <1>0, <2>1, ClientStep DEF PstType
<1>5. CASE SkipEqual \/ Fill
  <2>1. /\ UNCHANGED <<rw, server, failures>> /\ files' \subseteq files
        /\ Leave(Saver) \/ UNCHANGED clients
    BY <1>5 DEF SkipEqual, Fill, Saved
  <2> QED
    BY <1>0, <2>1, ClientStep DEF PstType
<1>6. CASE Truncate
  BY <1>0, <1>6, ClientStep DEF Truncate, PstType
<1>7. CASE FillFails
  <2>1. UNCHANGED <<rw, server>> /\ files' \subseteq files /\ Leave(Saver) /\ Fails
    BY <1>7 DEF FillFails, StorageError
  <2> QED
    BY <1>0, <2>1, FailsType, ClientStep DEF PstType
<1>8. CASE Crash
  <2>1. UNCHANGED <<rw, server, failures>> /\ files' \subseteq files /\ Leave(Saver)
    BY <1>8 DEF Crash
  <2> QED
    BY <1>0, <2>1, ClientStep DEF PstType
<1> QED
  BY <1>1, <1>3, <1>4, <1>5, <1>6, <1>7, <1>8 DEF SaverSteps

IInv == PInv /\ SInv

\* The strengthened invariant holds at the start.
LEMMA InitIInv == Init => IInv
<1> SUFFICES ASSUME Init PROVE IInv
  OBVIOUS
<1>1. PInv
  <2>1. failures \in 0 .. MaxFailures
    BY PstAssumption DEF Init, PstInit
  <2>2. inbox \in [Clients -> Seq(BOOLEAN)]
    BY DEF Init, PstInit
  <2>3. 0 \in 0 .. 1
    OBVIOUS
  <2>4. rw \in BOOLEAN /\ note \in BOOLEAN
    BY Zenon DEF Init, PstInit
  <2>5. /\ files = {} /\ wss = {} /\ pc = "check" /\ prev = 0 /\ down = "no"
        /\ link \in [Clients -> {"none", "open", "closed"}]
        /\ told \in [Clients -> {"nothing", "yes", "no"}]
    BY DEF Init, PstInit
  <2>6. PstType
    BY <2>1, <2>2, <2>3, <2>4, <2>5, Zenon DEF PstType
  <2> QED
    BY <2>5, <2>6, Zenon DEF PInv, Closed, OpenIsWritable, WritableWhileAllowed
<1>2. DefaultCache \in Configs /\ DefaultCache \in Disks
  BY StorageAssumption DEF DefaultCache, Configs, Disks
<1>3. StoreType
  BY <1>2 DEF Init, StoreType, NothingWritten
<1>4. SaverType
  BY DEF Init, SaverType, RunInit
<1>5. Planned /\ WrittenName /\ WrittenEdids /\ SavedWhenIdle
  BY DEF Init, Planned, WrittenName, WrittenEdids, SavedWhenIdle, NothingWritten
<1> QED
  BY <1>1, <1>3, <1>4, <1>5 DEF IInv, SInv

\* Every step keeps it.
LEMMA NextIInv == IInv /\ [Next]_vars => IInv'
<1> SUFFICES ASSUME PInv, SInv, [Next]_vars PROVE PInv' /\ SInv'
  BY DEF IInv
<1>1. UNCHANGED <<runVars, store, saver>> => SInv'
  BY StoreUnmoved DEF SInv, SaverType, saver, runVars
<1>2. UNCHANGED <<store, saver>> /\ run' \in {"off", "listening", "running", "killing"} => SInv'
  BY StoreUnmoved DEF SInv, SaverType, saver
<1>3. CASE SaverSteps
  BY <1>3, SaverStep, StorageAndMount
<1>4. CASE CreateEdid \/ RemoveEdid \/ SetPortParams \/ LoadSucceeds \/ LoadFails \/ DeviceFound
          \/ Crash
  BY <1>4, ConfigurationStep, StorageAndMount
<1>5. CASE PstStops
  BY <1>1, <1>5, ShutdownStep DEF PstStops
<1>6. CASE (Controller \/ Shutdown \/ \E c \in Clients : RemoveWs(c)) /\ UNCHANGED Rest
  BY <1>1, <1>6, ControllerStep, ShutdownStep DEF Rest
<1>7. CASE PstRun /\ UNCHANGED <<store, saver, left>>
  <2>1. run' \in {"off", "listening", "running", "killing"}
    BY <1>7 DEF PstRun, RunStarts, RunReceives, ProcessOpens, ProcessCloses, RunEnds, runVars,
         SInv, SaverType
  <2> QED
    BY <1>2, <1>7, <2>1, RunStep
<1>8. CASE UNCHANGED vars
  <2>1. UNCHANGED <<rw, files, server, link, inbox, told, failures, runVars, store, saver>>
    BY <1>8 DEF vars, pstVars, mount, clients
  <2> QED
    BY <1>1, <2>1, ClientStep DEF PInv, PstType
<1> QED
  BY <1>3, <1>4, <1>5, <1>6, <1>7, <1>8 DEF Next

\* The strengthened invariant holds in every reachable state.
THEOREM Inductive == Spec => []IInv
  BY InitIInv, NextIInv, PTL DEF Spec

\* Every variable keeps its type, and the lock is held exactly while a plan is
\* carried out.
THEOREM TypeCorrect == Spec => []TypeOK
<1>1. IInv => TypeOK
  <2> SUFFICES ASSUME IInv PROVE TypeOK
    OBVIOUS
  <2>1. PstType /\ StoreType /\ SaverType
    BY DEF IInv, PInv, SInv
  <2>2. DOMAIN disk = {"all", "port", "name"}
    BY <2>1 DEF StoreType, Disks
  <2>3. \A file \in DOMAIN disk : disk[file] = Torn \/ \E c \in Configs : disk[file] = c[file]
    <3>1. PICK n \in Names : TRUE
      BY StorageAssumption
    <3>2. ASSUME disk["all"] # Torn PROVE \E c \in Configs : disk["all"] = c["all"]
      <4>1. disk["all"] \in SUBSET Ids
        BY <2>1, <3>2 DEF StoreType, Disks
      <4>2. [all |-> disk["all"], port |-> Default, name |-> n] \in Configs
        BY <4>1 DEF Configs
      <4> QED
        BY <4>2
    <3>3. ASSUME disk["port"] # Torn PROVE \E c \in Configs : disk["port"] = c["port"]
      <4>1. disk["port"] \in Ids \cup {Default}
        BY <2>1, <3>3 DEF StoreType, Disks
      <4>2. [all |-> {}, port |-> disk["port"], name |-> n] \in Configs
        BY <4>1 DEF Configs
      <4> QED
        BY <4>2
    <3>4. ASSUME disk["name"] # Torn PROVE \E c \in Configs : disk["name"] = c["name"]
      <4>1. disk["name"] \in Names
        BY <2>1, <3>4 DEF StoreType, Disks
      <4>2. [all |-> {}, port |-> Default, name |-> disk["name"]] \in Configs
        BY <4>1 DEF Configs
      <4> QED
        BY <4>2
    <3> QED
      BY <2>2, <3>2, <3>3, <3>4
  <2> QED
    BY <2>1, <2>2, <2>3 DEF TypeOK, StoreType, SaverType
<1> QED
  BY <1>1, Inductive, PTL

\* Who was told that it may write can write, whoever else comes and goes and
\* whatever fails, until a shutdown.
THEOREM AllowedIsWritable == Spec => []WritableWhileAllowed
<1>1. IInv => WritableWhileAllowed
  BY DEF IInv, PInv
<1> QED
  BY <1>1, Inductive, PTL

\* A file open for writing keeps the partition writable, through restarts of
\* kvmd-pst too.
THEOREM OpenKeepsWritable == Spec => []OpenIsWritable
<1>1. IInv => OpenIsWritable
  BY DEF IInv, PInv
<1> QED
  BY <1>1, Inductive, PTL

\* When the saver has nothing to do, the files hold the configuration, unless a
\* save stopped half-way.
THEOREM IdleIsSaved == Spec => []SavedWhenIdle
<1>1. IInv => SavedWhenIdle
  BY DEF IInv, SInv
<1> QED
  BY <1>1, Inductive, PTL

=============================================================================
