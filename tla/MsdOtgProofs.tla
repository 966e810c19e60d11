---------------------------- MODULE MsdOtgProofs ----------------------------
(***************************************************************************)
(* Proofs about MsdOtg for any set of images and any number of actions of  *)
(* somebody else.  Marks is the inductive form of IncompleteIsMarked: what *)
(* an upload or a removal knows about its image at each step.  Listing is  *)
(* the one behind AttachesOnlyStored and OnlineIsReadable: a selected      *)
(* stored image is in the loaded list, except that during a reload, before *)
(* the selection is looked at again, it may have left the disk.            *)
(***************************************************************************)
EXTENDS MsdPoller, TLAPS

TaskLocked == {"scan", "read", "probe", "set"}
OpLocked == {"ro", "c_rw", "c_set", "w_rw", "w_mark", "w_open", "f_mark", "remove_file",
             "remove_marker"}

\* TypeOK, in parts.
Outside ==
  /\ disk \subseteq Images /\ marker \subseteq Images /\ whole \subseteq disk
  /\ mount \in {"ro", "rw"}
  /\ kfile \in Images \cup {Foreign, NoImage} /\ krw \in BOOLEAN
  /\ enabled \in BOOLEAN /\ ext \in 0..MaxExt

Inside ==
  /\ images \in (SUBSET Images) \cup {NoSet}
  /\ vd \in Drives \cup {NoVd}
  /\ real \in Drives \cup {NoVd}
  /\ full \in BOOLEAN
  /\ events \subseteq {"drive", "storage"}

Call ==
  /\ busy \in BOOLEAN /\ complete \in BOOLEAN
  /\ arg \in Images \cup {Foreign, NoImage}
  /\ pc \in Calls \cup {"idle", "r_data", "w_data", "w_fin"} \cup OpLocked
  /\ pc \in {"r_data", "w_rw", "w_mark", "w_open", "w_data", "w_fin", "f_mark", "remove_file",
            "remove_marker"} => arg \in Images
  /\ busy = (pc # "idle")

Locking ==
  /\ task \in {"starting", "watch", "relock"} \cup TaskLocked
  /\ lock = IF task \in TaskLocked THEN "task" ELSE IF pc \in OpLocked THEN "op" ELSE "free"
  /\ task \in TaskLocked => pc \notin OpLocked

Marks ==
  /\ disk \ marker \subseteq whole
  /\ pc = "w_open" => arg \in marker
  /\ complete => pc \in {"w_fin", "f_mark", "ro"}
  /\ complete /\ pc \in {"w_fin", "f_mark"} => arg \notin disk \ whole
  /\ pc = "remove_marker" => arg \notin disk

\* The image of v, if it is stored, is in the list.
Listed(v) == v.image # NoImage /\ v.image.stored => v.image.name \in images

ListedOrGone(v) ==
  v.image # NoImage /\ v.image.stored => v.image.name \in images \/ v.image.name \notin disk

Listing ==
  /\ task \notin TaskLocked /\ vd # NoVd => images # NoSet /\ Listed(vd)
  /\ task \in {"read", "probe", "set"} => images \in SUBSET Images
  /\ task \in {"read", "probe", "set"} /\ vd # NoVd => ListedOrGone(vd)
  /\ task \in {"probe", "set"} => real \in Drives /\ Listed(real)
  /\ pc \in {"c_rw", "c_set"} => arg \in images /\ images \in SUBSET Images /\ vd \in Drives \ {NoVd}

IInv == Outside /\ Inside /\ Call /\ Locking /\ Marks /\ Listing

\* The six parts together imply the type invariant.
LEMMA TypeParts == IInv => TypeOK
  BY DEF IInv, Outside, Inside, Call, Locking, OpLocked, TaskLocked, TypeOK

-----------------------------------------------------------------------------

\* A drive with one field changed.
LEMMA DriveUpdated ==
  ASSUME NEW v \in Drives
  PROVE  /\ [v EXCEPT !.connected = TRUE] \in Drives
         /\ [v EXCEPT !.connected = FALSE] \in Drives
         /\ [v EXCEPT !.image = NoImage] \in Drives
         /\ [v EXCEPT !.connected = TRUE].image = v.image
         /\ [v EXCEPT !.connected = FALSE].image = v.image
         /\ [v EXCEPT !.image = NoImage].image = NoImage
  BY DEF Drives

\* Listing when neither a reload nor a connection is under way.
LEMMA ListingAtRest ==
  ASSUME task' \notin TaskLocked, pc' \notin {"c_rw", "c_set"},
         vd' # NoVd => images' # NoSet /\ Listed(vd)'
  PROVE  Listing'
  BY DEF Listing, TaskLocked

\* Only an upload and a removal touch the marks, each at its own image.
LEMMA MarksKept == IInv /\ [Next]_vars => Marks'
<1> SUFFICES ASSUME IInv, [Next]_vars PROVE Marks'
  OBVIOUS
<1> USE DEF IInv, Marks, Outside, Call, Calls, OpLocked, Locking,
            Leave, Goto, GotoWith, fs, kernel, state, op, watch, env
<1>1. CASE WriteMark
  BY <1>1 DEF WriteMark
<1>2. CASE WriteOpen
  BY <1>2 DEF WriteOpen
<1>3. CASE WriteAll
  BY <1>3 DEF WriteAll
<1>4. CASE FinishMark
  BY <1>4 DEF FinishMark
<1>5. CASE RemoveFile
  BY <1>5 DEF RemoveFile
<1>6. CASE RemoveMarker
  BY <1>6 DEF RemoveMarker
<1>7. ASSUME NEW i \in Images, ExternalRemove(i) PROVE Marks'
  BY <1>7 DEF ExternalRemove, External
<1>8. ASSUME NEW f \in Images \cup {Foreign}, ExternalAttach(f) PROVE Marks'
  BY <1>8 DEF ExternalAttach
<1>9. ASSUME NEW call \in Calls, Enter(call) PROVE Marks'
  BY <1>9 DEF Enter
<1>10. CASE (\E i \in Images : WriteBegin(i)) \/ WriteFails \/ WriteRemount \/ WriteAborted
          \/ WriteFinish \/ (\E i \in Images : RemoveBegin(i))
  BY <1>10 DEF WriteBegin, WriteFails, WriteRemount, WriteAborted, WriteFinish, RemoveBegin
<1>11. CASE Refuse \/ SetParams \/ Reset \/ (\E i \in Images : ReadOpen(i)) \/ ReadClose
          \/ FinishRo \/ ConnectCheck \/ ConnectRw \/ ConnectSet \/ Disconnect
  BY <1>11 DEF Refuse, SetParams, Reset, ReadOpen, ReadClose, FinishRo, ConnectCheck,
          ConnectRw, ConnectSet, Disconnect
<1>12. CASE WatchStart \/ WatchStop \/ WatchEvents \/ ReloadLock \/ ReloadScan \/ ReloadRead
          \/ ReloadProbe \/ ReloadSet \/ ReloadFails
  BY <1>12 DEF WatchStart, WatchStop, WatchEvents, ReloadLock, ReloadScan, ReloadRead,
          ReloadProbe, ReloadSet, ReloadFails
<1>13. CASE Restart
  BY <1>13 DEF Restart
<1>14. CASE ExternalEject \/ ExternalToggle \/ UNCHANGED vars
  BY <1>14 DEF ExternalEject, ExternalToggle, vars
<1> QED
  BY <1>1, <1>2, <1>3, <1>4, <1>5, <1>6, <1>7, <1>8, <1>9, <1>10, <1>11, <1>12, <1>13, <1>14
    DEF Next, Work, CallStep, Upload, WatchStep, Others

\* The call and its image.
LEMMA CallKept == IInv /\ [Next]_vars => Call'
<1> SUFFICES ASSUME IInv, [Next]_vars PROVE Call'
  OBVIOUS
<1> USE DEF IInv, Call, Calls, OpLocked,
            Leave, Goto, GotoWith, fs, kernel, state, op, watch, env
<1>1. CASE ConnectCheck
  BY <1>1 DEF ConnectCheck, CheckDisconnected, Connectable, Outside, Inside, Drives, Known
<1>2. CASE (\E call \in Calls : Enter(call)) \/ Refuse \/ SetParams \/ Reset
          \/ (\E i \in Images : ReadOpen(i)) \/ ReadClose \/ FinishRo \/ ConnectRw
          \/ ConnectSet \/ Disconnect
  BY <1>2 DEF Enter, Refuse, SetParams, Reset, ReadOpen, ReadClose, FinishRo, ConnectRw,
          ConnectSet, Disconnect
<1>3. CASE (\E i \in Images : WriteBegin(i)) \/ WriteFails \/ WriteRemount \/ WriteMark
          \/ WriteOpen \/ WriteAll \/ WriteAborted \/ WriteFinish
  BY <1>3 DEF WriteBegin, WriteFails, WriteRemount, WriteMark, WriteOpen, WriteAll,
          WriteAborted, WriteFinish
<1>4. CASE FinishMark \/ (\E i \in Images : RemoveBegin(i)) \/ RemoveFile \/ RemoveMarker
          \/ Restart
  BY <1>4 DEF FinishMark, RemoveBegin, RemoveFile, RemoveMarker, Restart
<1>5. CASE WatchStart \/ WatchStop \/ WatchEvents \/ ReloadLock \/ ReloadScan
  BY <1>5 DEF WatchStart, WatchStop, WatchEvents, ReloadLock, ReloadScan
<1>6. CASE ReloadRead \/ ReloadProbe \/ ReloadSet \/ ReloadFails
  BY <1>6 DEF ReloadRead, ReloadProbe, ReloadSet, ReloadFails
<1>7. CASE (\E f \in Images \cup {Foreign} : ExternalAttach(f)) \/ ExternalEject
          \/ (\E i \in Images : ExternalRemove(i)) \/ ExternalToggle \/ UNCHANGED vars
  BY <1>7 DEF ExternalAttach, ExternalEject, ExternalRemove, ExternalToggle, vars
<1> QED
  BY <1>1, <1>2, <1>3, <1>4, <1>5, <1>6, <1>7
    DEF Next, Work, CallStep, Upload, WatchStep, Others

\* Whoever is at a step that needs the lock has it, and nobody else.
LEMMA LockingKept == IInv /\ [Next]_vars => Locking'
<1> SUFFICES ASSUME IInv, [Next]_vars PROVE Locking'
  OBVIOUS
<1> USE DEF IInv, Locking, Call, Calls, OpLocked, TaskLocked,
            Leave, Goto, GotoWith, fs, kernel, state, op, watch, env
<1>1. ASSUME NEW call \in Calls, Enter(call) PROVE Locking'
  BY <1>1 DEF Enter
<1>2. CASE Refuse \/ SetParams \/ Reset \/ (\E i \in Images : ReadOpen(i)) \/ ReadClose
          \/ FinishRo \/ ConnectCheck \/ ConnectRw \/ ConnectSet \/ Disconnect
  BY <1>2 DEF Refuse, SetParams, Reset, ReadOpen, ReadClose, FinishRo, ConnectCheck, ConnectRw,
          ConnectSet, Disconnect
<1>3. CASE (\E i \in Images : WriteBegin(i)) \/ WriteFails \/ WriteRemount \/ WriteMark
          \/ WriteOpen \/ WriteAll \/ WriteAborted \/ WriteFinish
  BY <1>3 DEF WriteBegin, WriteFails, WriteRemount, WriteMark, WriteOpen, WriteAll,
          WriteAborted, WriteFinish
<1>4. CASE FinishMark \/ (\E i \in Images : RemoveBegin(i)) \/ RemoveFile \/ RemoveMarker
          \/ Restart
  BY <1>4 DEF FinishMark, RemoveBegin, RemoveFile, RemoveMarker, Restart
<1>5. CASE WatchStart \/ WatchStop \/ WatchEvents \/ ReloadLock \/ ReloadScan \/ ReloadRead
          \/ ReloadProbe
  BY <1>5 DEF WatchStart, WatchStop, WatchEvents, ReloadLock, ReloadScan, ReloadRead,
          ReloadProbe
<1>6. CASE ReloadSet
  BY <1>6 DEF ReloadSet
<1>7. CASE ReloadFails
  BY <1>7 DEF ReloadFails
<1>8. CASE (\E f \in Images \cup {Foreign} : ExternalAttach(f)) \/ ExternalEject
  BY <1>8 DEF ExternalAttach, ExternalEject
<1>9. CASE (\E i \in Images : ExternalRemove(i)) \/ ExternalToggle \/ UNCHANGED vars
  BY <1>9 DEF ExternalRemove, ExternalToggle, vars
<1> QED
  BY <1>1, <1>2, <1>3, <1>4, <1>5, <1>6, <1>7, <1>8, <1>9
    DEF Next, Work, CallStep, Upload, WatchStep, Others

\* The disk, the mount and the kernel.
LEMMA OutsideKept == IInv /\ [Next]_vars => Outside'
<1> SUFFICES ASSUME IInv, [Next]_vars PROVE Outside'
  OBVIOUS
<1> USE DEF IInv, Outside, OnRoot, Event, fs, kernel, state, op, watch, env
<1>1. CASE Reset
  BY <1>1 DEF Reset
<1>2. CASE FinishRo
  BY <1>2 DEF FinishRo, RemountRo
<1>3. CASE ConnectRw \/ WriteRemount
  BY <1>3 DEF ConnectRw, WriteRemount, RemountRw
<1>4. ASSUME NEW i \in Images, RemoveBegin(i) PROVE Outside'
  <2>1. UNCHANGED <<fs, kernel, env>> /\ mount' \in {mount, "rw"}
    BY <1>4 DEF RemoveBegin, RemountRw
  <2> QED
    BY <2>1
<1>5. CASE ConnectSet
  <2>1. vd \in Drives
    BY <1>5 DEF ConnectSet, Listing
  <2>2. vd.rw \in BOOLEAN
    BY <2>1 DEF Drives
  <2>3. UNCHANGED <<fs, mount, env>> /\ kfile' \in {kfile, NoImage} \cup disk \cup {Foreign}
    BY <1>5 DEF ConnectSet
  <2>4. krw' \in BOOLEAN
    BY <1>5, <2>2 DEF ConnectSet
  <2> QED
    BY <2>2, <2>3, <2>4
<1>6. CASE Disconnect
  <2>1. UNCHANGED <<fs, mount, krw, env>> /\ kfile' = NoImage
    BY <1>6 DEF Disconnect
  <2> QED
    BY <2>1
<1>7. CASE WriteMark
  BY <1>7 DEF WriteMark, Call
<1>8. CASE WriteOpen
  BY <1>8 DEF WriteOpen, Call
<1>9. CASE WriteAll
  BY <1>9 DEF WriteAll
<1>10. CASE FinishMark
  <2>1. arg \in Images
    BY <1>10 DEF FinishMark, Call
  <2>2. UNCHANGED <<disk, whole, mount, kernel, env>> /\ marker' \subseteq marker \cup {arg}
    BY <1>10 DEF FinishMark
  <2> QED
    BY <2>1, <2>2
<1>11. CASE RemoveFile
  BY <1>11 DEF RemoveFile
<1>12. CASE RemoveMarker
  BY <1>12 DEF RemoveMarker
<1>13. CASE ReloadProbe \/ ReloadFails
  <2>1. UNCHANGED <<fs, kernel, env>> /\ mount' \in {mount, "ro", "rw"}
    BY <1>13 DEF ReloadProbe, ReloadFails
  <2> QED
    BY <2>1
<1>14. ASSUME NEW f \in Images \cup {Foreign}, ExternalAttach(f) PROVE Outside'
  <2>1. UNCHANGED <<fs, mount, enabled>> /\ kfile' \in Images \cup {Foreign}
    BY <1>14 DEF ExternalAttach
  <2>2. krw' \in BOOLEAN
    BY <1>14 DEF ExternalAttach
  <2>3. ext' \in 0..MaxExt
    BY <1>14, MsdAssumption DEF ExternalAttach, External
  <2> QED
    BY <2>1, <2>2, <2>3
<1>15. CASE ExternalEject \/ ExternalToggle
  <2>1. UNCHANGED <<fs, mount, krw>> /\ kfile' \in {kfile, NoImage}
    BY <1>15 DEF ExternalEject, ExternalToggle
  <2>2. enabled' \in BOOLEAN
    BY <1>15 DEF ExternalEject, ExternalToggle
  <2>3. ext' \in 0..MaxExt
    BY <1>15, MsdAssumption DEF ExternalEject, ExternalToggle, External
  <2> QED
    BY <2>1, <2>2, <2>3
<1>16. ASSUME NEW i \in Images, ExternalRemove(i) PROVE Outside'
  BY <1>16, MsdAssumption DEF ExternalRemove, External
<1>17. CASE (\E call \in Calls : Enter(call)) \/ Refuse \/ SetParams
          \/ (\E i \in Images : ReadOpen(i)) \/ ReadClose \/ ConnectCheck
  BY <1>17 DEF Enter, Refuse, SetParams, ReadOpen, ReadClose, ConnectCheck
<1>18. CASE (\E i \in Images : WriteBegin(i)) \/ WriteFails \/ WriteAborted \/ WriteFinish
  BY <1>18 DEF WriteBegin, WriteFails, WriteAborted, WriteFinish
<1>19. CASE WatchStart \/ WatchStop \/ WatchEvents \/ ReloadLock \/ ReloadScan \/ ReloadRead
          \/ ReloadSet
  BY <1>19 DEF WatchStart, WatchStop, WatchEvents, ReloadLock, ReloadScan, ReloadRead,
          ReloadSet
<1>20. CASE Restart
  BY <1>20 DEF Restart
<1>21. CASE UNCHANGED vars
  BY <1>21 DEF vars
<1> QED
  BY <1>1, <1>2, <1>3, <1>4, <1>5, <1>6, <1>7, <1>8, <1>9, <1>10, <1>11, <1>12, <1>13, <1>14,
     <1>15, <1>16, <1>17, <1>18, <1>19, <1>20, <1>21
    DEF Next, Work, CallStep, Upload, WatchStep, Others

\* What kvmd keeps about them.
LEMMA InsideKept == IInv /\ [Next]_vars => Inside'
<1> SUFFICES ASSUME IInv, [Next]_vars PROVE Inside'
  OBVIOUS
<1> USE DEF IInv, Inside, Event, fs, kernel, state, op, watch, env
<1>1. CASE SetParams
  <2>1. vd \in Drives /\ UNCHANGED <<images, real, full, events>>
    BY <1>1 DEF SetParams, CheckDisconnected
  <2>2. PICK w \in BOOLEAN,
             img \in {vd.image, NoImage} \cup {[name |-> i, stored |-> TRUE] : i \in {x \in images : Found(x)}} :
          vd' = [image |-> img, connected |-> vd.connected,
                 rw |-> w /\ (img = NoImage \/ Writable(img.name))]
    BY <1>1 DEF SetParams
  <2>3. img \in Known \cup {NoImage}
    <3>1. \A x \in images : Found(x) => x \in Images
      BY DEF Found, Outside
    <3>2. ASSUME NEW i \in images, Found(i), img = [name |-> i, stored |-> TRUE]
          PROVE  img \in Known
      BY <3>1, <3>2 DEF Known
    <3>3. vd.image \in Known \cup {NoImage}
      BY <2>1 DEF Drives
    <3> QED
      BY <2>1, <3>2, <3>3
  <2>4. (w /\ (img = NoImage \/ Writable(img.name))) \in BOOLEAN
    OBVIOUS
  <2>5. vd' \in Drives
    BY <2>1, <2>2, <2>3, <2>4 DEF Drives
  <2> QED
    BY <2>1, <2>5
<1>2. CASE Reset
  BY <1>2 DEF Reset
<1>3. CASE ConnectSet
  <2>1. vd \in Drives
    BY <1>3 DEF ConnectSet, Listing
  <2>2. vd' \in {vd, [vd EXCEPT !.connected = TRUE]}
    BY <1>3 DEF ConnectSet
  <2>3. vd' \in Drives
    <3>1. [vd EXCEPT !.connected = TRUE] \in Drives
      BY <2>1, DriveUpdated
    <3> QED
      BY <2>1, <2>2, <3>1
  <2>4. UNCHANGED <<images, real, full>> /\ events' \subseteq events \cup {"drive"}
    BY <1>3 DEF ConnectSet
  <2> QED
    BY <2>3, <2>4
<1>4. CASE Disconnect
  <2>1. vd \in Drives
    BY <1>4 DEF Disconnect, CheckConnected
  <2>2. vd' \in Drives
    BY <1>4, <2>1, DriveUpdated DEF Disconnect
  <2> QED
    BY <1>4, <2>2 DEF Disconnect
<1>5. CASE WriteMark \/ WriteOpen \/ WriteFinish \/ FinishMark \/ RemoveFile \/ RemoveMarker
  BY <1>5 DEF WriteMark, WriteOpen, WriteFinish, FinishMark, RemoveFile, RemoveMarker
<1>6. ASSUME NEW i \in Images, RemoveBegin(i) PROVE Inside'
  <2>1. vd \in Drives
    BY <1>6 DEF RemoveBegin, CheckDisconnected
  <2>2. vd' \in {vd, [vd EXCEPT !.image = NoImage]}
    BY <1>6 DEF RemoveBegin
  <2>3. vd' \in Drives
    <3>1. [vd EXCEPT !.image = NoImage] \in Drives
      BY <2>1, DriveUpdated
    <3> QED
      BY <2>1, <2>2, <3>1
  <2> QED
    BY <1>6, <2>3 DEF RemoveBegin
<1>7. CASE WatchStart \/ WatchStop \/ WatchEvents
  <2>1. full' = TRUE \/ full' = FALSE
    BY <1>7 DEF WatchStart, WatchStop, WatchEvents
  <2> QED
    BY <1>7, <2>1 DEF WatchStart, WatchStop, WatchEvents
<1>8. CASE ReloadLock
  <2>1. full' = FALSE /\ UNCHANGED <<vd, real, events>>
    BY <1>8 DEF ReloadLock
  <2>2. images' \in (SUBSET Images) \cup {NoSet}
    BY <1>8 DEF ReloadLock
  <2> QED
    BY <2>1, <2>2
<1>9. CASE ReloadScan
  BY <1>9 DEF ReloadScan, Outside
<1>10. CASE ReloadRead
  BY <1>10 DEF ReloadRead, Outside, Drives, Known
<1>11. CASE ReloadProbe \/ ReloadFails
  BY <1>11 DEF ReloadProbe, ReloadFails
<1>12. CASE ReloadSet
  BY <1>12 DEF ReloadSet, Online, Listing, Drives
<1>13. ASSUME NEW f \in Images \cup {Foreign}, ExternalAttach(f) PROVE Inside'
  BY <1>13 DEF ExternalAttach, External
<1>14. ASSUME NEW i \in Images, ExternalRemove(i) PROVE Inside'
  BY <1>14 DEF ExternalRemove, External
<1>15. CASE ExternalEject \/ ExternalToggle
  <2>1. UNCHANGED <<state, real, full>> /\ events' \subseteq events \cup {"drive"}
    BY <1>15 DEF ExternalEject, ExternalToggle, External
  <2> QED
    BY <2>1
<1>16. CASE Restart
  <2>1. images' = NoSet /\ vd' = NoVd /\ real' = NoVd /\ full' = FALSE /\ events' = {}
    BY <1>16 DEF Restart
  <2> QED
    BY <2>1
<1>17. CASE (\E call \in Calls : Enter(call)) \/ Refuse \/ (\E i \in Images : ReadOpen(i))
          \/ ReadClose \/ FinishRo \/ ConnectCheck \/ ConnectRw
  BY <1>17 DEF Enter, Refuse, ReadOpen, ReadClose, FinishRo, ConnectCheck, ConnectRw
<1>18. CASE (\E i \in Images : WriteBegin(i)) \/ WriteFails \/ WriteRemount \/ WriteAll
          \/ WriteAborted
  BY <1>18 DEF WriteBegin, WriteFails, WriteRemount, WriteAll, WriteAborted
<1>19. CASE UNCHANGED vars
  BY <1>19 DEF vars
<1> QED
  BY <1>1, <1>2, <1>3, <1>4, <1>5, <1>6, <1>7, <1>8, <1>9, <1>10, <1>11, <1>12, <1>13, <1>14,
     <1>15, <1>16, <1>17, <1>18, <1>19
    DEF Next, Work, CallStep, Upload, WatchStep, Others

\* The selection and the list.
LEMMA ListingKept == IInv /\ [Next]_vars => Listing'
<1> SUFFICES ASSUME IInv, [Next]_vars PROVE Listing'
  OBVIOUS
<1> USE DEF IInv, fs, kernel, state, op, watch, env
<1>1. CASE SetParams
  <2>1. task' \notin TaskLocked /\ pc' = "idle" /\ images' = images
    BY <1>1 DEF SetParams, Leave, Locking
  <2>2. vd \in Drives /\ images # NoSet /\ Listed(vd)
    BY <1>1 DEF SetParams, CheckDisconnected, Listing, Locking, Inside
  <2>3. PICK img \in {vd.image, NoImage} \cup {[name |-> i, stored |-> TRUE] : i \in {x \in images : Found(x)}} :
          vd'.image = img
    BY <1>1 DEF SetParams
  <2>4. Listed(vd)'
    BY <2>1, <2>2, <2>3 DEF Listed
  <2> QED
    BY <2>1, <2>2, <2>4, ListingAtRest
<1>2. CASE ConnectCheck
  <2>1. task' \notin TaskLocked /\ UNCHANGED <<task, vd, images>>
    BY <1>2 DEF ConnectCheck, Locking
  <2>2. vd \in Drives \ {NoVd} /\ images # NoSet /\ Listed(vd)
    BY <1>2 DEF ConnectCheck, CheckDisconnected, Listing, Locking, Inside
  <2>3. arg' \in images
    BY <1>2, <2>2 DEF ConnectCheck, Connectable, GotoWith, Listed
  <2>4. images \in SUBSET Images
    BY <2>2 DEF Inside
  <2> QED
    BY <2>1, <2>2, <2>3, <2>4 DEF Listing, Listed, TaskLocked
<1>3. CASE ConnectSet
  <2>1. task' \notin TaskLocked /\ pc' = "idle" /\ images' = images
    BY <1>3 DEF ConnectSet, Leave, Locking
  <2>2. vd \in Drives /\ images # NoSet /\ Listed(vd)
    BY <1>3 DEF ConnectSet, Listing, Locking
  <2>3. vd' \in {vd, [vd EXCEPT !.connected = TRUE]}
    BY <1>3 DEF ConnectSet
  <2>4. vd'.image = vd.image
    BY <2>2, <2>3, DriveUpdated
  <2> QED
    BY <2>1, <2>2, <2>4, ListingAtRest DEF Listed
<1>4. CASE Disconnect
  <2>1. task' \notin TaskLocked /\ pc' = "ro" /\ images' = images
    BY <1>4 DEF Disconnect, Goto, Locking
  <2>2. vd \in Drives /\ images # NoSet /\ Listed(vd)
    BY <1>4 DEF Disconnect, CheckConnected, Listing, Locking, Inside
  <2>3. vd'.image = vd.image
    BY <1>4, <2>2, DriveUpdated DEF Disconnect
  <2> QED
    BY <2>1, <2>2, <2>3, ListingAtRest DEF Listed
<1>5. ASSUME NEW i \in Images, RemoveBegin(i) PROVE Listing'
  <2>1. task' \notin TaskLocked /\ pc' \in {"remove_file", "ro"} /\ images' = images
    BY <1>5 DEF RemoveBegin, Goto, GotoWith, Locking
  <2>2. vd \in Drives /\ images # NoSet /\ Listed(vd)
    BY <1>5 DEF RemoveBegin, CheckDisconnected, Listing, Locking, Inside
  <2>3. vd' \in {vd, [vd EXCEPT !.image = NoImage]}
    BY <1>5 DEF RemoveBegin
  <2>4. vd'.image \in {vd.image, NoImage}
    BY <2>2, <2>3, DriveUpdated
  <2>5. Listed(vd)'
    BY <2>1, <2>2, <2>3, <2>4 DEF Listed
  <2> QED
    BY <2>1, <2>2, <2>5, ListingAtRest
<1>6. CASE ReloadLock
  <2>1. task = "relock" /\ pc \notin {"c_rw", "c_set"} /\ UNCHANGED <<pc, vd, disk>>
    BY <1>6 DEF ReloadLock, Locking, OpLocked, TaskLocked
  <2>2. CASE task' = "scan"
    BY <2>1, <2>2 DEF Listing, TaskLocked
  <2>3. CASE task' = "read" /\ images' = images /\ vd # NoVd
    <3>1. images # NoSet /\ Listed(vd)
      BY <2>1, <2>3 DEF Listing, TaskLocked
    <3>2. images \in SUBSET Images
      BY <3>1 DEF Inside
    <3> QED
      BY <2>1, <2>3, <3>1, <3>2 DEF Listing, Listed, ListedOrGone, TaskLocked
  <2> QED
    BY <1>6, <2>2, <2>3 DEF ReloadLock
<1>7. CASE ReloadScan
  <2>1. pc \notin {"c_rw", "c_set"} /\ UNCHANGED <<pc, vd, disk>> /\ task' = "read" /\ images' = disk
    BY <1>7 DEF ReloadScan, Locking, OpLocked, TaskLocked
  <2>2. ListedOrGone(vd)'
    BY <2>1 DEF ListedOrGone
  <2>3. disk \in SUBSET Images
    BY DEF Outside
  <2> QED
    BY <2>1, <2>2, <2>3 DEF Listing, TaskLocked
<1>8. CASE ReloadRead
  <2>1. /\ pc \notin {"c_rw", "c_set"} /\ UNCHANGED <<pc, vd, disk, images>>
        /\ task = "read" /\ task' \in {"probe", "set"}
    BY <1>8 DEF ReloadRead, Locking, OpLocked, TaskLocked
  <2>2. real' \in Drives
    BY <1>8 DEF ReloadRead, Outside, Drives, Known
  <2>3. Listed(real)'
    BY <1>8, <2>1 DEF ReloadRead, Listed
  <2>4. images \in SUBSET Images /\ (vd # NoVd => ListedOrGone(vd))
    BY <2>1 DEF Listing
  <2>5. vd # NoVd => ListedOrGone(vd)'
    BY <2>1, <2>4 DEF ListedOrGone
  <2> QED
    BY <2>1, <2>2, <2>3, <2>4, <2>5 DEF Listing, TaskLocked
<1>9. CASE ReloadSet
  <2>1. task' = "watch" /\ pc' = pc /\ pc \notin {"c_rw", "c_set"} /\ UNCHANGED <<images, disk>>
    BY <1>9 DEF ReloadSet, Locking, OpLocked, TaskLocked
  <2>2. real \in Drives /\ Listed(real) /\ images # NoSet /\ (vd # NoVd => ListedOrGone(vd))
    BY <1>9, MsdAssumption DEF ReloadSet, Listing
  <2>3. Listed(Online)
    BY <2>2 DEF Online, Listed, ListedOrGone
  <2>4. Listed(vd)'
    BY <1>9, <2>1, <2>3 DEF ReloadSet, Listed
  <2> QED
    BY <2>1, <2>2, <2>4, ListingAtRest DEF TaskLocked
<1>10. CASE ReloadProbe
  <2>1. task = "probe" /\ task' = "set" /\ UNCHANGED <<pc, arg, vd, disk, images, real>>
    BY <1>10 DEF ReloadProbe
  <2> QED
    BY <2>1 DEF Listing, Listed, ListedOrGone, TaskLocked
<1>11. CASE ReloadFails
  <2>1. task' = "watch" /\ vd' = NoVd /\ pc' \notin {"c_rw", "c_set"}
    BY <1>11 DEF ReloadFails, Locking, OpLocked, TaskLocked
  <2> QED
    BY <2>1, ListingAtRest DEF TaskLocked
<1>12. ASSUME NEW call \in Calls, Enter(call) PROVE Listing'
  <2>1. pc' \notin {"c_rw", "c_set"} /\ UNCHANGED <<task, vd, disk, images, real>>
    BY <1>12 DEF Enter, Calls
  <2> QED
    BY <2>1 DEF Listing, Listed, ListedOrGone
<1>13. CASE ConnectRw
  <2>1. /\ pc = "c_rw" /\ UNCHANGED <<task, vd, disk, images, real>>
        /\ pc' \in {"c_set", "idle"} /\ (pc' = "c_set" => arg' = arg)
    BY <1>13 DEF ConnectRw, Goto, Leave
  <2> QED
    BY <2>1 DEF Listing, Listed, ListedOrGone
<1>14. CASE Refuse \/ Reset \/ (\E i \in Images : ReadOpen(i)) \/ ReadClose \/ FinishRo
  <2>1. pc' \notin {"c_rw", "c_set"} /\ UNCHANGED <<task, vd, disk, images, real>>
    BY <1>14 DEF Refuse, Reset, ReadOpen, ReadClose, FinishRo, Leave, Goto, GotoWith
  <2> QED
    BY <2>1 DEF Listing, Listed, ListedOrGone
<1>15. CASE (\E i \in Images : WriteBegin(i)) \/ WriteFails \/ WriteRemount \/ WriteMark
  <2>1. pc' \notin {"c_rw", "c_set"} /\ UNCHANGED <<task, vd, disk, images, real>>
    BY <1>15 DEF WriteBegin, WriteFails, WriteRemount, WriteMark, Goto, GotoWith
  <2> QED
    BY <2>1 DEF Listing, Listed, ListedOrGone
<1>16. CASE WriteAll \/ WriteAborted \/ WriteFinish \/ FinishMark \/ RemoveMarker
  <2>1. pc' \notin {"c_rw", "c_set"} /\ UNCHANGED <<task, vd, disk, images, real>>
    BY <1>16 DEF WriteAll, WriteAborted, WriteFinish, FinishMark, RemoveMarker, Goto, Leave
  <2> QED
    BY <2>1 DEF Listing, Listed, ListedOrGone
<1>17. CASE WriteOpen \/ RemoveFile
  <2>1. pc' \notin {"c_rw", "c_set"} /\ task' \notin TaskLocked /\ UNCHANGED <<task, vd, images>>
    BY <1>17 DEF WriteOpen, RemoveFile, Goto, Locking
  <2>2. vd # NoVd => images # NoSet /\ Listed(vd)
    BY <2>1 DEF Listing
  <2> QED
    BY <2>1, <2>2, ListingAtRest DEF Listed
<1>18. CASE WatchStart \/ WatchStop \/ WatchEvents
  <2>1. task \notin TaskLocked /\ task' \notin TaskLocked /\ UNCHANGED <<pc, arg, vd, disk, images>>
    BY <1>18 DEF WatchStart, WatchStop, WatchEvents, TaskLocked
  <2> QED
    BY <2>1 DEF Listing, Listed, TaskLocked
<1>19. ASSUME NEW f \in Images \cup {Foreign}, ExternalAttach(f) PROVE Listing'
  <2>1. UNCHANGED <<pc, arg, task, vd, disk, images, real>>
    BY <1>19 DEF ExternalAttach
  <2> QED
    BY <2>1 DEF Listing, Listed, ListedOrGone
<1>20. ASSUME NEW i \in Images, ExternalRemove(i) PROVE Listing'
  <2>1. UNCHANGED <<pc, arg, task, vd, images, real>> /\ disk' \subseteq disk
    BY <1>20 DEF ExternalRemove
  <2> QED
    BY <2>1 DEF Listing, Listed, ListedOrGone
<1>21. CASE ExternalEject \/ ExternalToggle
  <2>1. UNCHANGED <<pc, arg, task, vd, disk, images, real>>
    BY <1>21 DEF ExternalEject, ExternalToggle
  <2> QED
    BY <2>1 DEF Listing, Listed, ListedOrGone
<1>22. CASE Restart
  <2>1. task' = "starting" /\ vd' = NoVd /\ pc' = "idle"
    BY <1>22 DEF Restart, Leave
  <2> QED
    BY <2>1, ListingAtRest DEF TaskLocked
<1>23. CASE UNCHANGED vars
  BY <1>23 DEF vars, Listing, Listed, ListedOrGone
<1> QED
  BY <1>1, <1>2, <1>3, <1>4, <1>5, <1>6, <1>7, <1>8, <1>9, <1>10, <1>11, <1>12, <1>13, <1>14,
     <1>15, <1>16, <1>17, <1>18, <1>19, <1>20, <1>21, <1>22, <1>23
    DEF Next, Work, CallStep, Upload, WatchStep, Others


-----------------------------------------------------------------------------

\* The strengthened invariant holds when kvmd starts.
LEMMA InitIInv == Init => IInv
<1> SUFFICES ASSUME Init PROVE IInv
  OBVIOUS
<1>1. Outside
  <2>1. disk \subseteq Images /\ marker = {} /\ whole = disk /\ mount = "ro"
    BY DEF Init
  <2>2. kfile = NoImage /\ krw = FALSE /\ enabled = TRUE
    BY DEF Init
  <2>3. ext \in 0..MaxExt
    BY MsdAssumption DEF Init
  <2> QED
    BY <2>1, <2>2, <2>3 DEF Outside
<1>2. Inside
  BY DEF Init, Inside
<1>3. Call /\ Locking
  BY DEF Init, Call, Calls, OpLocked, Locking, TaskLocked
<1>4. Marks /\ Listing
  BY DEF Init, Marks, Listing, TaskLocked
<1> QED
  BY <1>1, <1>2, <1>3, <1>4 DEF IInv

\* The strengthened invariant holds in every reachable state.
THEOREM Inductive == Spec => []IInv
<1>1. IInv /\ [Next]_vars => IInv'
  BY MarksKept, CallKept, LockingKept, OutsideKept, InsideKept, ListingKept DEF IInv
<1> QED
  BY InitIInv, <1>1, PTL DEF Spec

\* Every variable keeps its type, and the lock has exactly one user: the
\* watcher's reload or the call inside the exclusive region.
THEOREM TypeCorrect == Spec => []TypeOK
  BY Inductive, TypeParts, PTL

\* An image without the .incomplete mark has all its data, wherever an upload
\* or a removal fails and wherever kvmd is killed.
THEOREM IncompleteAlwaysMarked == Spec => []IncompleteIsMarked
<1>1. IInv => IncompleteIsMarked
  BY DEF IInv, Marks, IncompleteIsMarked
<1> QED
  BY <1>1, Inductive, PTL

\* Whenever no reload is in progress, an online drive has a loaded image list.
THEOREM OnlineAlwaysReadable == Spec => []OnlineIsReadable
<1>1. IInv => OnlineIsReadable
  BY DEF IInv, Locking, Listing, OnlineIsReadable
<1> QED
  BY <1>1, Inductive, PTL

\* kvmd attaches nothing but an image of the storage that exists.
THEOREM OnlyStoredAttached == Spec => AttachesOnlyStored
<1> DEFINE Attach == kfile' # kfile /\ kfile' # NoImage /\ ext' = ext
                       => kfile' \in images /\ kfile' \in disk
<1>1. IInv /\ [Next]_vars => [Attach]_vars
  <2> SUFFICES ASSUME IInv, Next, kfile' # kfile, kfile' # NoImage, ext' = ext
               PROVE  kfile' \in images /\ kfile' \in disk
    OBVIOUS
  <2>1. CASE ConnectSet
    <3>1. pc = "c_set" /\ kfile' = arg /\ arg \in disk \cup {Foreign}
      BY <2>1 DEF ConnectSet, kernel
    <3>2. arg \in images /\ arg \in Images
      BY <3>1 DEF IInv, Listing
    <3> QED
      BY <3>1, <3>2, MsdAssumption
  <2>2. CASE Reset \/ Disconnect
    BY <2>2 DEF Reset, Disconnect
  <2>3. CASE Others
    <3>1. ext' = ext + 1
      BY <2>3 DEF Others, ExternalAttach, ExternalEject, ExternalRemove, ExternalToggle, External
    <3>2. ext \in 0..MaxExt
      BY DEF IInv, Outside
    <3> QED
      BY <3>1, <3>2, MsdAssumption
  <2>4. CASE WatchStep \/ WatchStop \/ Restart
    BY <2>4 DEF WatchStep, WatchStart, WatchStop, WatchEvents, ReloadLock, ReloadScan,
                ReloadRead, ReloadProbe, ReloadSet, ReloadFails, Restart, kernel
  <2>5. CASE (\E call \in Calls : Enter(call)) \/ Refuse \/ SetParams \/ (\E i \in Images : ReadOpen(i))
             \/ ReadClose \/ ConnectCheck \/ ConnectRw \/ FinishRo
    BY <2>5 DEF Enter, Refuse, SetParams, ReadOpen, ReadClose, ConnectCheck, ConnectRw, FinishRo,
                kernel
  <2>6. CASE Upload \/ (\E i \in Images : RemoveBegin(i)) \/ RemoveFile \/ RemoveMarker
    BY <2>6 DEF Upload, WriteBegin, WriteFails, WriteRemount, WriteMark, WriteOpen, WriteAll,
                WriteAborted, WriteFinish, FinishMark, RemoveBegin, RemoveFile, RemoveMarker, kernel
  <2> QED
    BY <2>1, <2>2, <2>3, <2>4, <2>5, <2>6 DEF Next, Work, CallStep
<1>2. [][Attach]_vars <=> AttachesOnlyStored
  BY PTL DEF AttachesOnlyStored
<1> QED
  BY <1>1, <1>2, Inductive, PTL DEF Spec

-----------------------------------------------------------------------------
(* The refinement of MsdDrive *)

\* What an upload knows about the file of its image: there is none before it is
\* opened, and then it has its mark until the upload is over.
Uploading ==
  /\ pc \in {"w_rw", "w_mark", "w_open"} => arg \notin disk
  /\ pc \in {"w_data", "w_fin", "f_mark"} => arg \notin disk \ marker

LEMMA UploadingKept == IInv /\ Uploading /\ [Next]_vars => Uploading'
<1> SUFFICES ASSUME IInv, Uploading, [Next]_vars PROVE Uploading'
  OBVIOUS
<1> USE DEF Uploading, Calls, Leave, Goto, GotoWith, fs, op
<1>1. CASE WriteOpen
  BY <1>1 DEF WriteOpen, IInv, Marks
<1>2. CASE WriteMark \/ WriteRemount \/ WriteFails
  BY <1>2 DEF WriteMark, WriteRemount, WriteFails
<1>3. CASE (\E i \in Images : WriteBegin(i)) \/ WriteAll \/ WriteAborted \/ WriteFinish
          \/ FinishMark
  BY <1>3 DEF WriteBegin, WriteAll, WriteAborted, WriteFinish, FinishMark
<1>4. CASE (\E i \in Images : RemoveBegin(i)) \/ RemoveFile \/ RemoveMarker
  BY <1>4 DEF RemoveBegin, RemoveFile, RemoveMarker
<1>5. CASE (\E call \in Calls : Enter(call)) \/ Refuse \/ SetParams \/ Reset
          \/ (\E i \in Images : ReadOpen(i)) \/ ReadClose \/ FinishRo
          \/ ConnectCheck \/ ConnectRw \/ ConnectSet \/ Disconnect
  BY <1>5 DEF Enter, Refuse, SetParams, Reset, ReadOpen, ReadClose, FinishRo, ConnectCheck,
          ConnectRw, ConnectSet, Disconnect
<1>6. CASE WatchStart \/ WatchStop \/ WatchEvents \/ ReloadLock \/ ReloadScan \/ ReloadRead
          \/ ReloadProbe \/ ReloadSet \/ ReloadFails \/ Restart
  BY <1>6 DEF WatchStart, WatchStop, WatchEvents, ReloadLock, ReloadScan, ReloadRead,
          ReloadProbe, ReloadSet, ReloadFails, Restart
<1>7. CASE (\E f \in Images \cup {Foreign} : ExternalAttach(f)) \/ ExternalEject
          \/ (\E i \in Images : ExternalRemove(i)) \/ ExternalToggle \/ UNCHANGED vars
  BY <1>7 DEF ExternalAttach, ExternalEject, ExternalRemove, ExternalToggle, vars
<1> QED
  BY <1>1, <1>2, <1>3, <1>4, <1>5, <1>6, <1>7 DEF Next, Work, CallStep, Upload, WatchStep, Others

\* Every step of the code is a step of the abstract drive, or invisible to it.
LEMMA StepRefines == IInv /\ Uploading /\ [Next]_vars => [Drive!Next]_(Drive!vars)
<1> SUFFICES ASSUME IInv, Uploading, [Next]_vars PROVE [Drive!Next]_(Drive!vars)
  OBVIOUS
<1> DEFINE Visible == <<disk, marker, whole, kfile, ext>>
<1>0. UNCHANGED Visible => UNCHANGED Drive!vars
  BY DEF Drive!vars
<1>1. CASE WriteOpen
  <2>1. arg \in Images /\ arg \notin disk /\ arg \in marker /\ whole \subseteq disk
    BY <1>1 DEF WriteOpen, IInv, Call, Marks, Outside, Uploading
  <2>2. disk' = disk \cup {arg} /\ whole' = whole /\ UNCHANGED <<marker, kfile, ext>>
    BY <1>1, <2>1 DEF WriteOpen, kernel, env
  <2>3. Drive!Create(arg)
    BY <2>1, <2>2 DEF Drive!Create, Drive!Stored
  <2> QED
    BY <2>1, <2>3 DEF Drive!Next
<1>2. CASE WriteAll
  <2>1. arg \in Images /\ arg \notin disk \ marker
    BY <1>2 DEF WriteAll, IInv, Call, Uploading
  <2>2. UNCHANGED <<disk, marker, kfile, ext>>
    BY <1>2 DEF WriteAll, kernel, env
  <2>3. CASE arg \in disk
    <3>1. Drive!Fill(arg)
      BY <1>2, <2>1, <2>2, <2>3 DEF WriteAll, Drive!Fill
    <3> QED
      BY <2>1, <3>1 DEF Drive!Next
  <2>4. CASE arg \notin disk
    BY <1>2, <2>2, <2>4, <1>0 DEF WriteAll
  <2> QED
    BY <2>3, <2>4
<1>3. CASE FinishMark
  <2>1. /\ arg \in Images /\ arg \notin disk \ marker
        /\ complete => arg \notin disk \ whole
    BY <1>3 DEF FinishMark, IInv, Call, Marks, Uploading
  <2>2. UNCHANGED <<disk, whole, kfile, ext>>
    BY <1>3 DEF FinishMark, kernel, env
  <2>3. CASE marker' = marker
    BY <2>2, <2>3, <1>0
  <2>4. CASE marker' = marker \cup {arg}
    BY <2>1, <2>2, <2>4 DEF Drive!vars
  <2>5. CASE complete /\ marker' = marker \ {arg} /\ arg \in disk
    <3>1. Drive!Publish(arg)
      BY <2>1, <2>2, <2>5 DEF Drive!Publish
    <3> QED
      BY <2>1, <3>1 DEF Drive!Next
  <2>6. CASE marker' = marker \ {arg} /\ arg \notin disk
    BY <2>2, <2>6 DEF Drive!vars
  <2> QED
    BY <1>3, <2>3, <2>4, <2>5, <2>6 DEF FinishMark
<1>4. CASE RemoveFile
  <2>1. arg \in Images /\ UNCHANGED <<marker, kfile, ext>>
    BY <1>4 DEF RemoveFile, IInv, Call, kernel, env
  <2>2. CASE arg \in disk /\ disk' = disk \ {arg} /\ whole' = whole \ {arg}
    <3>1. Drive!Remove(arg)
      BY <2>1, <2>2 DEF Drive!Remove, Drive!Discard, Drive!Stored
    <3> QED
      BY <2>1, <3>1 DEF Drive!Next
  <2>3. CASE UNCHANGED <<disk, whole>>
    BY <2>1, <2>3, <1>0
  <2> QED
    BY <1>4, <2>2, <2>3 DEF RemoveFile
<1>5. CASE RemoveMarker
  <2>1. arg \notin disk /\ UNCHANGED <<disk, whole, kfile, ext>> /\ marker' \in {marker, marker \ {arg}}
    BY <1>5 DEF RemoveMarker, IInv, Marks, kernel, env
  <2> QED
    BY <2>1 DEF Drive!vars
<1>6. CASE WriteMark
  <2>1. arg \notin disk /\ UNCHANGED <<disk, whole, kfile, ext>> /\ marker' = marker \cup {arg}
    BY <1>6 DEF WriteMark, Uploading, kernel, env
  <2> QED
    BY <2>1 DEF Drive!vars
<1>7. CASE ConnectSet
  <2>1. UNCHANGED <<disk, marker, whole, ext>> /\ arg \in Images
    BY <1>7 DEF ConnectSet, fs, env, IInv, Listing
  <2>2. CASE kfile = NoImage /\ kfile' = arg /\ arg \in disk
    <3>1. Drive!Insert(arg)
      BY <2>1, <2>2 DEF Drive!Insert, Drive!Stored
    <3> QED
      BY <2>1, <3>1 DEF Drive!Next
  <2>3. CASE kfile' = kfile
    BY <2>1, <2>3, <1>0
  <2>4. arg # Foreign
    BY <2>1, MsdAssumption
  <2> QED
    BY <1>7, <2>2, <2>3, <2>4 DEF ConnectSet, kernel
<1>8. CASE Reset \/ Disconnect
  <2>1. UNCHANGED <<disk, marker, whole, ext>> /\ kfile' = NoImage
    BY <1>8 DEF Reset, Disconnect, fs, env
  <2>2. CASE kfile = NoImage
    BY <2>1, <2>2, <1>0
  <2>3. CASE kfile # NoImage
    BY <2>1, <2>3 DEF Drive!Eject, Drive!Next
  <2> QED
    BY <2>2, <2>3
<1>9. ASSUME NEW i \in Images, ExternalRemove(i) PROVE Drive!Next
  <2>1. Drive!Discard(i) /\ ext' = ext + 1
    BY <1>9 DEF ExternalRemove, External, Drive!Discard, Drive!Stored, kernel
  <2> QED
    BY <2>1 DEF Drive!Other, Drive!Next
<1>10. CASE (\E f \in Images \cup {Foreign} : ExternalAttach(f)) \/ ExternalEject \/ ExternalToggle
  <2>1. UNCHANGED <<disk, marker, whole>> /\ ext' = ext + 1
    BY <1>10 DEF ExternalAttach, ExternalEject, ExternalToggle, External, fs
  <2>2. kfile' \in Images \cup {Foreign, NoImage}
    BY OutsideKept DEF Outside
  <2> QED
    BY <2>1, <2>2 DEF Drive!Other, Drive!Next
<1>11. CASE (\E call \in Calls : Enter(call)) \/ Refuse \/ SetParams
          \/ (\E i \in Images : ReadOpen(i)) \/ ReadClose \/ FinishRo
          \/ ConnectCheck \/ ConnectRw
  <2>1. UNCHANGED Visible
    BY <1>11 DEF Enter, Refuse, SetParams, ReadOpen, ReadClose, FinishRo, ConnectCheck,
            ConnectRw, fs, kernel, env
  <2> QED
    BY <2>1, <1>0
<1>12. CASE (\E i \in Images : WriteBegin(i)) \/ WriteFails \/ WriteRemount \/ WriteAborted
          \/ WriteFinish \/ (\E i \in Images : RemoveBegin(i))
  <2>1. UNCHANGED Visible
    BY <1>12 DEF WriteBegin, WriteFails, WriteRemount, WriteAborted, WriteFinish, RemoveBegin,
            fs, kernel, env
  <2> QED
    BY <2>1, <1>0
<1>13. CASE WatchStart \/ WatchStop \/ WatchEvents \/ ReloadLock \/ ReloadScan \/ ReloadRead
          \/ ReloadProbe \/ ReloadSet \/ ReloadFails \/ Restart \/ UNCHANGED vars
  <2>1. UNCHANGED Visible
    BY <1>13 DEF WatchStart, WatchStop, WatchEvents, ReloadLock, ReloadScan, ReloadRead,
            ReloadProbe, ReloadSet, ReloadFails, Restart, vars, fs, kernel, env
  <2> QED
    BY <2>1, <1>0
<1> QED
  BY <1>1, <1>2, <1>3, <1>4, <1>5, <1>6, <1>7, <1>8, <1>9, <1>10, <1>11, <1>12, <1>13
    DEF Next, Work, CallStep, Upload, WatchStep, Others

\* The code implements the abstract drive: whatever calls fail, events come late
\* and restarts happen, files and medium change only as MsdDrive allows.
THEOREM Implements == Spec => ImplementsDrive
<1>1. Init => Drive!Init /\ Uploading
  BY DEF Init, Drive!Init, Uploading
<1>2. IInv /\ Uploading /\ [Next]_vars => Uploading' /\ [Drive!Next]_(Drive!vars)
  BY UploadingKept, StepRefines
<1> QED
  BY <1>1, <1>2, Inductive, PTL DEF Spec, ImplementsDrive, Drive!Spec

-----------------------------------------------------------------------------
(* The poller.  Its steps leave the drive alone, so what is proved of Spec  *)
(* holds next to it; and a step of the drive that goes on without queueing  *)
(* a notification changes nothing that the clients are told.                *)

\* The drive next to its poller is the drive.
THEOREM PollerIsPassive == PollSpec => Spec
<1>1. PollInit => Init
  BY DEF PollInit
<1>2. [PollNext]_allVars => [Next]_vars
  BY DEF PollNext, DriveStep, NewGenerator, Trigger, Poll, allVars, Next
<1> QED
  BY <1>1, <1>2, PTL DEF PollSpec, Spec

\* Without a notification, and with no event left to be read, nothing a client
\* is told has changed, and the watcher was idle before.
LEMMA SilentStep ==
  ASSUME IInv, Work, ~Notifies, task' = "watch", events' = {}
  PROVE  /\ task = "watch" /\ events = {}
         /\ (vd' = NoVd) = (vd = NoVd) /\ UNCHANGED <<busy, enabled>>
<1> USE DEF Notifies, fs, kernel, env, state, op, watch, Leave, Goto, GotoWith, Event
<1>1. busy' = busy /\ busy = (pc # "idle")
  BY DEF IInv, Call
<1>2. ~(\E call \in Calls : Enter(call))
  BY <1>1 DEF Enter
<1>3. ~(Refuse \/ SetParams \/ ReadClose \/ FinishRo \/ ConnectSet)
  BY <1>1 DEF Refuse, SetParams, ReadClose, FinishRo, ConnectSet
<1>4. CASE (\E i \in Images : ReadOpen(i)) \/ ConnectCheck \/ ConnectRw
  BY <1>1, <1>4 DEF ReadOpen, ConnectCheck, ConnectRw
<1>5. ~(Reset \/ Disconnect)
  BY DEF Reset, Disconnect
<1>6. CASE Upload
  BY <1>6 DEF Upload, WriteBegin, WriteFails, WriteRemount, WriteMark, WriteOpen, WriteAll,
       WriteAborted, WriteFinish, FinishMark
<1>7. CASE RemoveFile \/ RemoveMarker
  BY <1>7 DEF RemoveFile, RemoveMarker
<1>8. ASSUME NEW i \in Images, RemoveBegin(i)
      PROVE  /\ task = "watch" /\ events = {}
             /\ (vd' = NoVd) = (vd = NoVd) /\ UNCHANGED <<busy, enabled>>
  <2>1. vd \in Drives
    BY <1>8 DEF RemoveBegin, CheckDisconnected, IInv, Inside
  <2>2. vd' \in Drives
    BY <1>8, <2>1, DriveUpdated DEF RemoveBegin
  <2> QED
    BY <1>8, <2>1, <2>2, NoneAssumption DEF RemoveBegin
<1>9. ~(WatchStep \/ WatchStop)
  BY DEF WatchStep, WatchStop, WatchStart, WatchEvents, ReloadLock, ReloadScan, ReloadRead,
         ReloadProbe, ReloadSet, ReloadFails
<1>10. ~Others
  BY DEF Others, ExternalAttach, ExternalEject, ExternalRemove, ExternalToggle, External
<1> QED
  BY <1>2, <1>3, <1>4, <1>5, <1>6, <1>7, <1>8, <1>9, <1>10 DEF Work, CallStep

\* With nothing queued and the watcher idle, the clients know the state: no call,
\* failure, reload or restart changes `online`, `busy` or the storage untold.
THEOREM ClientsAlwaysKnow == PollSpec => []ClientsKnow
<1>1. PollInit => ClientsKnow
  BY DEF PollInit, Init, ClientsKnow
<1>2. IInv /\ ClientsKnow /\ [PollNext]_allVars => ClientsKnow'
  <2> SUFFICES ASSUME IInv, ClientsKnow, [PollNext]_allVars,
                      alive', nr' = "none", task' = "watch", events' = {}
               PROVE  prev' = Current'
    BY DEF ClientsKnow
  <2>1. CASE DriveStep
    <3>1. ~Notifies /\ nr = "none" /\ alive /\ prev' = prev /\ Work
      BY <2>1 DEF DriveStep
    <3>2. /\ task = "watch" /\ events = {}
          /\ (vd' = NoVd) = (vd = NoVd) /\ UNCHANGED <<busy, enabled>>
      BY <3>1, SilentStep
    <3>3. prev = Current
      BY <3>1, <3>2 DEF ClientsKnow
    <3>4. Current' = Current
      <4>1. CASE vd = NoVd
        BY <3>2, <4>1, Zenon DEF Current
      <4>2. CASE vd # NoVd
        BY <3>2, <4>2, Zenon DEF Current
      <4> QED
        BY <4>1, <4>2
    <3> QED
      BY <3>1, <3>3, <3>4
  <2>2. CASE NewGenerator
    BY <2>2 DEF NewGenerator, Restart
  <2>3. CASE Trigger
    BY <2>3 DEF Trigger
  <2>4. CASE Poll
    <3>1. prev' = Current /\ UNCHANGED vars
      BY <2>4 DEF Poll
    <3> QED
      BY <3>1, Zenon DEF Current, vars, state, env, op
  <2>5. CASE UNCHANGED allVars
    <3>1. prev = Current /\ UNCHANGED prev
      BY <2>5 DEF ClientsKnow, allVars, vars, poller, watch
    <3> QED
      BY <2>5, <3>1, Zenon DEF allVars, Current, vars, state, env, op
  <2> QED
    BY <2>1, <2>2, <2>3, <2>4, <2>5 DEF PollNext
<1> QED
  BY <1>1, <1>2, Inductive, PollerIsPassive, PTL DEF PollSpec

=============================================================================
