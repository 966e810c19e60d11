------------------------------- MODULE MsdOtg -------------------------------
(***************************************************************************)
(* The OTG mass-storage drive of kvmd (kvmd/plugins/msd/otg): the image    *)
(* storage, the drive the kernel shows to the controlled host, and the     *)
(* state kvmd keeps about both.                                            *)
(*                                                                         *)
(* Three parties move.  An API call enters the exclusive region `busy` and *)
(* takes the lock for its critical parts; an upload or a download leaves   *)
(* the lock while data flows.  The watcher task reloads the state under    *)
(* the lock after an inotify event.  Somebody else (kvmd-otgmsd, a shell)  *)
(* attaches and ejects images behind kvmd's back.  kvmd may be killed and  *)
(* restarted at any moment; the disk, the mount and the kernel survive.    *)
(*                                                                         *)
(* A file is abstracted to "wholly written or not", a path to the image's  *)
(* name.  A call that finds the region busy fails at once and changes      *)
(* nothing, so it has no action.                                           *)
(***************************************************************************)
EXTENDS Naturals

CONSTANTS
  Images,    \* names of images that may be in the storage
  Adopted,   \* those on a nested partition, mounted read-only
  Iso,       \* those called *.iso
  Foreign,   \* an image file outside the storage
  NoImage, NoVd, NoSet,  \* None, for an image, a drive and an image list
  MaxExt     \* bound on attachments and ejections by somebody else

ASSUME MsdAssumption ==
  /\ Adopted \subseteq Images /\ Iso \subseteq Images
  /\ Foreign \notin Images /\ NoImage \notin Images /\ NoImage # Foreign
  /\ \A S \in SUBSET Images : S # NoSet
  /\ MaxExt \in Nat

VARIABLES
  disk,      \* images whose file exists
  marker,    \* images whose .incomplete file exists
  whole,     \* images whose file has all its data
  mount,     \* the storage partition is mounted "ro" or "rw"
  kfile,     \* the kernel's lun parameters: file,
  krw,       \*   not ro,
  enabled,   \* the function is linked into the gadget profile
  images,    \* Storage.__images, NoSet for None
  vd,        \* _State.__vd, NoVd for None; _State.__storage is None with it
  busy,      \* _State.__region
  lock,      \* holder of _State.__lock: "free", "op" or "task"
  pc,        \* the API call inside the region
  arg,       \* the image it works on, NoImage for none
  complete,  \* `complete` of write_image()
  task,      \* the watcher task
  full,      \* its reload_storage flag
  real,      \* real_vd of the reload in progress
  events,    \* inotify events not read yet: "drive", "storage"
  ext        \* actions of somebody else so far

fs == <<disk, marker, whole>>
kernel == <<kfile, krw>>
state == <<images, vd>>
op == <<busy, pc, arg, complete>>
watch == <<task, full, real>>
env == <<enabled, ext>>
vars == <<fs, mount, kernel, env, state, op, lock, watch, events>>

OnRoot(i) == i \in Images \ Adopted
Writable(i) == i \notin Adopted \cup Iso

\* A file as kvmd knows it: stored means it was found in the storage.
Known == [name: Images \cup {Foreign}, stored: BOOLEAN]
Drives == [image: Known \cup {NoImage}, connected: BOOLEAN, rw: BOOLEAN]

ASSUME NoneAssumption == NoVd \notin Drives

\* An inotify event, if the watcher has its watches installed.
Event(e) == events' = IF task = "starting" THEN events ELSE events \cup {e}

-----------------------------------------------------------------------------
(* The storage mount.  The remount helper may always fail; a read-only      *)
(* remount fails while a file of the partition is open for writing.         *)

InUse == (krw /\ OnRoot(kfile)) \/ pc = "w_data"

RemountRw(i) == mount' = IF OnRoot(i) THEN "rw" ELSE mount
RemountRo == mount' \in IF InUse THEN {mount} ELSE {mount, "ro"}

-----------------------------------------------------------------------------
(* The exclusive region *)

Calls == {"params", "connect", "disconnect", "read", "write", "remove", "reset"}

\* A call enters the region and waits for the lock.
Enter(call) ==
  /\ ~busy
  /\ busy' = TRUE
  /\ pc' = call
  /\ arg' = NoImage /\ complete' = FALSE
  /\ UNCHANGED <<fs, mount, kernel, env, state, lock, watch, events>>

\* The call is over, with or without an error: the region is left.
Leave ==
  /\ busy' = FALSE /\ pc' = "idle" /\ arg' = NoImage
  /\ complete' = FALSE

\* The call goes on at the next step.
Goto(next) == pc' = next /\ UNCHANGED <<busy, arg, complete>>
GotoWith(next, i) == pc' = next /\ arg' = i /\ UNCHANGED <<busy, complete>>

CheckDisconnected == vd # NoVd /\ ~vd.connected /\ kfile = NoImage
CheckConnected == vd # NoVd /\ (vd.connected \/ kfile # NoImage)

\* Storage.get_image_by_name() returns the image.
Found(i) == i \in images /\ i \in disk

Connectable_Anywhere == vd.image # NoImage /\ vd.image.name \in disk \cup {Foreign}

\* The selected image exists and is in the storage.
Connectable == vd.image # NoImage /\ vd.image.name \in disk /\ vd.image.stored

\* A precondition fails, the name is unknown, static or taken, or the kernel refuses
\* to eject: an error for the client, or in the log, and nothing has changed.
Refuse ==
  /\ lock = "free"
  /\ \/ pc \in {"params", "read", "remove", "write", "disconnect", "reset"}
     \/ pc = "connect" /\ ~(CheckDisconnected /\ Connectable)
  /\ Leave
  /\ UNCHANGED <<fs, mount, kernel, env, state, lock, watch, events>>

-----------------------------------------------------------------------------
(* set_params(), reset() and read_image() *)

\* set_params(): choose an image (or none) and the rw flag; then the normalisation
\* of rw.  A CD-ROM is here only one more reason for rw to be off.
SetParams ==
  /\ pc = "params" /\ lock = "free"
  /\ CheckDisconnected
  /\ \E w \in BOOLEAN :
     \E img \in {vd.image, NoImage} \cup {[name |-> i, stored |-> TRUE] : i \in {x \in images : Found(x)}} :
       vd' = [image |-> img, connected |-> vd.connected,
              rw |-> w /\ (img = NoImage \/ Writable(img.name))]
  /\ Leave
  /\ UNCHANGED <<fs, mount, kernel, env, images, lock, watch, events>>

\* reset(): eject, clear the flags, make the storage read-only.  A flag that is
\* refused ends it too.
Reset ==
  /\ pc = "reset" /\ lock = "free"
  /\ kfile' = NoImage
  /\ Event("drive")
  /\ \/ krw' = FALSE /\ lock' = "op" /\ Goto("ro")
     \/ UNCHANGED <<krw, lock>> /\ Leave
  /\ UNCHANGED <<fs, mount, env, state, watch>>

\* read_image() opens the file, and leaves the lock while it is read.
ReadOpen(i) ==
  /\ pc = "read" /\ lock = "free"
  /\ CheckDisconnected /\ Found(i)
  /\ GotoWith("r_data", i)
  /\ UNCHANGED <<fs, mount, kernel, env, state, lock, watch, events>>

ReadClose ==
  /\ pc = "r_data"
  /\ Leave
  /\ UNCHANGED <<fs, mount, kernel, env, state, lock, watch, events>>

\* The last step of several calls: `await storage.remount_ro()`, never fatal.
FinishRo ==
  /\ pc = "ro" /\ lock = "op"
  /\ RemountRo
  /\ lock' = "free"
  /\ Leave
  /\ UNCHANGED <<fs, kernel, env, state, watch, events>>

-----------------------------------------------------------------------------
(* set_connected() *)

ConnectCheck ==
  /\ pc = "connect" /\ lock = "free"
  /\ CheckDisconnected /\ Connectable
  /\ lock' = "op"
  /\ GotoWith(IF vd.rw THEN "c_rw" ELSE "c_set", vd.image.name)
  /\ UNCHANGED <<fs, mount, kernel, env, state, watch, events>>

ConnectRw ==
  /\ pc = "c_rw" /\ lock = "op"
  /\ \/ RemountRw(arg) /\ Goto("c_set") /\ UNCHANGED lock
     \/ UNCHANGED mount /\ Leave /\ lock' = "free"
  /\ UNCHANGED <<fs, kernel, env, state, watch, events>>

\* The three writes to the kernel.  The flags are refused while a file is open
\* (somebody else attached one meanwhile); the file may be refused for its
\* permissions or size.  On a read-only mount the kernel opens it read-only.
ConnectSet ==
  /\ pc = "c_set" /\ lock = "op"
  /\ \/ /\ kfile # NoImage
        /\ UNCHANGED <<kernel, vd, events>>
     \/ /\ kfile = NoImage
        /\ Event("drive")
        /\ \/ kfile' = NoImage /\ krw' = vd.rw /\ vd' = vd
           \/ /\ arg \in disk \cup {Foreign}
              /\ kfile' = arg
              /\ krw' = (vd.rw /\ (OnRoot(arg) => mount = "rw"))
              /\ vd' = [vd EXCEPT !.connected = TRUE]
  /\ lock' = "free"
  /\ Leave
  /\ UNCHANGED <<fs, mount, env, images, watch>>

Disconnect ==
  /\ pc = "disconnect" /\ lock = "free"
  /\ CheckConnected
  /\ kfile' = NoImage
  /\ vd' = [vd EXCEPT !.connected = FALSE]
  /\ Event("drive")
  /\ lock' = "op"
  /\ Goto("ro")
  /\ UNCHANGED <<fs, mount, krw, env, images, watch>>

-----------------------------------------------------------------------------
(* write_image() *)

\* make_image(): a new name in the root partition; from here on `image` is set,
\* so an error leads to finish_writing() with it.
WriteBegin(i) ==
  /\ pc = "write" /\ lock = "free"
  /\ CheckDisconnected
  /\ OnRoot(i) /\ i \notin images /\ i \notin disk
  /\ lock' = "op"
  /\ GotoWith("w_rw", i)
  /\ UNCHANGED <<fs, mount, kernel, env, state, watch, events>>

\* Any of the three steps of the preparation raises: finish_writing() follows.
WriteFails ==
  /\ pc \in {"w_rw", "w_mark", "w_open"} /\ lock = "op"
  /\ lock' = "free"
  /\ Goto("w_fin")
  /\ UNCHANGED <<fs, mount, kernel, env, state, watch, events>>

WriteRemount ==
  /\ pc = "w_rw" /\ lock = "op"
  /\ RemountRw(arg)
  /\ Goto("w_mark")
  /\ UNCHANGED <<fs, kernel, env, state, lock, watch, events>>

WriteMark_Skipped ==
  /\ pc = "w_mark" /\ lock = "op" /\ mount = "rw"
  /\ Goto("w_open")
  /\ UNCHANGED <<fs, mount, kernel, env, state, lock, watch, events>>

\* set_complete(False), before the file exists.
WriteMark ==
  /\ pc = "w_mark" /\ lock = "op" /\ mount = "rw"
  /\ marker' = marker \cup {arg}
  /\ Event("storage")
  /\ Goto("w_open")
  /\ UNCHANGED <<disk, whole, mount, kernel, env, state, lock, watch>>

\* MsdFileWriter.open(): the file is created, the lock is left.  If only the
\* truncation fails, the file stays.
WriteOpen ==
  /\ pc = "w_open" /\ lock = "op" /\ mount = "rw"
  /\ disk' = disk \cup {arg} /\ whole' = whole \ {arg}
  /\ Event("storage")
  /\ lock' = "free"
  /\ Goto("w_data") \/ Goto("w_fin")
  /\ UNCHANGED <<marker, mount, kernel, env, state, watch>>

\* The last chunk is written; finish() syncs the file, or raises.
WriteAll ==
  /\ pc = "w_data"
  /\ whole' = IF arg \in disk THEN whole \cup {arg} ELSE whole
  /\ complete' \in BOOLEAN /\ pc' = "w_fin"
  /\ UNCHANGED <<disk, marker, mount, kernel, env, state, busy, arg, lock, watch, events>>

\* The client goes away, or a write fails.
WriteAborted ==
  /\ pc = "w_data"
  /\ Goto("w_fin")
  /\ UNCHANGED <<fs, mount, kernel, env, state, lock, watch, events>>

WriteFinish_Stuck ==
  /\ pc = "w_fin" /\ lock = "free"
  /\ Event("storage")
  /\ IF CheckDisconnected
     THEN lock' = "op" /\ Goto("f_mark")
     ELSE lock' = "free" /\ Goto("idle")
  /\ UNCHANGED <<fs, mount, kernel, env, state, watch>>

\* finish_writing() closes the writer under the lock; if the drive went offline
\* or got an image meanwhile, everything else is skipped.
WriteFinish ==
  /\ pc = "w_fin" /\ lock = "free"
  /\ Event("storage")
  /\ IF CheckDisconnected
     THEN lock' = "op" /\ Goto("f_mark")
     ELSE lock' = "free" /\ Leave
  /\ UNCHANGED <<fs, mount, kernel, env, state, watch>>

\* set_complete(complete), which may fail; the rest is done in any case.
FinishMark ==
  /\ pc = "f_mark" /\ lock = "op"
  /\ \/ /\ mount = "rw"
        /\ marker' = IF complete THEN marker \ {arg} ELSE marker \cup {arg}
        /\ Event("storage")
     \/ UNCHANGED <<marker, events>>
  /\ \/ Goto("ro")
     \/ ~complete /\ arg \in images /\ Goto("remove_file")
  /\ UNCHANGED <<disk, whole, mount, kernel, env, state, lock, watch>>

-----------------------------------------------------------------------------
(* remove(), and Image._remove() which it shares with write_image() *)

\* The image is deselected, then the storage is made writable; if that fails
\* nothing is removed.
RemoveBegin(i) ==
  /\ pc = "remove" /\ lock = "free"
  /\ CheckDisconnected /\ Found(i) /\ OnRoot(i)
  /\ vd' = IF vd.image # NoImage /\ vd.image.name = i THEN [vd EXCEPT !.image = NoImage] ELSE vd
  /\ lock' = "op"
  /\ \/ RemountRw(i) /\ GotoWith("remove_file", i)
     \/ UNCHANGED mount /\ Goto("ro")
  /\ UNCHANGED <<fs, kernel, env, images, watch, events>>

\* The file first.  If it cannot be removed, the marker stays too.
RemoveFile ==
  /\ pc = "remove_file" /\ lock = "op"
  /\ \/ /\ mount = "rw" /\ arg \in disk
        /\ disk' = disk \ {arg} /\ whole' = whole \ {arg}
        /\ Event("storage")
        /\ Goto("remove_marker")
     \/ UNCHANGED <<disk, whole, events>> /\ Goto("ro")
  /\ UNCHANGED <<marker, mount, kernel, env, state, lock, watch>>

RemoveMarker ==
  /\ pc = "remove_marker" /\ lock = "op"
  /\ \/ mount = "rw" /\ marker' = marker \ {arg} /\ Event("storage")
     \/ UNCHANGED <<marker, events>>
  /\ Goto("ro")
  /\ UNCHANGED <<disk, whole, mount, kernel, env, state, lock, watch>>

-----------------------------------------------------------------------------
(* The watcher task *)

\* __systask_single() starts: the gadget function is enabled, new watches.
WatchStart ==
  /\ task = "starting" /\ enabled
  /\ task' = "relock" /\ full' = TRUE
  /\ events' = {}
  /\ UNCHANGED <<fs, mount, kernel, env, state, op, lock, real>>

\* It returns: the state is offline, or inotify asks for a restart.
WatchStop ==
  /\ task = "watch"
  /\ task' = "starting"
  /\ events' = {}
  /\ UNCHANGED <<fs, mount, kernel, env, state, op, lock, full, real>>

WatchEvents ==
  /\ task = "watch" /\ vd # NoVd /\ events # {}
  /\ task' = "relock" /\ full' = ("storage" \in events)
  /\ events' = {}
  /\ UNCHANGED <<fs, mount, kernel, env, state, op, lock, real>>

\* __reload() has the lock; a full reload forgets the images first.
ReloadLock ==
  /\ task = "relock" /\ lock = "free"
  /\ lock' = "task" /\ full' = FALSE
  /\ IF vd = NoVd \/ full
     THEN task' = "scan" /\ images' = NoSet
     ELSE task' = "read" /\ images' = images
  /\ UNCHANGED <<fs, mount, kernel, env, vd, op, real, events>>

ReloadScan ==
  /\ task = "scan"
  /\ images' = disk
  /\ task' = "read"
  /\ UNCHANGED <<fs, mount, kernel, env, vd, op, lock, full, real, events>>

\* __get_real_vd(): what the kernel shows now.
ReloadRead ==
  /\ task = "read"
  /\ real' = [image |-> IF kfile = NoImage THEN NoImage
                        ELSE [name |-> kfile, stored |-> kfile \in images],
              connected |-> kfile # NoImage, rw |-> krw]
  /\ task' = IF vd = NoVd /\ kfile = NoImage THEN "probe" ELSE "set"
  /\ UNCHANGED <<fs, mount, kernel, env, state, op, lock, full, events>>

\* remount_probe(): writable and back, both must succeed.
ReloadProbe ==
  /\ task = "probe" /\ ~InUse
  /\ mount' = "ro"
  /\ task' = "set"
  /\ UNCHANGED <<fs, kernel, env, state, op, lock, full, real, events>>

\* The state a successful reload leaves: the real drive when it has an image,
\* otherwise the settings the user made, without an image that is gone.
Online ==
  LET v == IF vd = NoVd THEN real ELSE vd
      gone == v.image # NoImage /\ (~v.image.stored \/ v.image.name \notin disk)
  IN  IF real.image # NoImage THEN real
      ELSE [image |-> IF gone THEN NoImage ELSE v.image, connected |-> FALSE, rw |-> v.rw]

ReloadSet_DropsEvents ==
  /\ task = "set"
  /\ vd' = Online
  /\ task' = "watch" /\ real' = NoVd
  /\ lock' = "free" /\ events' = {}
  /\ UNCHANGED <<fs, mount, kernel, env, images, op, full>>

\* set_online()
ReloadSet ==
  /\ task = "set"
  /\ vd' = Online
  /\ task' = "watch" /\ real' = NoVd
  /\ lock' = "free"
  /\ UNCHANGED <<fs, mount, kernel, env, images, op, full, events>>

ReloadFails_Ignored ==
  /\ task \in {"scan", "read", "probe"}
  /\ mount' = IF task = "probe" /\ mount = "ro" THEN "rw" ELSE mount
  /\ task' = "watch" /\ real' = NoVd
  /\ lock' = "free"
  /\ UNCHANGED <<fs, kernel, env, state, op, full, events>>

\* Any step of the reload raises: set_offline().  A failed probe may leave the
\* storage writable.
ReloadFails ==
  /\ task \in {"scan", "read", "probe"}
  /\ mount' \in IF task = "probe" THEN {mount, "rw"} ELSE {mount}
  /\ vd' = NoVd
  /\ task' = "watch" /\ real' = NoVd
  /\ lock' = "free"
  /\ UNCHANGED <<fs, kernel, env, images, op, full, events>>

-----------------------------------------------------------------------------
(* Everybody else *)

External(e) == ext < MaxExt /\ ext' = ext + 1 /\ Event(e)

ExternalAttach(f) ==
  /\ External("drive")
  /\ kfile = NoImage /\ f \in disk \cup {Foreign}
  /\ kfile' = f
  /\ krw' \in IF OnRoot(f) /\ mount = "ro" THEN {FALSE} ELSE BOOLEAN
  /\ UNCHANGED <<fs, mount, enabled, state, op, lock, watch>>

ExternalEject ==
  /\ External("drive")
  /\ kfile # NoImage
  /\ kfile' = NoImage
  /\ UNCHANGED <<fs, mount, krw, enabled, state, op, lock, watch>>

\* Somebody deletes an image in the storage.
ExternalRemove(i) ==
  /\ External("storage")
  /\ i \in disk
  /\ disk' = disk \ {i} /\ whole' = whole \ {i}
  /\ UNCHANGED <<marker, mount, kernel, enabled, state, op, lock, watch>>

\* kvmd-otgconf links or unlinks the function.
ExternalToggle ==
  /\ External("drive")
  /\ enabled' = ~enabled
  /\ UNCHANGED <<fs, mount, kernel, state, op, lock, watch>>

\* kvmd is killed, and started again.
Restart ==
  /\ images' = NoSet /\ vd' = NoVd
  /\ Leave
  /\ lock' = "free"
  /\ task' = "starting" /\ full' = FALSE /\ real' = NoVd
  /\ events' = {}
  /\ UNCHANGED <<fs, mount, kernel, env>>

-----------------------------------------------------------------------------

Init ==
  /\ disk \in SUBSET Images
  /\ marker = {} /\ whole = disk
  /\ mount = "ro"
  /\ kfile = NoImage /\ krw = FALSE
  /\ enabled = TRUE /\ ext = 0
  /\ images = NoSet /\ vd = NoVd
  /\ busy = FALSE /\ pc = "idle" /\ arg = NoImage
  /\ complete = FALSE
  /\ lock = "free"
  /\ task = "starting" /\ full = FALSE /\ real = NoVd
  /\ events = {}

Upload ==
  \/ \E i \in Images : WriteBegin(i)
  \/ WriteFails \/ WriteRemount \/ WriteMark \/ WriteOpen
  \/ WriteAll \/ WriteAborted \/ WriteFinish \/ FinishMark

\* One step of the call inside the region.
CallStep ==
  \/ Refuse
  \/ SetParams
  \/ Reset
  \/ (\E i \in Images : ReadOpen(i)) \/ ReadClose
  \/ ConnectCheck \/ ConnectRw \/ ConnectSet
  \/ Disconnect
  \/ Upload
  \/ (\E i \in Images : RemoveBegin(i)) \/ RemoveFile \/ RemoveMarker
  \/ FinishRo

WatchStep ==
  \/ WatchStart \/ WatchEvents
  \/ ReloadLock \/ ReloadScan \/ ReloadRead \/ ReloadProbe \/ ReloadSet \/ ReloadFails

Others ==
  \/ \E f \in Images \cup {Foreign} : ExternalAttach(f)
  \/ ExternalEject
  \/ \E i \in Images : ExternalRemove(i)
  \/ ExternalToggle

\* Everything but a restart of kvmd.
Work ==
  \/ \E call \in Calls : Enter(call)
  \/ CallStep
  \/ WatchStep
  \/ WatchStop
  \/ Others

Next == Work \/ Restart

Spec == Init /\ [][Next]_vars

\* The event loop runs every call and the watcher on; a transfer ends, because
\* its client sends, stops or disconnects.  Somebody else need not do anything.
\* asyncio.Lock serves its waiters in order, hence the strong fairness.
FairSpec == Spec /\ SF_vars(CallStep) /\ SF_vars(WatchStep \/ (vd = NoVd /\ WatchStop))

-----------------------------------------------------------------------------
(* Properties *)

\* The variables have their types, and whoever holds the lock is at a step that
\* does.
TypeOK ==
  /\ disk \subseteq Images /\ marker \subseteq Images /\ whole \subseteq disk
  /\ mount \in {"ro", "rw"}
  /\ kfile \in Images \cup {Foreign, NoImage} /\ krw \in BOOLEAN
  /\ enabled \in BOOLEAN /\ ext \in 0..MaxExt
  /\ images \in (SUBSET Images) \cup {NoSet}
  /\ vd \in Drives \cup {NoVd}
  /\ busy \in BOOLEAN /\ complete \in BOOLEAN
  /\ pc \in Calls \cup {"idle", "r_data", "ro", "c_rw", "c_set", "w_rw", "w_mark", "w_open",
                       "w_data", "w_fin", "f_mark", "remove_file", "remove_marker"}
  /\ arg \in Images \cup {Foreign, NoImage}
  /\ task \in {"starting", "watch", "relock", "scan", "read", "probe", "set"}
  /\ full \in BOOLEAN
  /\ real \in Drives \cup {NoVd}
  /\ events \subseteq {"drive", "storage"}
  /\ lock = IF task \in {"scan", "read", "probe", "set"} THEN "task"
             ELSE IF pc \in {"ro", "c_rw", "c_set", "w_rw", "w_mark", "w_open", "f_mark",
                             "remove_file", "remove_marker"} THEN "op" ELSE "free"

\* An image without the .incomplete mark has all its data: whatever step of an
\* upload or a removal fails, and wherever kvmd is killed and restarted, a
\* partial image is never taken for a complete one.
IncompleteIsMarked == disk \ marker \subseteq whole

\* When the lock is not held by a reload, an online drive comes with a loaded
\* image list: get_state(), which runs in a deadly task, cannot raise
\* MsdOfflineError, and an API call that passed its check finds the storage.
OnlineIsReadable == lock # "task" /\ vd # NoVd => images # NoSet

\* kvmd itself attaches nothing but an image that exists in the storage, even
\* when somebody else attached, ejected or deleted images around the call.
AttachesOnlyStored ==
  [][kfile' # kfile /\ kfile' # NoImage /\ ext' = ext => kfile' \in images /\ kfile' \in disk]_vars

\* The files with and without their mark, and the lun of the kernel, are the drive
\* that MsdDrive describes.
Drive == INSTANCE MsdDrive WITH
  partial <- disk \cap marker, complete <- disk \ marker, data <- whole,
  medium <- kfile, others <- ext

\* Calls, failures, reloads and restarts in any order do to files and medium only
\* what the abstract drive allows: in particular an image becomes complete once,
\* from partial and with all its data, and kvmd itself inserts only stored images
\* into an empty drive.
ImplementsDrive == Drive!Spec

\* The exclusive region is always left again, whatever raises: no call makes
\* all the later ones fail with MsdIsBusyError for good.
BusyIsReleased == busy ~> ~busy

InSync == vd = NoVd \/ vd.connected = (kfile # NoImage)

\* As long as the function is enabled, what kvmd thinks of the connection
\* catches up with the kernel: no event that comes during a reload is lost.
CatchesUp == (enabled /\ ~InSync) ~> (~enabled \/ InSync)

=============================================================================
