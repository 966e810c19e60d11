---------------------------- MODULE SwitchStorage ----------------------------
(***************************************************************************)
(* How the configuration of the switch is kept on the partition of         *)
(* kvmd-pst: the saver and the loads of Switch                             *)
(* (kvmd/apps/kvmd/switch/__init__.py), the files (storage.py), and the    *)
(* client that asks for write access (kvmd/clients/pst.py), next to        *)
(* another client of kvmd-pst.                                             *)
(*                                                                         *)
(* The configuration here is one EDID besides the default, the EDID of one *)
(* port, which are two files, and a name, which stands for the keys that   *)
(* are written to a file of their own.                                     *)
(***************************************************************************)
EXTENDS PstRun

CONSTANTS
  Saver,      \* the client that is KVMD
  Ids,        \* EDIDs that may be created
  Default,    \* the EDID that always exists
  Names,      \* names of a port
  Torn,       \* a file that was truncated and not written
  NoValue,    \* prevs before anything was written
  MaxEdits,   \* bound on edits
  MaxLoads,   \* bound on loads, each for a device that was found
  MaxCrashes  \* bound on restarts of KVMD and of kvmd-pst

ASSUME StorageAssumption ==
  /\ Saver \in Clients /\ Saver # Runner
  /\ Names # {} /\ NoValue \notin Names
  /\ NoValue \notin (SUBSET Ids) \X (Ids \cup {Default})

VARIABLES
  disk,     \* the files: edids_all, edids_port and port_names
  cache,    \* the configuration KVMD works with
  prevs,    \* what the saver wrote last
  spc,      \* of the saver: "wait", "debounce", "save", "asked", "write", "fill", "retry"
  todo,     \* files it is about to write, with their values
  save,     \* __save_notifier
  lock,     \* __lock: "free" or who holds it across an await
  loading,  \* a load waits for the lock or runs
  fresh,    \* nothing was loaded or edited since KVMD was started
  broken,   \* files that were touched by a save of their key that is not complete
  left      \* edits, loads and crashes that may still come

store == <<disk, cache, prevs>>
saver == <<spc, todo, save, lock, loading, fresh, broken>>
vars == <<pstVars, runVars, store, saver, left>>

Spend(what) == left[what] > 0 /\ left' = [left EXCEPT ![what] = @ - 1]

DefaultCache == [all |-> {}, port |-> Default, name |-> CHOOSE n \in Names : TRUE]
NothingWritten == [edids |-> NoValue, name |-> NoValue]

\* The keys of the configuration, as the saver compares them.
Keys == [edids |-> <<cache.all, cache.port>>, name |-> cache.name]

-----------------------------------------------------------------------------
(* Edits *)

Set(c) ==
  /\ Spend("edits") /\ lock = "free"
  /\ cache' = c
  /\ save' = TRUE /\ fresh' = FALSE
  /\ UNCHANGED <<pstVars, runVars, disk, prevs, spc, todo, lock, loading, broken>>

CreateEdid == \E id \in Ids \ cache.all : Set([cache EXCEPT !.all = @ \cup {id}])

\* The ports of the EDID go back to the default.
RemoveEdid ==
  \E id \in cache.all :
    Set([cache EXCEPT !.all = @ \ {id}, !.port = IF @ = id THEN Default ELSE @])

SetPortParams ==
  \/ \E id \in (cache.all \cup {Default}) \ {cache.port} : Set([cache EXCEPT !.port = id])
  \/ \E name \in Names \ {cache.name} : Set([cache EXCEPT !.name = name])

-----------------------------------------------------------------------------
(* __systask_storage() *)

SaverIs(next) == spc' = next

SaverNotified ==
  /\ spc = "wait" /\ save
  /\ save' = FALSE /\ SaverIs("debounce")
  /\ UNCHANGED <<pstVars, runVars, store, todo, lock, loading, fresh, broken, left>>

\* A notification within five seconds puts the save off.
Debounced ==
  /\ spc = "debounce"
  /\ save' = FALSE
  /\ SaverIs(IF save THEN "debounce" ELSE "save")
  /\ UNCHANGED <<pstVars, runVars, store, todo, lock, loading, fresh, broken, left>>

Entry(key, file, value) == [key |-> key, file |-> file, value |-> value]

\* The files of the keys that differ from what was written last.
Unsaved ==
  (IF Keys.edids # prevs.edids
     THEN <<Entry("", "all", cache.all), Entry("edids", "port", cache.port)>> ELSE <<>>)
  \o (IF Keys.name # prevs.name THEN <<Entry("name", "name", cache.name)>> ELSE <<>>)

SaveNothing ==
  /\ spc = "save" /\ lock = "free" /\ Unsaved = <<>>
  /\ SaverIs("wait")
  /\ UNCHANGED <<pstVars, runVars, store, todo, save, lock, loading, fresh, broken, left>>

\* Storage.writable(): PstClient connects.  When nobody is there, it tries
\* again, which is no step here.
SaveConnects ==
  /\ spc = "save" /\ lock = "free" /\ Unsaved # <<>>
  /\ Connect(Saver)
  /\ todo' = Unsaved
  /\ lock' = "saver"
  /\ SaverIs("asked")
  /\ UNCHANGED <<mount, failures, runVars, store, save, loading, fresh, broken, left>>

\* An exception that leaves the lock taken.
StorageError_KeepsLock ==
  /\ SaverIs("retry")
  /\ todo' = <<>>
  /\ Leave(Saver)
  /\ UNCHANGED lock

\* An exception: the lock is released, and all is tried again ...
StorageError ==
  /\ SaverIs("retry")
  /\ lock' = "free"
  /\ todo' = <<>>
  /\ Leave(Saver)

\* ... in five seconds: by then kvmd-pst has dealt with the end of the connection.
Retries ==
  /\ spc = "retry"
  /\ Saver \notin wss /\ ((pc = "wait" /\ ~note) \/ down # "no")
  /\ SaverIs("save")
  /\ UNCHANGED <<pstVars, runVars, store, todo, save, lock, loading, fresh, broken, left>>

\* The first storage event decides; the following ones are not read.
SaveAnswered ==
  /\ spc = "asked"
  /\ \/ /\ inbox[Saver] # <<>> /\ Head(inbox[Saver])
        /\ SaverIs("write")
        /\ UNCHANGED <<clients, lock, todo>>
     \/ /\ inbox[Saver] # <<>> /\ ~Head(inbox[Saver])
        /\ StorageError
     \/ /\ inbox[Saver] = <<>> /\ link[Saver] = "closed"
        /\ StorageError
  /\ UNCHANGED <<mount, server, failures, runVars, store, save, loading, fresh, broken, left>>

\* The key is remembered with its first file.
Saved_Early(entry) ==
  /\ prevs' = IF entry.key = "name" THEN [prevs EXCEPT !.name = entry.value]
                                    ELSE [prevs EXCEPT !.edids = Keys.edids]
  /\ broken' = broken \ {entry.file}
  /\ todo' = Tail(todo)
  /\ IF Tail(todo) = <<>>
       THEN SaverIs("wait") /\ lock' = "free" /\ Leave(Saver)
       ELSE SaverIs("write") /\ UNCHANGED <<lock, clients>>

\* One file is done, and with it perhaps its key; after the last one the
\* connection is closed and the lock released.
Saved(entry) ==
  /\ prevs' = CASE entry.key = "" -> prevs
                [] entry.key = "name" -> [prevs EXCEPT !.name = entry.value]
                [] entry.key = "edids" -> [prevs EXCEPT !.edids = <<disk.all, entry.value>>]
  /\ broken' = CASE entry.key = "" -> broken
                 [] entry.key = "name" -> broken \ {"name"}
                 [] entry.key = "edids" -> broken \ {"all", "port"}
  /\ todo' = Tail(todo)
  /\ IF Tail(todo) = <<>>
       THEN SaverIs("wait") /\ lock' = "free" /\ Leave(Saver)
       ELSE SaverIs("write") /\ UNCHANGED <<lock, clients>>

\* __write_json_keyvals() of a file that is equal already.
SkipEqual ==
  /\ spc = "write" /\ disk[Head(todo).file] = Head(todo).value
  /\ Saved(Head(todo))
  /\ UNCHANGED <<mount, server, failures, runVars, disk, cache, save, loading, fresh, left>>

\* It is truncated ...
Truncate ==
  /\ spc = "write" /\ disk[Head(todo).file] \notin {Head(todo).value, Torn} /\ rw
  /\ disk' = [disk EXCEPT ![Head(todo).file] = Torn]
  /\ files' = files \cup {Saver}
  /\ broken' = broken \cup {Head(todo).file}
  /\ SaverIs("fill")
  /\ UNCHANGED <<rw, server, clients, failures, runVars, cache, prevs, todo, save, lock,
                 loading, fresh, left>>

\* ... and written.
Fill ==
  /\ spc = "fill"
  /\ disk' = [disk EXCEPT ![Head(todo).file] = Head(todo).value]
  /\ files' = files \ {Saver}
  /\ Saved(Head(todo))
  /\ UNCHANGED <<rw, server, failures, runVars, cache, save, loading, fresh, left>>

FillFails ==
  /\ spc = "fill" /\ Fails
  /\ files' = files \ {Saver}
  /\ StorageError
  /\ UNCHANGED <<rw, server, runVars, store, save, loading, fresh, broken, left>>

\* The file cannot be opened, or what is in it cannot be parsed.
WriteFails ==
  /\ spc = "write" /\ disk[Head(todo).file] # Head(todo).value
  /\ ~rw \/ disk[Head(todo).file] = Torn
  /\ StorageError
  /\ UNCHANGED <<mount, server, failures, runVars, store, save, loading, fresh, broken, left>>

-----------------------------------------------------------------------------
(* __load_configs() *)

\* DeviceFound: the load waits for the lock, and takes it across its reads.
DeviceFound ==
  /\ ~loading /\ Spend("loads")
  /\ loading' = TRUE
  /\ UNCHANGED <<pstVars, runVars, store, spc, todo, save, lock, fresh, broken>>

LoadSucceeds ==
  /\ loading /\ lock = "free" /\ down = "no"
  /\ \A file \in DOMAIN disk : disk[file] # Torn
  /\ cache' = disk
  /\ loading' = FALSE /\ fresh' = FALSE
  /\ UNCHANGED <<pstVars, runVars, disk, prevs, spc, todo, save, lock, broken, left>>

\* "Can't load configs": kvmd-pst does not answer, or a file cannot be parsed.
LoadFails ==
  /\ loading /\ lock = "free"
  /\ down # "no" \/ \E file \in DOMAIN disk : disk[file] = Torn
  /\ loading' = FALSE
  /\ UNCHANGED <<pstVars, runVars, store, spc, todo, save, lock, fresh, broken, left>>

-----------------------------------------------------------------------------
(* Restarts *)

\* KVMD ends, cleanly or not: what was not written is lost.
Crash ==
  /\ Spend("crashes")
  /\ cache' = DefaultCache /\ prevs' = NothingWritten
  /\ spc' = "wait" /\ todo' = <<>> /\ save' = FALSE /\ lock' = "free"
  /\ loading' = FALSE /\ fresh' = TRUE /\ broken' = {}
  /\ files' = files \ {Saver}
  /\ Leave(Saver)
  /\ UNCHANGED <<rw, server, failures, runVars, disk>>

PstStops == Spend("crashes") /\ StopTasks /\ UNCHANGED <<runVars, store, saver>>

SaverSteps ==
  \/ SaverNotified \/ Debounced \/ SaveNothing \/ SaveConnects
  \/ SaveAnswered \/ Retries \/ SkipEqual \/ Truncate \/ Fill \/ FillFails \/ WriteFails

Init ==
  /\ PstInit /\ RunInit
  /\ disk = DefaultCache
  /\ cache = DefaultCache /\ prevs = NothingWritten
  /\ spc = "wait" /\ todo = <<>> /\ save = FALSE /\ lock = "free"
  /\ loading = FALSE /\ fresh = TRUE /\ broken = {}
  /\ left = [edits |-> MaxEdits, loads |-> MaxLoads, crashes |-> MaxCrashes]

Rest == <<runVars, store, saver, left>>

Next ==
  \/ CreateEdid \/ RemoveEdid \/ SetPortParams
  \/ SaverSteps \/ DeviceFound \/ LoadSucceeds \/ LoadFails \/ Crash \/ PstStops
  \/ (Controller \/ Shutdown \/ \E c \in Clients : RemoveWs(c)) /\ UNCHANGED Rest
  \/ PstRun /\ UNCHANGED <<store, saver, left>>

Spec == Init /\ [][Next]_vars

\* The tasks of the daemons go on; a shutdown ends and systemd starts
\* kvmd-pst again; kvmd-pstrun reads its messages and kills its process.  The
\* process itself may do nothing for ever.
FairSpec ==
  /\ Spec
  /\ WF_vars(Controller /\ UNCHANGED Rest) /\ WF_vars(Shutdown /\ UNCHANGED Rest)
  /\ \A c \in Clients : WF_vars(RemoveWs(c) /\ UNCHANGED Rest)
  /\ WF_vars(RunReceives /\ UNCHANGED <<store, saver, left>>)
  /\ WF_vars(run = "killing" /\ RunEnds /\ UNCHANGED <<store, saver, left>>)
  /\ WF_vars(SaverSteps) /\ WF_vars(LoadSucceeds \/ LoadFails)

-----------------------------------------------------------------------------

Configs == [all : SUBSET Ids, port : Ids \cup {Default}, name : Names]

TypeOK ==
  /\ PstType
  /\ run \in {"off", "listening", "running", "killing"}
  /\ \A file \in DOMAIN disk : disk[file] = Torn \/ \E c \in Configs : disk[file] = c[file]
  /\ cache \in Configs
  /\ spc \in {"wait", "debounce", "save", "asked", "write", "fill", "retry"}
  /\ spc \in {"asked", "write", "fill"} <=> lock = "saver"
  /\ todo # <<>> <=> lock = "saver"
  /\ save \in BOOLEAN /\ loading \in BOOLEAN /\ fresh \in BOOLEAN
  /\ broken \subseteq DOMAIN disk

\* When the saver has nothing to do, the files hold the configuration KVMD works
\* with, whatever was refused, retried, loaded or restarted, unless a write
\* stopped half-way: prevs is not what the files hold then, and an edit that is
\* undone before the retry is never taken out of the files.
SavedWhenIdle ==
  spc = "wait" /\ ~save /\ ~fresh /\ broken = {} => disk = cache

\* `assert edid_id in self.all`: a port is never assigned to an EDID that does
\* not exist.
PortsHaveEdids == cache.port \in cache.all \cup {Default}

\* What was edited is written in the end: the saver comes to rest unless a file
\* is torn, which it cannot read, or a process keeps the partition from it.
SaveEnds == spc # "wait" ~> (spc = "wait" \/ \E file \in DOMAIN disk : disk[file] = Torn)

=============================================================================
