# A TLA+ model of kvmd

kvmd is the daemon of PiKVM: one asyncio process that owns the keyboard and
mouse, the mass-storage drive, the power buttons, the video streamer and the
KVM switch of a controlled host, and serves them over HTTP and websockets.
Around it run smaller daemons (VNC, IPMI, kvmd-pst, kvmd-nbd, localhid, Janus,
media) and one-shot tools (kvmd-otg, kvmd-otgconf, kvmd-otgmsd ...).

The modules here are translated from the Python sources under `src/kvmd`.
`PROJECT.json` maps every definition to its lines, lists the runs, the mutants
(a plausible bug for every property that must break it), the hazards, the
findings and the theorems.

## Inventory

What each component keeps, what it does, what is hard about it and what makes it
correct. "M" marks what is modelled.

| Component | State and operations | Hard behaviour | Correct when |
|---|---|---|---|
| M sessions: `auth.py`, `api/auth.py` | tokens with user, limit, deadline and count of open websockets; login, logout, check, start/stop of a websocket session | the token is checked before the handshake and used after it; deadlines are lifted and set again | a session ends by logout or by its deadline and never returns; an extended session is not dropped while used |
| M websocket registry: `htserver.py` | list of open websockets; add, remove, broadcast, close all | a handler and the shutdown remove the same socket | every start of a session has one stop |
| M streamer: `server.py`, `streamer/`, `snapshoter.py` | demand, pending parameters, reset flag, Runner task, process and delayed stop | four tasks share fields without a lock; hooks and delays in between; cancellation | the process runs exactly when wanted with the parameters in force, and dies with the daemon |
| M mass storage: `plugins/msd/otg` | selected image and flags, image list, region `busy`, lock, reader and writer; params, connect, read, write, remove, reset, reload | every file operation may fail; other tools attach and eject; power cuts | no partial image looks complete; only stored images are attached; the state follows the kernel; no call blocks the rest |
| M state pollers (of the drive) | last state told; a queue of notifications | partial updates against None; a poller is a deadly task | clients know the state; the poller survives |
| M asyncio primitives: `aiotools.py`, `aiomulti.py` | notifier, stage, exclusive region, `shield_fg`, short and deadly tasks; queues, flags and notifiers between processes | a call outlives its cancelled caller | a region that is entered is left (inside the models that use them) |
| M switch chain: `switch/chain.py`, `device.py`, `proto.py` | units, active port, configuration to apply, rid and deadline per unit; commands, responses | a subprocess with a serial line; lost or late answers; units come and go | what is configured is applied; commands reach existing units |
| M switch cache: `switch/state.py`, `switch/__init__.py` | the state of units, queue of masks, `synced`; load on reconnection | events, commands and truncations in any order | KVMD and its clients know what the chain does |
| M switch storage: `switch/__init__.py`, `storage.py` | configuration, what was saved last, the files; debounced save, load | saves against loads; a partition that must be asked for; two files for one key | no edit is lost |
| M kvmd-pst: `apps/pst`, `apps/pstrun`, `clients/pst.py` | clients, mount of the partition; controller, remount, a child process | retries while clients come and go; the server goes away | writable while allowed, read-only afterwards |
| M HID, microcontroller: `plugins/hid/_mcu` | event queue over two processes, flags; requests, repeats, resets | cleared queue against its reader; repeated or lost requests | no key stays pressed; an event is executed once |
| M HID, OTG: `plugins/hid/otg` | modifiers and six slots, last report; events, retries | the host refuses reports or is unplugged | the host sees the keys that are pressed |
| HID, Bluetooth and CH9329 | like the above over other transports | reconnecting clients | the same |
| M ATX and user GPIO: `plugins/atx`, `ugpio.py` | regions, lines; click, pulse, switch | foreground and background actions, failures inside a pulse | a pressed line is released, the region left |
| M kvmd-nbd: `nbd/` | binding, worker process with three tasks, events; bind, unbind | unbind during the start; one failure ends all three tasks; lost workers | a stop stops; the state says what runs, and why it ended |
| M VNC server: `apps/vnc`, `keyboard/magic.py`, `keyboard/keysym.py`, `clients/` | four tasks per connection with three stages; queue of frames, key frames, updates; modifiers, shortcuts, buttons; the websocket | tasks that wait for each other and end together; frames that are dropped and merged while sizes, formats and encodings change; keys that depend on modifiers | what is sent can be shown; no key stays down; nobody waits for ever while the streamer goes on |
| localhid, Janus, media, IPMI daemons | connections, forwarded frames and events | reconnection | thin clients of the API |
| Gadget tools: `otg`, `otgconf`, `otgmsd`, `otgnet` | configfs | used behind kvmd's back (that much is in `MsdOtg`) | one-shot scripts |
| info, OCR, logs, Redfish, oled, watchdog, command line tools | pollers and formatters | little | little |
| configuration, validators, keyboard maps, EDID | pure functions | parsing | unit tests cover them |

Interactions: KvmdServer starts one deadly task per component (a deadly task
that raises ends the daemon) and forwards the state of every component to the
websockets (`__poll_state`). The websocket registry calls back into the session
store (start and stop of a session) and wakes the stream controller. The
Snapshoter wakes it too. The switch is a client of kvmd-pst, and loads its files
again when its subprocess finds the device. kvmd-vnc is a client of KVMD (HTTP, a
websocket for input and events) and of the streamer. Components with hardware use a
subprocess or a lock of their own and share nothing with each other except
through KvmdServer.

## Modules

| Module | Models | Extends |
|---|---|---|
| `Leases` | abstract specification of the sessions: leases of tokens, and who holds them | |
| `AuthSessions` | sessions, their websockets, the shutdown; implements `Leases` | (instance of `Leases`) |
| `Streamer` | stream controller, Runner, snapshots, shutdown | |
| `MsdDrive` | abstract specification of the drive: files that are partial or complete, and the medium | |
| `MsdOtg` | the drive, its storage, the watcher, other tools, restarts; implements `MsdDrive` | (instance of `MsdDrive`) |
| `MsdPoller` | the state poller of the drive | `MsdOtg` |
| `SwitchChain` | the subprocess of the switch, its serial line and the units | |
| `SwitchCache` | what KVMD knows of the switch, and when it tells its clients | `SwitchChain` |
| `Switch` | the Switch class: chain, cache, clients, loads | `SwitchCache` |
| `Pst` | kvmd-pst: the partition, its controller and its clients | |
| `PstRun` | kvmd-pstrun and its child, one of the clients | `Pst` |
| `SwitchStorage` | saver and loads of the switch, another of the clients | `PstRun` |
| `HidMcu` | keyboard and mouse behind a microcontroller | |
| `HidOtg` | keyboard and mice of the USB gadget | |
| `NbdWorker` | the process that serves a remote image | |
| `Nbd` | kvmd-nbd: bind, unbind, the poller, and the process | `NbdWorker` |
| `VncFrames` | kvmd-vnc: from the streamer over the queue to the client | |
| `VncInput` | kvmd-vnc: from the keys and buttons of the client to the websocket | |
| `Vnc` | one connection of kvmd-vnc: its tasks, stages and end | `VncFrames`, `VncInput` |
| `Gpio` | the lines of ATX and user GPIO, their regions, pulses, pollers, the shutdown | |
| `MC...` | instances for TLC | the above |
| `StreamerProofs`, `HidOtgProofs`, `NbdProofs` | theorems of the module of that name | that module, `TLAPS` |
| `ClientProofs` | theorems of the sessions and of kvmd-vnc | `AuthSessions`, `Vnc`, `TLAPS` |
| `HardwareProofs` | theorems of the microcontroller's HID and of Gpio | `HidMcu`, `Gpio`, `TLAPS` |
| `MsdOtgProofs` | theorems of the drive and of its poller | `MsdPoller`, `TLAPS` |
| `SwitchProofs` | theorems of the chain, the cache and the Switch class | `Switch`, `TLAPS` |
| `SwitchStorageProofs` | theorems of kvmd-pst and of the saver | `SwitchStorage`, `TLAPS` |

A handler runs on one asyncio loop, so what happens between two of its awaits is
one action. A handler whose awaits matter is a program counter with an action
per segment. An operator whose name holds an underscore (`CloseWs_Unguarded`)
is not part of the model: it is the mutated form of the definition that follows
it, for the mutants of `PROJECT.json`.

**AuthSessions.** `sessions` is `AuthManager.__sessions`, `wss` the list of
HttpServer, `phase` the position of each websocket handler: "preparing" between
the token check and `__add_ws()`, "open" until its `finally`. `stopped` says that
`_close_all_wss()` has run; the handlers of the sockets it closed are still to
run theirs. A login always succeeds: whether a password is right does not matter
to the properties. `secrets.token_hex(32)` never repeats, so a token is fresh
for ever. Time is whole seconds up to `MaxTime`.

**Leases** is what remains of it for the user: a token is granted once; its lease has a
limit and a set of holders, in place of the counter; its time begins anew when the last
holder leaves, and at no other time. `Lease` in AuthSessions is the refinement mapping: the
holders of a session are the registered websockets that were opened with its token, its limit the
shorter of the requested and the global one. A websocket that finishes its handshake or
closes after a logout is a stutter. Holders may join a lease that is past its deadline
as long as no request has found that out, as in the code.

**Streamer.** `pc` is the position of `__stream_controller()`, and, after its
cancellation, of `Streamer.cleanup()`; it also walks through `ensure_start()`,
`ensure_stop()` and `ensure_restart()` because their caller waits for them.
`caller` says where to return. `task` is `__proc_task` and the position of
`__process_task_loop()`; `stopper` is `__stopper_task` ("wip" with
`__stopper_wip`); `inner` is the position of the two `__inner_stop()` calls that
may run, the controller's and the delayed one. `asked` is a history variable: a
reset was requested for the process that is running. The client count is
bounded by `MaxClients`. Assumed: a process that gets SIGKILL dies within the
wait of `kill_process()`; a process whose creation is cancelled is reaped by
asyncio.

**MsdOtg.** `disk`, `marker`, `whole` are the files of the storage; `kfile`,
`krw` the parameters of the kernel's function (that the drive is a CD-ROM is one
more reason for it not to be writable); `mount` the partition; they survive a
`Restart`. `images` and `vd` are the state of kvmd, `busy` and `lock` the region
and the lock of `_State`, `pc` the call inside the region, `task` the watcher.
Every file operation and remount may fail, with the `finally` clauses of the
code. Whether an upload that failed is to be removed (`remove_incomplete`) is
chosen where it is looked at. `Others` are kvmd-otgmsd, kvmd-otgconf and a shell,
at most `MaxExt` times. An inotify event is one of "drive" and "storage", kept
until the watcher reads it. One call is inside the region at a time, since a
second one fails at once without any effect.

**MsdDrive** is what remains of it for the controlled host and the user: image
files that are partial or complete, those that have all their data, and the
medium. A file becomes complete only from partial and with all its data; kvmd
inserts a stored image into an empty drive, or ejects; somebody else may do
anything, but is counted. `Drive` in MsdOtg is the refinement mapping: partial is
`disk \cap marker`, complete `disk \ marker`. A removal does not ask whether the
image is in the drive: the code does, under its lock, but another tool may have
inserted it since.

**MsdPoller.** `nr` is the queue of AioNotifier or-ed together, `prev` what
`poll_state()` has yielded. Of a state it keeps `online`, `busy` and whether
there is a storage: the three parts whose combinations decide between a full and
a partial update. A restart is a step of the poller too (`NewGenerator`): the new
daemon has a new generator and an empty queue. Every other step is one of the drive
(`Work`), so `PollSpec` implements `Spec`.

**SwitchChain, SwitchCache, Switch.** The subprocess has `pc`: outside of
`with self.__device` ("closed"), in its loop, or in `__consume_commands()`;
`units` are its contexts, `cmds` and `events` the two queues. A message carries
`mine`, which says that its request id is the one the unit's context waits for;
it is lost when the context gives up after five seconds (`GiveUp`) or is
truncated (`Disowned`). The units (`hw`, `Serve`, `Settle`) do what the code
relies on: answer a request with their state or a NAK, be busy for a time, and
tell their new state. Units behind one that lost its downlink are gone
(`Shorten`). The line may be unplugged in the middle of a frame: the half frame
stays in the buffer of `Device`, which is kept over reconnections, and since
`read_all()` then never finds a frame again, the chain is deaf (`torn`,
`ReadTorn`); ConfigurationApplied leaves those behaviours out. SwitchCache keeps
the methods of StateCache that change the state, and instead of the queue of
masks it keeps what no mask told (`missed`). `set_edids()` does not recompute
`synced` (state.py:340), and neither does the model. The heartbeat never fires
(its counter is reset in every round), so there is none. Of the configuration of
ports only the EDIDs are modelled. `left` counts disturbances of every kind.

**Pst, PstRun, SwitchStorage.** `wss` is what the server has registered, `link`
what each client knows of its connection, `inbox` the events it has not read,
where equal events in a row are one. `pc` is the position of `__controller()`,
`down` that of the shutdown. As in the code, the loop that makes the partition
read-only goes on without a pause when a client has come meanwhile, and a
remount to read-write that failed is tried again only at the next notification.
`spc` is the position of the saver: it compares the keys (`Unsaved`), connects
as a client, and writes file after file, of which each may be left truncated
(`Torn`). `prevs` remembers what was written; a key of two files is remembered
with its second one. `broken` is a history variable: files of a key whose save
was interrupted. Assumed: the five seconds before a retry are enough for
kvmd-pst to deal with the end of the earlier connection (the guard of
`Retries`).

**HidMcu.** The process of KVMD queues events (`queue`; `put` is the event that
follows a clear, which is a step of its own since the other process takes from
the queue meanwhile), the subprocess has `pc`, and sends an event, or "repeat"
after a damaged answer, until its tries are used up. `fw`, `prev`, `held` are the
firmware of Pico HID over UART: whether it runs, the code it would repeat, and
the key on the host. The line damages requests and answers, loses them, or
delays an answer to after the time-out (`slow`); a delayed one arrives before
the next attempt, where `send()` throws it away. `runs` and `lost` are history
variables: how often the event was executed and how many answers to it did not
come in time. `dropped` remembers that `set_connected()`, which clears the queue
and puts nothing that releases keys in its place, dropped a release. Left out:
moves and the wheel, more than one key, legacy answers and the 0x45 answer,
calls after `cleanup()`.

**HidOtg.** One process per device, with `pressed` for the slots and modifiers
or the buttons, `pending` for the reports of the event it works on, `retries`
for the last report. The host takes a report only when the port is "ready";
"suspended" is a configured host that does not read, "unplugged" no host. `fresh`
are the devices whose host is a new one. After its retries a device stays
offline until the next event (device.py:111 asks only while there are
retries), so the properties speak of devices that are online. Left out: moves
and the wheel, LEDs, `usb_win98`, an exception inside a process.

**NbdWorker, Nbd.** `worker` is the life of the process, `device`, `remote` and
`checker` its three tasks, `link` whether the pair of sockets is connected and
`stopped` its flag, `eventsQ` and `ready` the two queues to the controller.
`poller` is the position of `__poll()` in `running()` and `poll()`, `bind` that
of `bind()`, `told` the state that clients get. `asked`, `cause` and `lost` are
history variables: whether the process has handled a SIGTERM, its first reason
to stop, and whether what it put may never have been read. A SIGTERM that comes
before the process has handlers is ignored (`Terminated`), so such an unbind is
lost; an event of the checker may overtake an offline event of the remote; and
when the start is not reported in time the events are never read and the reason
is "Unknown stop reason". Assumed: a process that gets SIGKILL dies. Bounded:
binds, unbinds, faults.

**VncFrames, VncInput, Vnc.** A connection has four tasks. The main task (`main`)
reads messages; the task of KVMD (`kvmd`) waits for stage one (authorized), for
stage two (encodings, five seconds), sets the mouse and opens the websocket, which is
stage three; then the reader (`source`) takes frames from a streamer into
`queue`, and the sender (`sender`) takes all of them when it is `notified`. The end of
one task ends the others (`Fail`, `Cleanup`), and the next client begins with the
`shared` size. A frame is its format, its size and whether it is a key;
`last.data` says whether the bytes that are to be sent begin with one. `decoder` and
`owed` are history variables about the client: whether its H264 decoder has been
given something it cannot use, and whether it may expect an update. The queue is
drained in one step, since its loop does not give way (an `asyncio.Queue.get()` of
a queue that is not empty does not). `QueueLimit` is ten in the code.
For the input, `held` is what KVMD has been told is down and `down` what the client
holds; `mods`, `buttons` and `magic` are the fields of the code, where a tap too many
and the time-out of two seconds (`Now`) make no difference to what is proxied.
`Symmap` is `build_symmap()`: keys of codes under sets of modifiers. At both
ends of a websocket KVMD clears the HID; `closing` is one end it has not
noticed. Left out: the handshake, names, LEDs, moves and the wheel, printing, the
rate of key frames, several clients at once.

**Gpio.** The buttons of ATX and the outputs of user GPIO work alike: `entered` are the
outputs whose AioExclusiveRegion is entered, `acts` the actions that run for
requests, each outside of its region, about to write, holding a button that it
is going to release, or in the delay after it. Every action is shielded, so a
request that is cancelled does not end it. A driver in `offline` raises, and all
do after `Cleanup`, the release of the lines. `initial` are the
buttons that the scheme lets begin pressed (`initial`, `inverted`), until something drives
them; the lines of ATX begin inactive. `notes` is the queue of the notifier,
`known` what the clients know. A busy output shows no level (ugpio.py:160), so a
level that moves inside of its region need not be told. Left out: the reader thread
of inputs before its debounced value, views. The module has no run; its
properties are proved.

## Runs

| Run | Instance | What it shows |
|---|---|---|
| `auth` | 2 tokens, 2 users, 3 websockets, 4 s, global limit 2 s, requests 0, 1, 3 s | counters, deadlines and removals are right; the sessions are the leases of `Leases` |
| `msd_otg` | 1 writable image, 1 on a read-only partition, 1 external action, fairness | marks and listing; the drive is that of `MsdDrive`; the region is released, the state catches up |
| `msd_poller` | 1 image, 2 external actions | the clients know the state |
| `msd_poller_dies` | the same, violation expected | the poller raises on a storage that is gone |
| `streamer` | 3 sets of parameters, 2 of them valid, 2 clients, fairness | assertions, no leftover, settled is right; started for clients, stopped when unused, shutdown ends |
| `switch` | 2 units of 1 port, 2 configurations, 1 disturbance, fairness | the cache follows the chain, the configuration arrives and is applied, clients are told |
| `switch_storage` | 2 clients of kvmd-pst, 1 EDID, 2 names, 2 edits, 1 load, 1 restart, 1 failure, fairness | nobody allowed writes to a read-only partition, it becomes read-only again, edits are saved, the child ends |
| `switch_dangling` | 3 edits, 1 restart, violation expected | a save stopped between its files leaves a port without its EDID |
| `hid_mcu` | 2 boards, 2 attempts, 3 calls, 2 faults, fairness | no stuck key, each event once, the flags settle, a stop ends |
| `hid_otg` | 1 slot, 2 keys and a modifier, 2 mice, 2 calls, 1 change of the port, fairness | the host follows, devices settle |
| `nbd` | 2 binds, 2 unbinds, 3 faults, fairness | the state told follows the process, the reason is the first one, binds and unbinds are answered |
| `vnc` | 2 sizes, a queue of 2; either 2 connections and 2 settings, or 1 connection, 1 setting, 4 inputs and a silent streamer; fairness | what is sent can be decoded and fits the screen, no key stays down, the server does not wait for ever, nor a client while the streamer goes on |

Bounds. `auth`: three websockets over two tokens are the fewest with two on one
token and a third on the other; a global limit between the two non-zero requests
makes both sides of the minimum happen, and four seconds let a session expire,
and another one be extended past its deadline. Symmetry over tokens and websockets
is sound: they are only compared, and the run checks safety and action
properties. `msd_otg`: with two images of different kinds a call finds the other
one taken, static or selected; restarts are unbounded. One external action is
enough to separate what kvmd believes from what is, and the proofs do not depend
on the bound; the poller needs two (unlink, then something that wakes the
watcher). `streamer`: two valid values, so that parameters get outdated, a third that is
dropped, and two clients, so that one leaves and one stays. `switch`: two units are the fewest
with a downlink, a truncation and a unit that only passes the port on; one port
per unit keeps channel 0 and the downlink. Reconnections and reboots follow from
one disturbance, which hits any state of a start that is itself a chain of
requests, answers and loads; responses that wait are bounded by two, the events
by three at the time when one is read. `switch_storage`: two clients so that one
leaves and one stays; two edits make one come during the save of the other, and
a failure or restart hits any step of it. `hid_mcu`: two faults exhaust the two
attempts; three calls are a press, its release and something that clears between
them. `hid_otg`: one slot, so that a second key finds none. `nbd`: the second
binding starts while the end of the first one is told; three faults reach
every pair of tasks that fail together with a process that is killed. `vnc`: two
sizes are the fewest with a resize, two settings are new encodings in the middle of
frames or continuous updates switched on and off; a second connection
starts with the size of the first. Four inputs are a key, a tap of Alt (one begins a
shortcut here, two in the code, which changes no order), a digit and its
end; the keymap has a letter with one key and a code with two. The frames and the
input share nothing but the websocket, so each of the two clients does one; for the one
that types the streamer is silent (`watches` of `Budgets`), but for its errors when it is opened.

The deadlock check is off where the system may rest for good: in the runs
`switch_storage`, `switch_dangling`, `hid_mcu`, `hid_otg`, `nbd` and `vnc` calls and
faults are used up some day, and a stopped process does nothing any more. Their
liveness properties say that the rest is the right one. The other runs check for
deadlocks.

## Fairness

*Streamer*: weak fairness of the controller, of the delayed stop, of each
`__inner_stop()`, of the process task, and of the end of a snapshot: each is a
task of an event loop that runs every ready task, its sleeps and hooks end (a
hook that hangs is outside the model), and a snapshot has a limited number of
retries. Clients, requests and deaths of the process need not happen. The debounce
of one second ends because weak fairness of the controller covers both of its
outcomes.

*MsdOtg*: strong fairness of the call and of the watcher, because both take
`asyncio.Lock`, which serves waiters in the order they came: a task that is
enabled again and again between two holders gets its turn. An upload ends because
its client sends everything, stops or disconnects (the request then raises).
Restarts and other tools are not fair. `WatchStop` is fair only when the drive is
offline, where the code returns by itself.

*Switch*: weak fairness of the subprocess, of the line with the units, of the
task that handles events, of the five-second time-out of a request whose answer
will not come, and of the end of a load. That the device comes back is a
hypothesis of the property and not an assumption.

*SwitchStorage*: weak fairness of the controller of kvmd-pst, of its shutdown and
its restart by systemd, of the server's notice of a closed connection, of the
saver and the loads, and of kvmd-pstrun as long as it has messages to read or a
child to kill. The child itself may run for ever.

*HidMcu*: weak fairness of the subprocess, of the put that follows a clear, and
of the firmware: it answers or reboots; the line and the power are not fair.
*HidOtg*: weak fairness of the process of each device; the host is free.

*Nbd*: weak fairness of the poller and of the tasks of the process, each for
itself, and of the delivery of a pending SIGTERM: both event loops run every
ready task, and every wait of theirs has a time-out. Calls and faults are not
fair.

*Vnc*: weak fairness of the task of KVMD with its time-out, of the sender, of the
cleanup, of KVMD's notice of a closed websocket, and of the reader up to the point
where it reads: a memsink opens or raises at once, the HTTP streamer has
time-outs, and after an error the loop begins again. Reading itself is not fair: the
HTTP streamer gives frames or raises, but `read_frame()` of a memsink waits again whenever
`wait_frame()` returns None (clients/streamer.py:264), so a silent one keeps the reader for ever.
The main task follows the client and is not fair.

What a client gets therefore depends on the streamer, and `Served` says so with the
hypothesis `Streams`, in two parts. The reader goes on, with frames or errors; and from some time
on a frame that is read after a key frame was asked for is one. The code does not ensure the
second: `key_required` is only handed to the sink, and media/server.py:234 and
vnc/server.py:335 provide for other frames. Without either part TLC finds a client
that waits for ever: the reader hangs; or the sender takes one H264 frame after
the other without a key, and notifies itself each time. The other half of `Served`, about
encodings, the end of a connection and of its websocket, has no hypothesis.

## What the checks found

* `msd_poller_dies`: when the gadget function is unlinked while the drive is
  loaded and then a reload fails, `poll_state()` subscripts a storage that is
  None. It runs in a deadly task, so the daemon stops.
* `switch_dangling`: the EDIDs and the EDID of each port are two files that are
  written one after the other and read as they are. A save that is stopped
  between them, a restart and a load leave a port with an EDID that does not
  exist, against the assertion in `Edids`.

Facts the models show that contradict no document, and so are no findings: the
flag `synced` may stay cleared after an edit that changes nothing in the units;
a partial frame makes the chain deaf until kvmd is restarted; a unit's request
that was lost blocks it for five seconds; a HID device that has used up its
retries is offline until the next event; an unbind that comes before the worker
has its handlers is lost; an image from outside the storage that another tool
attached stays selected after an eject until the next reload (set_connected() checks
it again, `ImplementsDrive`). In kvmd-vnc a key stays down when its code is let go
under other modifiers than it was pressed, because the release is looked up
again and is another key or none (rfb/__init__.py:537): NoStuckKeys leaves out exactly
the keys of such codes (`Ambiguous`). A button pressed before the websocket is open is
remembered and never sent. A queue of more than ten frames loses the oldest, so H264
may miss a part until the next key frame. A memsink that is silent, or that never gives the
key frame it is asked for, lets a client with an open request wait for ever (`Streams`).
A load of the switch's configuration after a reconnection replaces edits that are not yet
saved; `SavedWhenIdle` does not see it, because cache and files agree afterwards.

## What is proved

The eight proof modules hold for all values of the constants, that is for
any number of tokens, websockets, images, parameters, clients, keys, slots, units,
ports, sizes, attempts and boards, any keymap, and any bound on disturbances, with the named assumptions of the components
only. These say that sentinel values are not ordinary ones and that sets and bounds
are what they are used as (`AuthAssumption`, `StreamerAssumption`, `MsdAssumption` and
`NoneAssumption`, `PstAssumption`, `RunAssumption`, `StorageAssumption`,
`HidOtgAssumption`, `ChainAssumption`, `SwitchAssumption`, `QueueLimitAssumption`,
`TriggerAssumption`), that a
number of attempts is a natural number (`RetriesAssumption`), that codes, keys and buttons
have different names (`NamesAssumption`), that a line is an input,
a switch or a button (`Wiring` of Gpio), that a keyboard has a slot, and that
a chain has at least one unit and not more than `MaxUnits`, and a unit at least one
channel. Nothing is assumed of what a step does.

* `ClientProofs`, AuthSessions: type correctness; `AuthIInv`, which joins `TypeOK`,
  `RegisteredIsOpen` (a registered websocket belongs to an open handler),
  `WsAccounting` and `OpenSessionIsInfinite`, and gives the last two as theorems.
  The argument is about cardinalities: a step adds or removes one websocket of one
  token, and the shutdown removes them all. `ClosedSessionIsLimited`
  needs in addition how one step moves a deadline. `RemovedForAReason` takes `OpenSessionIsInfinite` from the invariant: a session
  past its deadline has one, so no websocket is open. That the store implements `Leases`
  (`ImplementsLeases`) rests on the invariant in the next state: a session that was
  recounted has the deadline of a lease with the holders it has now, because its counter
  says correctly whether the last one is gone (`RecountedLease`). `NoResurrection`, which it
  implies, has a theorem of its own that needs the types only.
* `StreamerProofs`: `IInv` says which positions of the controller, the two stops,
  the stopper and the process task can be combined: at most one stop is past its
  first step, a task that is being stopped is "done" and cannot spawn, a delayed
  stop exists only with a task. `AssertionsHold` and `NothingLeftBehind` follow.
  They are not inductive alone: the assertion of `__inner_stop()` depends on the
  controller having cancelled the stopper before. `SettledIsRight` has an invariant of
  its own on top (`SInv`): between two calls the process is kept exactly if the
  controller wants it (`Follows`), a restart brings a new one (`Fresh`), and what the
  controller has seen is current unless a notification is queued (`Seen`).
* `MsdOtgProofs`: `IInv` is six parts: types of what is outside and inside,
  the call (which positions are inside the region, what `arg` is there), the lock
  (its holder is at a critical step, and only one), the marks (`IncompleteIsMarked`
  and: while an upload has not finished its file is marked or complete) and the
  listing (no image list is missing while the drive is online and no reload runs).
  Each part has a lemma of its own that says that every step keeps it.
  For the refinement (`Implements`) the state of an upload is added
  (`Uploading`: no file before it is opened, then a marked one), and every action is
  shown to be one step of `MsdDrive` or to leave its five variables alone;
  `OnlyStoredAttached` says in addition that kvmd attaches only what is in its
  list.
  The poller never moves the drive (`PollerIsPassive`), so that the invariant holds
  beside it. `ClientsAlwaysKnow` then needs one lemma (`SilentStep`): a step that queues
  no notification and leaves the watcher idle changes nothing that is told.
* `HardwareProofs`, Gpio: an output is busy exactly while one action is inside of its region
  (`RegionsExclude`), a button that has been driven is held only by a pulse that is going to let it go
  (`ButtonsAreLetGo`, `OwnLinesFailAtTheEnd`), and the clients miss nothing
  (`NothingIsMissed`). The invariant is the conjunction of the four with the
  types and the fact that a button is only ever pulsed: the clients miss nothing because
  only one action, inside of a busy region, moves a line without a notification.
* `HardwareProofs`, HidMcu: `McuIInv` follows an event from the clients to the host. `Ends`
  says that a key that was let go will be up: by the last end of it in the queue, by
  the put that follows a clear, by the event under way, or by a reboot, unless
  `set_connected()` dropped its end. An event under way may fail after it was executed or
  before, so `Done` says what the firmware has done with it (once executed it has left its
  effect, unless the firmware reboots), and `Answers` which answers on the line are about
  it: a positive one only if it was executed, and so the repetition of a positive one that
  `prev` remembers. `EachEventOnce` is a part of the invariant, `NoStuckKeys` what is left of
  `Ends` when the queue is empty. The types have a strengthening of their own (`Attempts`:
  an attempt is made only when one is left).
* `SwitchStorageProofs` has an invariant for each of the two sides. `PInv` is about
  kvmd-pst: the clients may write as they were told (`WritableWhileAllowed`), because the
  round that remounts also tells, and the one remount that does not, at a start, finds
  nobody registered (`Closed`); and an open file keeps the partition writable
  (`OpenIsWritable`), since the files of a client outlive its websocket and a server that
  starts again finds them. `SInv` is about the saver: what is still to be written is
  one of five plans, and a key that is in none of them is saved (`Planned`); what is
  remembered as written is in the files unless a write was interrupted (`WrittenName`,
  `WrittenEdids`). `SavedWhenIdle` is what remains of it when the plan is done.
* `HidOtgProofs`: that nothing stays down at rest is a statement about what *will* be
  down when a process has carried out its queue. `LetGo` says of every key that the
  clients have let go: it is up after some event of the queue, or already, and no
  later event presses it. `InStep` says that the host has what the process holds
  whenever it is online with no attempt left, unless the host is new. The slots of a
  keyboard need finite sets and their cardinality (`Fits`).
* `NbdProofs`: the clients are told what comes out of a queue that outlives the tasks
  that fill it and may be cut off by a kill. `CInv` says that the first reason to
  stop in the queue is the first one of the process (`FirstStop`), or that it was lost
  with a part of the queue; `LInv` that a remote that serves is what the last event
  says that is not a reason to stop (`Says`); `PInv` which position of the poller goes with
  which binding and process.
* `ClientProofs`, Vnc: `VncIInv` is about the frames and about the input. The sender merges
  the whole queue into one picture; `Shows` says of a picture with its key flag that a
  client can decode it: it begins with a key frame or goes on where the last one
  that was sent ends. One turn of the loop keeps that (`MergeKeeps`). The loop is
  a recursive function over the queue; what holds after all of its turns is proved by the
  least turn after which it does not hold (`Least`, `LoopExists`, `DrainedShows`), which needs no
  induction rule. Of the input it says that the buttons KVMD holds are known as pressed and that
  what it holds is meant by something the client holds down, which every kind of input
  event keeps whatever `MagicHandler` makes of it (`HandleTells`, `QemuEventTells`).
  Beside it, `VncTypeOK` and `StagesInOrder` are inductive without a strengthening: the second
  says that the assertions of the handlers hold, which the order of the stages
  (authorization, encodings, websocket, reader) implies. TLC checked both on the
  instance of the run `vnc`; they are no properties of it.
* `SwitchProofs`: between what KVMD shows, what the subprocess acts on and what the
  units are lies a queue each, so none of them are compared directly. The invariant says
  of each queue that when it has been read the reader agrees with the writer: the
  last element about the matter says what the writer holds, or there is none and the
  reader agrees already (`Latest`). It is stated for the active port and for the
  state of every unit in the events (`PortSaid`, `StateSaid`), for the EDIDs in the
  commands (`EdidsSaid`) and for the state of every unit on the line (`HwSaid`), where an
  answer without a downlink is one of the last unit (`Ends`). Each of the queues has lemmas
  about an element that is appended, about its head that is read, and about a writer
  that stays; the runs' four invariants follow when the queues are empty.

All invariants and action properties of the runs are proved, and the refinements of
`MsdDrive` and `Leases`. Only model-checked is liveness, which this proof system cannot treat (`BusyIsReleased`,
`CatchesUp`, `StartsForClients`, `StopsWhenUnused`, `ShutdownEnds`,
`ConfigurationApplied`, `ReadOnlyAgain`, `EndsWithPermission`, `SaveEnds`, `Settles`,
`Stops`, `BindEnds`, `UnbindEnds`, `Served`).

## Not modelled, and why

Bytes of any kind (image data, HTTP, video, EDID), passwords and the services
that check them, statistics, configuration files and their validation, and the
web interface. They are I/O or pure functions, and the properties here do not
look at them. Outside the daemon: the kernel beyond its mass-storage function
and the ends of an nbd link, the firmware beyond its answers to requests.

Components that are left out: HID over Bluetooth and CH9329, which repeat the queues of
the OTG HID over transports without its retries; localhid, Janus, media and IPMI
daemons, which only forward; one-shot scripts; pollers and
formatters of system data. Of the modelled components the parts left out are
named above and in `PROJECT.json`. The hazards in `PROJECT.json` that no property
covers carry a note.

Two assumptions about the platform: Python is at least 3.12, where
`asyncio.wait_for()` does not lose an item that a cancelled `Queue.get()` has
taken (AioNotifier and Inotify rely on it), and a mount that is asked to be
read-only while a file is open for writing refuses.

## Plan

1. `VncTypeOK` and `StagesInOrder` as properties of the run `vnc`.
2. A run for `Gpio`: until then its four invariants are proved only.
3. The delay of ATX events in `SwitchCache` (state.py:124), and a heartbeat that
   works, as an alternative of `SwitchChain`.
4. An abstract specification of the switch (a port and a configuration that reach
   the units) and the proof that `Switch` implements its safety part.
5. The handshake of the VNC server, and several clients that share a KVMD.
