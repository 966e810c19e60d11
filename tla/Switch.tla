------------------------------- MODULE Switch -------------------------------
(***************************************************************************)
(* The Switch class (kvmd/apps/kvmd/switch/__init__.py): it passes the     *)
(* commands of clients to the subprocess (SwitchChain), keeps the cache    *)
(* (SwitchCache) up to date from its events, and loads the configuration   *)
(* again whenever the device is found.  What the storage holds at that     *)
(* moment is any configuration, and reading it may fail; how it is saved   *)
(* is in SwitchStorage.tla.                                                *)
(***************************************************************************)
EXTENDS SwitchCache

CONSTANTS
  DefaultEdids, \* the configuration before anything is loaded
  MaxDisturbances \* bound on commands, edits, disconnections and lost answers

ASSUME SwitchAssumption == DefaultEdids \in Edids

VARIABLES
  loading,   \* __load_configs() waits for the storage
  loaded,    \* the last call of it succeeded
  left       \* disturbances that may still come

kvmd == <<loading, loaded>>
vars == <<chainVars, cacheVars, kvmd, left>>

Disturb == left > 0 /\ left' = left - 1

-----------------------------------------------------------------------------
(* Events: __systask_events(), and the load of the configuration *)

HandleEvent ==
  /\ ~loading /\ events # <<>>
  /\ events' = Tail(events)
  /\ LET e == Head(events) IN
       \/ /\ e.type = "found"
          /\ loading' = TRUE
          /\ UNCHANGED cacheVars
       \/ e.type = "truncated" /\ Truncate(e.units) /\ UNCHANGED loading
       \/ e.type = "port" /\ UpdateActivePort(e.port) /\ UNCHANGED loading
       \/ e.type = "state" /\ UpdateUnitState(e.unit, e.state) /\ UNCHANGED loading
       \/ e.type = "leds" /\ UpdateUnitLeds(e.unit) /\ UNCHANGED loading
  /\ UNCHANGED <<plugged, hw, line, pc, reported, chain, cmds, loaded, left>>

Command(c) == cmds' = Append(cmds, c)

LoadSucceeds_CacheOnly(c) ==
  /\ loading
  /\ loading' = FALSE /\ loaded' = TRUE
  /\ Command([type |-> "actual"])
  /\ SetEdids(c)
  /\ UNCHANGED <<plugged, hw, line, pc, reported, chain, events, left>>

LoadSucceeds(c) ==
  /\ loading
  /\ loading' = FALSE /\ loaded' = TRUE
  /\ cmds' = cmds \o <<[type |-> "edids", edids |-> c], [type |-> "actual"]>>
  /\ SetEdids(c)
  /\ UNCHANGED <<plugged, hw, line, pc, reported, chain, events, left>>

\* "Can't load configs"
LoadFails ==
  /\ loading
  /\ loading' = FALSE /\ loaded' = FALSE
  /\ UNCHANGED <<chainVars, cacheVars, left>>

-----------------------------------------------------------------------------
(* Clients *)

\* set_active_prev(), set_active_next(), set_active_port()
Press ==
  /\ Disturb
  /\ \E c \in {[type |-> "prev"], [type |-> "next"]}
             \cup {[type |-> "port", port |-> p] : p \in Ports} : Command(c)
  /\ UNCHANGED <<plugged, hw, line, pc, reported, chain, events, cacheVars, kvmd>>

\* A beacon or a reboot of any unit, in the chain or not.
Forward(u) ==
  /\ Disturb
  /\ Command([type |-> "other", unit |-> u])
  /\ UNCHANGED <<plugged, hw, line, pc, reported, chain, events, cacheVars, kvmd>>

\* create_edid(), change_edid(), remove_edid(), set_port_params(): the lock is
\* held by a load until it is done.
Edit(c) ==
  /\ Disturb
  /\ ~loading /\ c # cache.edids
  /\ Command([type |-> "edids", edids |-> c])
  /\ SetEdids(c)
  /\ UNCHANGED <<plugged, hw, line, pc, reported, chain, events, kvmd>>

-----------------------------------------------------------------------------

Init ==
  /\ ChainInit /\ edids = DefaultEdids
  /\ CacheInit(DefaultEdids)
  /\ loading = FALSE /\ loaded = FALSE
  /\ left = MaxDisturbances

ChainStep == (Subprocess \/ Line) /\ UNCHANGED <<cacheVars, kvmd, left>>
\* The answer was lost, or is late.
TimeOut(u) == GiveUp(u) /\ ~Awaited(u) /\ UNCHANGED <<cacheVars, kvmd, left>>
TimeOutEarly(u) == Disturb /\ GiveUp(u) /\ Awaited(u) /\ UNCHANGED <<cacheVars, kvmd>>
Takeaway(n) == Disturb /\ Shorten(n) /\ UNCHANGED <<cacheVars, kvmd>>
TakeOff == Disturb /\ Unplug /\ UNCHANGED <<cacheVars, kvmd>>
PutOn == Plug /\ UNCHANGED <<cacheVars, kvmd, left>>

Next ==
  \/ ChainStep
  \/ \E u \in 1 .. MaxUnits : TimeOut(u) \/ TimeOutEarly(u) \/ Takeaway(u) \/ Forward(u)
  \/ TakeOff \/ PutOn \/ HandleEvent \/ LoadFails \/ Press
  \/ \E c \in Edids : LoadSucceeds(c) \/ Edit(c)

Spec == Init /\ [][Next]_vars

\* The subprocess, the line and the tasks of KVMD go on as long as they can,
\* the device comes back, and a load ends some day.
FairSpec ==
  /\ Spec
  /\ WF_vars(Subprocess /\ UNCHANGED <<cacheVars, kvmd, left>>)
  /\ WF_vars(Line /\ UNCHANGED <<cacheVars, kvmd, left>>)
  /\ WF_vars(HandleEvent) /\ WF_vars(\E u \in 1 .. MaxUnits : TimeOut(u))
  /\ WF_vars(LoadFails \/ \E c \in Edids : LoadSucceeds(c))

-----------------------------------------------------------------------------

InfoType == [state : StateType \cup {NoState}, leds : BOOLEAN]

TypeOK ==
  /\ plugged \in BOOLEAN /\ torn \in BOOLEAN /\ reported \in BOOLEAN /\ actual \in BOOLEAN
  /\ Len(hw) \in 1 .. MaxUnits
  /\ Len(resp) <= MaxLine
  /\ pc \in {"closed", "loop", "cmds"}
  /\ Len(units) <= MaxUnits /\ Len(cache.units) <= MaxUnits
  /\ \A u \in 1 .. Len(units) :
       units[u] \in [state : StateType \cup {NoState}, leds : BOOLEAN, pending : BOOLEAN]
  /\ \A u \in 1 .. Len(cache.units) : cache.units[u] \in InfoType
  /\ active \in Ports \cup {-1} /\ edids \in Edids
  /\ cache.active \in Ports \cup {-1} /\ cache.synced \in BOOLEAN /\ cache.edids \in Edids
  /\ loading \in BOOLEAN /\ loaded \in BOOLEAN

\* With the events handled, the port KVMD takes for active is the one the
\* subprocess switches to, and each unit it knows is in the state the
\* subprocess acts on, whatever was unplugged, truncated or lost.
CacheFollowsChain ==
  events = <<>> =>
    /\ cache.active = active
    /\ \A u \in 1 .. Len(cache.units) :
         cache.units[u].state # NoState =>
           u <= Len(units) /\ cache.units[u].state = units[u].state

Finding == loading \/ \E i \in 1 .. Len(events) : events[i].type = "found"

\* The subprocess applies the configuration KVMD shows, although commands are
\* thrown away when the device is lost, unless the load failed.
ConfigurationArrives ==
  pc # "closed" /\ cmds = <<>> /\ ~Finding /\ loaded => edids = cache.edids

\* Nothing is under way between the hardware and the cache.
AtRest ==
  /\ pc = "loop" /\ plugged /\ ~torn /\ ~Finding
  /\ cmds = <<>> /\ events = <<>> /\ req = <<>> /\ resp = <<>>
  /\ \A u \in 1 .. Len(hw) : ~hw[u].busy
  /\ Changing = {} /\ \A u \in 1 .. Len(units) : ~units[u].pending

\* At rest every unit of the hardware has the active port and the EDIDs that
\* KVMD shows: no request, answer or event was lost on the way that left a unit
\* as it was.  (The flag "synced" may stay cleared all the same: set_edids() does
\* not recompute it, and a unit that needs no change sends nothing.)
RestIsConfigured ==
  AtRest /\ actual /\ loaded /\ cache.units # <<>> /\ Ready(cache.units) =>
    CheckSynced([u \in 1 .. Len(hw) |-> [state |-> StateOf(u, hw)]], cache.active, cache.edids)

\* Whatever changes of the port, the flag and the EDIDs in use, the same step
\* puts a mask in the queue that tells clients.
ClientsAreTold == missed = {}

\* The active port belongs to the chain.
PortExists == active >= 0 => UnitOf(active) <= Len(hw)

\* With the device there for good, every unit ends up on the channel of the
\* active port with the EDIDs wanted, unless a frame was cut or the load failed.
Configured ==
  \A u \in 1 .. Len(hw) :
    /\ active >= 0 => hw[u].ch = TargetChannel(u, active)
    /\ WrongEdids(u, hw[u], edids) = {}

ConfigurationApplied ==
  <>[](plugged /\ actual /\ ~torn /\ PortExists) => <>[]Configured

=============================================================================
