----------------------------- MODULE SwitchCache -----------------------------
(***************************************************************************)
(* What KVMD knows of the switch and tells its clients                     *)
(* (kvmd/apps/kvmd/switch/state.py).  Every method is one step of the      *)
(* event loop, and queues masks that say which parts of the state clients  *)
(* are to be told: poll_state() reads the parts when it takes a mask, so   *)
(* what matters is that no change goes without one.  Masks that stand for  *)
(* links, beacons and ATX, and the delay of the latter, are left out.      *)
(***************************************************************************)
EXTENDS SwitchChain

VARIABLES
  cache,  \* __units, __active_port, __synced and __edids of StateCache
  missed  \* parts of the state that changed without a mask in __queue

cacheVars == <<cache, missed>>

NewInfo == [state |-> NoState, leds |-> FALSE]

\* __is_units_ready()
Ready(us) == \A u \in 1 .. Len(us) : us[u].state # NoState /\ us[u].leds

CachedPorts(us) == 0 .. Len(us) * Channels - 1

\* __inner_check_synced()
CheckSynced(us, port, wanted) ==
  \A u \in 1 .. Len(us) :
    /\ us[u].state # NoState /\ ~us[u].state.busy
    /\ port >= 0 => us[u].state.ch = TargetChannel(u, port)
    /\ WrongEdids(u, us[u].state, wanted) = {}

\* The cache with its flag recomputed, and the mask of what that changes.
Recached(c) == [c EXCEPT !.synced = CheckSynced(c.units, c.active, c.edids)]
Summary(changed) == IF changed THEN {"SUMMARY"} ELSE {}

\* What is told about the ports: nothing until every unit is known.
UsedEdids(c) == IF Ready(c.units) THEN [p \in CachedPorts(c.units) |-> c.edids[p]] ELSE <<>>

\* The parts of the state an answer to the mask holds.
Told(mask) ==
  CASE mask = "FULL" -> {"summary", "ports"}
    [] mask = "SUMMARY" -> {"summary"}
    [] mask = "EDIDS" -> {"ports"}

Changed ==
  (IF <<cache.active, cache.synced>> # <<cache'.active, cache'.synced>> THEN {"summary"} ELSE {})
  \cup (IF UsedEdids(cache) # UsedEdids(cache)' /\ Ready(cache.units)' THEN {"ports"} ELSE {})

Bump(masks) == missed' = missed \cup (Changed \ UNION {Told(m) : m \in masks})

Truncate(n) ==
  /\ IF Len(cache.units) > n
       THEN cache' = [cache EXCEPT !.units = Keep(@, n)] /\ Bump({"FULL"})
       ELSE UNCHANGED cacheVars

UpdateActivePort(port) ==
  /\ cache' = Recached([cache EXCEPT !.active = port])
  /\ Bump(Summary(cache'.active # cache.active \/ cache'.synced # cache.synced))

EnsureUnit(u) == cache.units \o [i \in 1 .. Max(0, u - Len(cache.units)) |-> NewInfo]

UpdateUnitState(u, new) ==
  LET prev == EnsureUnit(u)[u].state
      stored == [cache EXCEPT !.units = [EnsureUnit(u) EXCEPT ![u].state = new]]
  IN  /\ \/ /\ ~Ready(stored.units)
            /\ cache' = stored /\ Bump({})
         \/ /\ Ready(stored.units) /\ prev = NoState
            /\ cache' = stored /\ Bump({"FULL"})
         \/ /\ Ready(stored.units) /\ prev # NoState
            /\ cache' = Recached(stored)
            /\ Bump(Summary(cache'.synced # cache.synced))

UpdateUnitLeds_Silent(u) ==
  /\ cache' = [cache EXCEPT !.units = [EnsureUnit(u) EXCEPT ![u].leds = TRUE]]
  /\ Bump({})

UpdateUnitLeds(u) ==
  LET prev == EnsureUnit(u)[u].leds
  IN  /\ cache' = [cache EXCEPT !.units = [EnsureUnit(u) EXCEPT ![u].leds = TRUE]]
      /\ Bump(IF Ready(cache'.units) /\ ~prev THEN {"FULL"} ELSE {})

\* set_edids(): the flag "synced" is not recomputed here.
SetEdids(c) ==
  /\ cache' = [cache EXCEPT !.edids = c]
  /\ Bump(IF \E p \in CachedPorts(cache.units) : c[p] # cache.edids[p] THEN {"EDIDS"} ELSE {})

CacheInit(c) ==
  /\ cache = [units |-> <<>>, active |-> -1, synced |-> TRUE, edids |-> c]
  /\ missed = {}

=============================================================================
