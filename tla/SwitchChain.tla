----------------------------- MODULE SwitchChain -----------------------------
(***************************************************************************)
(* The subprocess that drives a chain of PiKVM Switch units over a serial  *)
(* line (kvmd/apps/kvmd/switch/chain.py, device.py), and the units         *)
(* themselves as that code uses them.                                      *)
(*                                                                         *)
(* The subprocess takes commands from one queue and puts events in another *)
(* one; what KVMD does with the two queues is in Switch.tla.  A unit has   *)
(* Channels ports and the downlink, which is channel number Channels; unit *)
(* numbers count from 0 in the code and from 1 here.  Of the configuration *)
(* of the ports the EDIDs are modelled.  A request id only serves to see   *)
(* whether an answer is the one the unit's context waits for, and that is  *)
(* what the field "mine" of a message says.                                *)
(***************************************************************************)
EXTENDS Integers, Sequences, FiniteSets

CONSTANTS
  MaxUnits,   \* units that can be chained
  Channels,   \* ports of a unit, 4 in the code
  Edids,      \* configurations: the EDID wanted on each port
  Factory,    \* the EDID of a port that was never configured
  NoState,    \* a unit that has not told its state
  Chains,     \* the chains of units there may be at the start
  MaxLine,    \* bound on the responses under way on the line
  MaxEvents   \* bound on the events that wait for KVMD when a response is read

Ports == 0 .. MaxUnits * Channels - 1
EdidValues == {Factory} \cup UNION {{c[p] : p \in Ports} : c \in Edids}

\* A unit, and what it tells of itself: "down" is whether another one follows.
HwType == [ch : 0 .. Channels, busy : BOOLEAN, edid : [0 .. Channels - 1 -> EdidValues]]
StateType == [ch : 0 .. Channels, busy : BOOLEAN, edid : [0 .. Channels - 1 -> EdidValues],
              down : BOOLEAN]

ASSUME ChainAssumption ==
  /\ MaxUnits \in Nat \ {0} /\ Channels \in Nat \ {0} /\ MaxLine \in Nat
  /\ Edids \subseteq [Ports -> EdidValues]
  /\ \A c \in Chains : c \in Seq(HwType) /\ Len(c) \in 1 .. MaxUnits
  /\ NoState \notin StateType

VARIABLES
  \* the units and the line
  plugged,    \* the serial device exists
  hw,         \* the units of the chain
  req,        \* requests on their way to the units
  resp,       \* responses on their way to KVMD
  torn,       \* Device.__buf begins with a part of a frame
  \* the subprocess
  pc,         \* "closed", "loop" or "cmds" (consuming commands)
  reported,   \* no_device_reported
  units,      \* __units
  active,     \* __active_port
  actual,     \* __actual
  edids,      \* __edids
  cmds,       \* __cmd_q
  events      \* __events_q

line == <<req, resp, torn>>
chain == <<units, active, actual, edids>>
chainVars == <<plugged, hw, line, pc, reported, chain, cmds, events>>

Max(a, b) == IF a > b THEN a ELSE b
Keep(seq, n) == SubSeq(seq, 1, n)

-----------------------------------------------------------------------------
(* Ports, units and channels *)

UnitOf(port) == port \div Channels + 1
VirtualPort(u, ch) == (u - 1) * Channels + ch

\* The channel of a unit that leads to the port: its own, or the downlink.
TargetChannel(u, port) == IF u = UnitOf(port) THEN port % Channels ELSE Channels

Allowed(port) == port < Len(units) * Channels

NewUnit == [state |-> NoState, leds |-> FALSE, pending |-> FALSE]

CanBeChanged(ctx) == ctx.state # NoState /\ ~ctx.state.busy /\ ~ctx.pending

WrongPort(u, s) == active >= 0 /\ s.ch # TargetChannel(u, active)

\* Channels of the unit whose EDID differs from the wanted one.
WrongEdids(u, s, wanted) ==
  {ch \in 0 .. Channels - 1 : s.edid[ch] # wanted[VirtualPort(u, ch)]}

-----------------------------------------------------------------------------
(* The units, as the code uses them *)

StateOf(u, h) == [ch |-> h[u].ch, busy |-> h[u].busy, edid |-> h[u].edid,
                  down |-> u < Len(h)]

StateMsg(u, h, mine) == [op |-> "state", unit |-> u, mine |-> mine, state |-> StateOf(u, h)]
LedsMsg(u) == [op |-> "leds", unit |-> u, mine |-> FALSE, state |-> NoState]
NakMsg(u, mine) == [op |-> "nak", unit |-> u, mine |-> mine, state |-> NoState]

Reply(msgs) ==
  /\ Len(resp) + Len(msgs) <= MaxLine
  /\ resp' = resp \o msgs

\* A request to a unit that does not exist, or is busy, is refused.
Refused(r) == r.unit <= Len(hw) => hw[r.unit].busy

Applied(r) ==
  [hw EXCEPT ![r.unit] =
    [ch   |-> IF r.op = "switch" THEN r.ch ELSE @.ch,
     edid |-> IF r.op = "edid" THEN [@.edid EXCEPT ![r.ch] = r.edid] ELSE @.edid,
     busy |-> TRUE]]

Serve ==
  /\ plugged /\ req # <<>>
  /\ LET r == Head(req) IN
       \/ /\ r.op = "state"
          /\ Reply([u \in 1 .. Len(hw) |-> StateMsg(u, hw, FALSE)])
          /\ UNCHANGED hw
       \/ /\ r.op = "leds"
          /\ Reply([u \in 1 .. Len(hw) |-> LedsMsg(u)])
          /\ UNCHANGED hw
       \/ /\ r.op \in {"switch", "edid", "other"} /\ Refused(r)
          /\ Reply(<<NakMsg(r.unit, r.mine)>>)
          /\ UNCHANGED hw
       \/ /\ r.op \in {"switch", "edid"} /\ ~Refused(r)
          /\ hw' = Applied(r)
          /\ Reply(<<StateMsg(r.unit, hw', r.mine)>>)
       \/ /\ r.op = "other" /\ ~Refused(r)
          /\ Reply(<<StateMsg(r.unit, hw, r.mine)>>)
          /\ UNCHANGED hw
  /\ req' = Tail(req)
  /\ UNCHANGED <<plugged, torn, pc, reported, chain, cmds, events>>

\* A change is done, and the unit says so of its own accord.
Settle(u) ==
  /\ plugged /\ u <= Len(hw) /\ hw[u].busy
  /\ hw' = [hw EXCEPT ![u].busy = FALSE]
  /\ Reply(<<StateMsg(u, hw', FALSE)>>)
  /\ UNCHANGED <<plugged, req, torn, pc, reported, chain, cmds, events>>

\* The units behind unit n are disconnected from it.
Shorten(n) ==
  /\ n < Len(hw)
  /\ hw' = Keep(hw, n)
  /\ IF plugged THEN Reply(<<StateMsg(n, hw', FALSE)>>) ELSE UNCHANGED resp
  /\ UNCHANGED <<plugged, req, torn, pc, reported, chain, cmds, events>>

\* The device disappears, perhaps in the middle of a frame.
Unplug ==
  /\ plugged
  /\ plugged' = FALSE
  /\ req' = <<>> /\ resp' = <<>>
  /\ torn' \in IF resp # <<>> /\ pc # "closed" THEN {torn, TRUE} ELSE {torn}
  /\ UNCHANGED <<hw, pc, reported, chain, cmds, events>>

\* The device comes back after the dead line was noticed.
Plug ==
  /\ ~plugged /\ pc = "closed"
  /\ plugged' = TRUE
  /\ UNCHANGED <<hw, line, pc, reported, chain, cmds, events>>

-----------------------------------------------------------------------------
(* The subprocess: __subprocess() and __main_loop() *)

Event(e) == events' = Append(events, e)

DeviceFound == [type |-> "found"]
ChainTruncated(n) == [type |-> "truncated", units |-> n]
PortActivated(port) == [type |-> "port", port |-> port]
UnitStateEvent(u, s) == [type |-> "state", unit |-> u, state |-> s]
UnitLedsEvent(u) == [type |-> "leds", unit |-> u]

Query(op) == [op |-> op, unit |-> 0, mine |-> FALSE]

Open ==
  /\ pc = "closed" /\ plugged
  /\ pc' = "loop"
  /\ reported' = FALSE
  /\ Event(DeviceFound)
  /\ req' = <<Query("state"), Query("leds")>>
  /\ resp' = <<>>
  /\ UNCHANGED <<plugged, hw, torn, chain, cmds>>

\* The device is missing: reported once, and the commands are thrown away.
Missing ==
  /\ pc = "closed" /\ ~plugged
  /\ IF reported THEN UNCHANGED events ELSE Event(ChainTruncated(0))
  /\ reported' = TRUE
  /\ cmds' = <<>>
  /\ UNCHANGED <<plugged, hw, line, pc, chain>>

\* DeviceError: the device is closed, and the commands are thrown away.
Fail ==
  /\ pc # "closed" /\ ~plugged
  /\ pc' = "closed"
  /\ cmds' = <<>>
  /\ UNCHANGED <<plugged, hw, line, reported, chain, events>>

\* __update_units(): contexts up to the unit, none behind one without a downlink.
Extended(u) == units \o [i \in 1 .. Max(0, u - Len(units)) |-> NewUnit]

Known(m) ==
  LET us == Extended(m.unit)
      cut == IF m.op = "state" /\ ~m.state.down THEN Keep(us, m.unit) ELSE us
  IN  [cut EXCEPT ![m.unit] =
        [state   |-> IF m.op = "state" THEN m.state ELSE @.state,
         leds    |-> @.leds \/ m.op = "leds",
         \* __finish_changing_request()
         pending |-> @.pending /\ ~m.mine]]

Reported_NoTruncation(m) ==
  IF m.op = "state" THEN <<UnitStateEvent(m.unit, m.state)>> ELSE <<>>

Reported(m) ==
  CASE m.op = "state" ->
         (IF ~m.state.down /\ Len(Extended(m.unit)) > m.unit
            THEN <<ChainTruncated(m.unit)>> ELSE <<>>)
         \o <<UnitStateEvent(m.unit, m.state)>>
    [] m.op = "leds" -> <<UnitLedsEvent(m.unit)>>
    [] m.op = "nak" -> <<>>

\* __adjust_start_port(): the first unit that shows one of its own ports.
StartPort(us) ==
  LET showing == {u \in 1 .. Len(us) : us[u].state # NoState /\ us[u].state.ch < Channels}
      first == CHOOSE u \in showing : \A v \in showing : u <= v
  IN  IF active < 0 /\ showing # {}
        THEN <<[type |-> "port", port |-> VirtualPort(first, us[first].state.ch)]>>
        ELSE <<>>

\* The messages of contexts that are gone are nobody's any more.
Disowned(msgs, n) ==
  [i \in 1 .. Len(msgs) |-> [msgs[i] EXCEPT !.mine = @ /\ msgs[i].unit <= n]]

ReadResponse ==
  /\ pc = "loop" /\ plugged /\ ~torn /\ resp # <<>>
  /\ Len(events) < MaxEvents
  /\ LET m == Head(resp) IN
       /\ units' = Known(m)
       /\ events' = events \o Reported(m)
       /\ cmds' = cmds \o StartPort(units')
       /\ resp' = Disowned(Tail(resp), Len(units'))
       /\ req' = Disowned(req, Len(units'))
  /\ UNCHANGED <<plugged, hw, torn, pc, reported, active, actual, edids>>

\* A part of a frame and the next frame look like one with 0xF1 inside, and
\* read_all() stops there for good: nothing is parsed any more.
ReadTorn ==
  /\ pc = "loop" /\ plugged /\ torn /\ resp # <<>>
  /\ resp' = <<>>
  /\ UNCHANGED <<plugged, hw, req, torn, pc, reported, chain, cmds, events>>

Activate(port) == active' = port /\ Event(PortActivated(port))

\* __consume_commands(): one command.
Consume ==
  /\ pc \in {"loop", "cmds"} /\ cmds # <<>>
  /\ pc' = "cmds"
  /\ cmds' = Tail(cmds)
  /\ LET c == Head(cmds) IN
       \/ /\ c.type = "actual"
          /\ actual' = TRUE
          /\ UNCHANGED <<active, edids, events, req>>
       \/ /\ c.type = "prev"
          /\ IF units # <<>> /\ active - 1 >= 0
               THEN Activate(active - 1) ELSE UNCHANGED <<active, events>>
          /\ UNCHANGED <<actual, edids, req>>
       \/ /\ c.type = "next"
          /\ LET port == Max(active + 1, 0) IN
               IF Allowed(port) THEN Activate(port) ELSE UNCHANGED <<active, events>>
          /\ UNCHANGED <<actual, edids, req>>
       \/ /\ c.type = "port"
          /\ IF Allowed(c.port) THEN Activate(c.port) ELSE UNCHANGED <<active, events>>
          /\ UNCHANGED <<actual, edids, req>>
       \/ /\ c.type = "edids"
          /\ edids' = c.edids
          /\ UNCHANGED <<active, actual, events, req>>
       \/ \* a beacon or a reboot is passed on to any unit that is named
          /\ c.type = "other"
          /\ plugged
          /\ req' = Append(req, [op |-> "other", unit |-> c.unit, mine |-> FALSE])
          /\ UNCHANGED <<active, actual, edids, events>>
  /\ UNCHANGED <<plugged, hw, resp, torn, reported, units>>

\* A unit that only leads to the active port is left alone
Change_OwnPortOnly(u) ==
  LET ctx == units[u]
  IN  IF CanBeChanged(ctx) /\ u = UnitOf(active) /\ WrongPort(u, ctx.state)
        THEN <<[op |-> "switch", unit |-> u, mine |-> TRUE, ch |-> TargetChannel(u, active)]>>
        ELSE <<>>

\* __ensure_config() of one unit: at most one change is requested at a time.
Change(u) ==
  LET ctx == units[u]
      wrong == WrongEdids(u, ctx.state, edids)
      ch == CHOOSE c \in wrong : \A d \in wrong : c <= d
  IN  CASE ~CanBeChanged(ctx) -> <<>>
        [] CanBeChanged(ctx) /\ WrongPort(u, ctx.state) ->
             <<[op |-> "switch", unit |-> u, mine |-> TRUE, ch |-> TargetChannel(u, active)]>>
        [] CanBeChanged(ctx) /\ ~WrongPort(u, ctx.state) /\ actual /\ wrong # {} ->
             <<[op |-> "edid", unit |-> u, mine |-> TRUE, ch |-> ch,
                edid |-> edids[VirtualPort(u, ch)]]>>
        [] OTHER -> <<>>

\* The units that need a change, and the requests for them along the chain.
Changing == {u \in 1 .. Len(units) : Change(u) # <<>>}

Changes ==
  LET along == {q \in [1 .. Cardinality(Changing) -> Changing] :
                 \A i, j \in DOMAIN q : i < j => q[i] < q[j]}
  IN  {[i \in DOMAIN q |-> Head(Change(q[i]))] : q \in along}

Ensure ==
  /\ pc \in {"loop", "cmds"} /\ cmds = <<>> /\ plugged
  /\ pc' = "loop"
  /\ \E requests \in Changes : req' = req \o requests
  /\ units' = [u \in 1 .. Len(units) |->
                [units[u] EXCEPT !.pending = @ \/ u \in Changing]]
  /\ UNCHANGED <<plugged, hw, resp, torn, reported, active, actual, edids, cmds, events>>

\* Five seconds without an answer: it will not be recognised when it comes.
Forgotten(msgs, u) == [i \in 1 .. Len(msgs) |->
                        [msgs[i] EXCEPT !.mine = @ /\ msgs[i].unit # u]]

\* The answer to the unit's request is under way.
Awaited(u) ==
  \/ \E i \in 1 .. Len(req) : req[i].mine /\ req[i].unit = u
  \/ \E i \in 1 .. Len(resp) : resp[i].mine /\ resp[i].unit = u

GiveUp_Closed(u) ==
  /\ pc = "closed" /\ u <= Len(units) /\ units[u].pending
  /\ units' = [units EXCEPT ![u].pending = FALSE]
  /\ req' = Forgotten(req, u)
  /\ resp' = Forgotten(resp, u)
  /\ UNCHANGED <<plugged, hw, torn, pc, reported, active, actual, edids, cmds, events>>

GiveUp(u) ==
  /\ pc # "closed" /\ u <= Len(units) /\ units[u].pending
  /\ units' = [units EXCEPT ![u].pending = FALSE]
  /\ req' = Forgotten(req, u)
  /\ resp' = Forgotten(resp, u)
  /\ UNCHANGED <<plugged, hw, torn, pc, reported, active, actual, edids, cmds, events>>

-----------------------------------------------------------------------------

ChainInit ==
  /\ plugged \in BOOLEAN
  /\ hw \in Chains
  /\ req = <<>> /\ resp = <<>> /\ torn = FALSE
  /\ pc = "closed" /\ reported = FALSE
  /\ units = <<>> /\ active = -1 /\ actual = FALSE
  /\ cmds = <<>> /\ events = <<>>

Subprocess ==
  Open \/ Missing \/ Fail \/ ReadResponse \/ ReadTorn \/ Consume \/ Ensure

Line == Serve \/ \E u \in 1 .. MaxUnits : Settle(u)

=============================================================================
