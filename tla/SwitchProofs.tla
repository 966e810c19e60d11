---------------------------- MODULE SwitchProofs ----------------------------
(***************************************************************************)
(* Proofs about Switch for any chain of units, any ports and EDIDs, and    *)
(* any number of disturbances.                                             *)
(*                                                                         *)
(* What KVMD shows, what the subprocess acts on and what the hardware is   *)
(* are never compared directly: a queue lies between any two of them.  So  *)
(* the invariant says of each queue that once it is read the reader agrees *)
(* with the writer: the last element about the matter says what the writer *)
(* holds, or there is none and the reader agrees already (Latest).  It is  *)
(* stated for the active port and the state of every unit (events), for    *)
(* the EDIDs (commands) and for the state of every unit on the line        *)
(* (responses), and the four runs' invariants are what is left of it when  *)
(* the queues are empty.                                                   *)
(***************************************************************************)
EXTENDS Switch, FiniteSetTheorems, WellFoundedInduction, TLAPS

\* Once q is read, what was b is Good: elements in Rel are about the matter.
Latest(q, b, Rel, Good) ==
  \E i \in 0 .. Len(q) :
    /\ (IF i = 0 THEN b ELSE q[i]) \in Good
    /\ \A j \in i + 1 .. Len(q) : q[j] \notin Rel

Contexts == [state : StateType \cup {NoState}, leds : BOOLEAN, pending : BOOLEAN]

Requests ==
  [op : {"state", "leds"}, unit : {0}, mine : BOOLEAN]
  \cup [op : {"other"}, unit : 1 .. MaxUnits, mine : BOOLEAN]
  \cup [op : {"switch"}, unit : 1 .. MaxUnits, mine : BOOLEAN, ch : 0 .. Channels]
  \cup [op : {"edid"}, unit : 1 .. MaxUnits, mine : BOOLEAN, ch : 0 .. Channels - 1,
        edid : EdidValues]

Messages ==
  [op : {"state"}, unit : 1 .. MaxUnits, mine : BOOLEAN, state : StateType]
  \cup [op : {"leds", "nak"}, unit : 1 .. MaxUnits, mine : BOOLEAN, state : {NoState}]

Commands ==
  [type : {"actual", "prev", "next"}] \cup [type : {"port"}, port : Ports]
  \cup [type : {"edids"}, edids : Edids] \cup [type : {"other"}, unit : 1 .. MaxUnits]

Events ==
  [type : {"found"}] \cup [type : {"truncated"}, units : 0 .. MaxUnits]
  \cup [type : {"port"}, port : Ports]
  \cup [type : {"state"}, unit : 1 .. MaxUnits, state : StateType]
  \cup [type : {"leds"}, unit : 1 .. MaxUnits]

Caches == [units : Seq(InfoType), active : Ports \cup {-1}, synced : BOOLEAN, edids : Edids]

StateIn(us, u) == IF u \in 1 .. Len(us) THEN us[u].state ELSE NoState
UnitState(u) == StateIn(units, u)
CachedState(u) == StateIn(cache.units, u)

Flags ==
  /\ plugged \in BOOLEAN /\ torn \in BOOLEAN /\ reported \in BOOLEAN /\ actual \in BOOLEAN
  /\ loading \in BOOLEAN /\ loaded \in BOOLEAN
  /\ pc \in {"closed", "loop", "cmds"}
LineTyped ==
  /\ hw \in Seq(HwType) /\ Len(hw) \in 1 .. MaxUnits
  /\ req \in Seq(Requests)
  /\ resp \in Seq(Messages) /\ Len(resp) <= MaxLine
ChainTyped ==
  /\ units \in Seq(Contexts) /\ Len(units) <= MaxUnits
  /\ active \in Ports \cup {-1} /\ edids \in Edids
  /\ cmds \in Seq(Commands) /\ events \in Seq(Events)
CacheTyped == cache \in Caches /\ Len(cache.units) <= MaxUnits
Typed == Flags /\ LineTyped /\ ChainTyped /\ CacheTyped

\* The response about the unit that comes last tells its state.
About(u) == {m \in Messages : m.op = "state" /\ m.unit = u}
Heard(u, s) == [op |-> "state", unit |-> u, mine |-> FALSE, state |-> s]
HwSaid ==
  plugged /\ ~torn /\ pc # "closed" =>
    \A u \in 1 .. Len(hw) :
      \/ \E i \in 1 .. Len(req) : req[i].op = "state"
      \/ Latest(resp, Heard(u, UnitState(u)), About(u), {m \in About(u) : m.state = StateOf(u, hw)})

Ends ==
  \A i \in 1 .. Len(resp) :
    resp[i].op = "state" /\ ~resp[i].state.down => resp[i].unit >= Len(hw)

\* The last event about the port tells the active one.
PortEvents == {e \in Events : e.type = "port"}
PortSaid == Latest(events, PortActivated(cache.active), PortEvents, {PortActivated(active)})

\* The last event about a unit tells its state, or that it is gone.
Concerning(u) == {e \in Events : \/ e.type = "state" /\ e.unit = u
                                 \/ e.type = "truncated" /\ e.units < u}
Agreeing(u, s) ==
  {e \in Concerning(u) \cup {UnitStateEvent(u, NoState)} :
     e.type = "state" => e.state \in {NoState, s}}
StateSaid ==
  \A u \in 1 .. MaxUnits :
    Latest(events, UnitStateEvent(u, CachedState(u)), Concerning(u), Agreeing(u, UnitState(u)))

\* The last command about the EDIDs brings the configuration KVMD shows.
EdidsCmd(c) == [type |-> "edids", edids |-> c]
EdidsCmds == {c \in Commands : c.type = "edids"}
EdidsSaid ==
  pc # "closed" /\ ~Finding /\ loaded =>
    Latest(cmds, EdidsCmd(edids), EdidsCmds, {EdidsCmd(cache.edids)})

IInv == Typed /\ HwSaid /\ Ends /\ PortSaid /\ StateSaid /\ EdidsSaid /\ ClientsAreTold

-----------------------------------------------------------------------------
(* Queues *)

\* Nothing is in the queue.
LEMMA LatestEmpty ==
  ASSUME NEW b, NEW Rel, NEW Good
  PROVE  Latest(<<>>, b, Rel, Good) <=> b \in Good
<1>1. Len(<<>>) = 0
  OBVIOUS
<1>2. \A j \in 0 + 1 .. Len(<<>>) : <<>>[j] \notin Rel
  BY <1>1
<1> QED
  BY <1>1, <1>2 DEF Latest

\* The reader takes the first element.
LEMMA LatestTail ==
  ASSUME NEW S, NEW q \in Seq(S), q # <<>>, NEW b, NEW b2, NEW Rel, NEW Good,
         Latest(q, b, Rel, Good),
         Head(q) \in Good => b2 \in Good,
         Head(q) \notin Rel /\ b \in Good => b2 \in Good
  PROVE  Latest(Tail(q), b2, Rel, Good)
<1>1. PICK i \in 0 .. Len(q) : /\ (IF i = 0 THEN b ELSE q[i]) \in Good
                               /\ \A j \in i + 1 .. Len(q) : q[j] \notin Rel
  BY DEF Latest
<1>2. /\ Len(q) \in Nat \ {0} /\ Len(Tail(q)) = Len(q) - 1 /\ Head(q) = q[1]
      /\ \A j \in 1 .. Len(q) - 1 : Tail(q)[j] = q[j + 1]
  OBVIOUS
<1>3. CASE i \in {0, 1}
  <2>1. b2 \in Good
    BY <1>1, <1>2, <1>3
  <2>2. \A j \in 0 + 1 .. Len(Tail(q)) : Tail(q)[j] \notin Rel
    BY <1>1, <1>2, <1>3
  <2>3. 0 \in 0 .. Len(Tail(q))
    BY <1>2
  <2> QED
    BY <2>1, <2>2, <2>3, Zenon DEF Latest
<1>4. CASE i > 1
  <2>1. i - 1 \in 0 .. Len(Tail(q)) /\ i - 1 # 0 /\ Tail(q)[i - 1] \in Good
    BY <1>1, <1>2, <1>4
  <2>2. \A j \in (i - 1) + 1 .. Len(Tail(q)) : Tail(q)[j] \notin Rel
    BY <1>1, <1>2, <1>4
  <2>3. (IF i - 1 = 0 THEN b2 ELSE Tail(q)[i - 1]) \in Good
    BY <2>1
  <2> QED
    BY <2>1, <2>2, <2>3, Zenon DEF Latest
<1> QED
  BY <1>1, <1>3, <1>4

\* The writer adds elements that are not about the matter.
LEMMA LatestOthers ==
  ASSUME NEW S, NEW q \in Seq(S), NEW s \in Seq(S), NEW b, NEW Rel, NEW Good,
         Latest(q, b, Rel, Good),
         \A j \in 1 .. Len(s) : s[j] \notin Rel
  PROVE  Latest(q \o s, b, Rel, Good)
<1>1. PICK i \in 0 .. Len(q) : /\ (IF i = 0 THEN b ELSE q[i]) \in Good
                               /\ \A j \in i + 1 .. Len(q) : q[j] \notin Rel
  BY DEF Latest
<1>2. /\ Len(q) \in Nat /\ Len(s) \in Nat /\ Len(q \o s) = Len(q) + Len(s)
      /\ \A j \in 1 .. Len(q) : (q \o s)[j] = q[j]
      /\ \A j \in Len(q) + 1 .. Len(q) + Len(s) : (q \o s)[j] = s[j - Len(q)]
  OBVIOUS
<1>3. i \in 0 .. Len(q \o s) /\ (IF i = 0 THEN b ELSE (q \o s)[i]) \in Good
  BY <1>1, <1>2
<1>4. \A j \in i + 1 .. Len(q \o s) : (q \o s)[j] \notin Rel
  BY <1>1, <1>2
<1> QED
  BY <1>3, <1>4, Zenon DEF Latest

\* The writer adds elements of which the last one about the matter is good.
LEMMA LatestLater ==
  ASSUME NEW S, NEW q \in Seq(S), NEW s \in Seq(S), NEW b, NEW Rel, NEW Good,
         NEW k \in 1 .. Len(s), s[k] \in Good,
         \A j \in k + 1 .. Len(s) : s[j] \notin Rel
  PROVE  Latest(q \o s, b, Rel, Good)
<1>2. /\ Len(q) \in Nat /\ Len(s) \in Nat /\ Len(q \o s) = Len(q) + Len(s)
      /\ \A j \in Len(q) + 1 .. Len(q) + Len(s) : (q \o s)[j] = s[j - Len(q)]
  OBVIOUS
<1> DEFINE i == Len(q) + k
<1>3. i \in 0 .. Len(q \o s) /\ i # 0 /\ (q \o s)[i] \in Good
  BY <1>2
<1>4. \A j \in i + 1 .. Len(q \o s) : (q \o s)[j] \notin Rel
  BY <1>2
<1>5. (IF i = 0 THEN b ELSE (q \o s)[i]) \in Good
  BY <1>3
<1> HIDE DEF i
<1> QED
  BY <1>3, <1>4, <1>5, Zenon DEF Latest

\* What is appended.
LEMMA AppendIsConcat ==
  ASSUME NEW S, NEW q \in Seq(S), NEW e \in S
  PROVE  Append(q, e) = q \o <<e>>
  OBVIOUS

\* An element is replaced.
LEMMA Replaced ==
  ASSUME NEW S, NEW q \in Seq(S), NEW i \in 1 .. Len(q), NEW e \in S
  PROVE  /\ [q EXCEPT ![i] = e] \in Seq(S) /\ Len([q EXCEPT ![i] = e]) = Len(q)
         /\ [q EXCEPT ![i] = e][i] = e
         /\ \A j \in 1 .. Len(q) : j # i => [q EXCEPT ![i] = e][j] = q[j]
  OBVIOUS

LEMMA MaxIs ==
  ASSUME NEW a \in Int, NEW b \in Int
  PROVE  /\ Max(a, b) \in {a, b} /\ Max(a, b) >= a /\ Max(a, b) >= b
  BY DEF Max

\* A sequence is filled up to a length.
LEMMA Padded ==
  ASSUME NEW S, NEW q \in Seq(S), NEW n \in Nat, NEW e \in S,
         NEW more \in Seq(S), Len(more) = Max(0, n - Len(q)),
         \A i \in 1 .. Len(more) : more[i] = e
  PROVE  /\ q \o more \in Seq(S) /\ Len(q \o more) = Max(Len(q), n)
         /\ \A i \in 1 .. Len(q) : (q \o more)[i] = q[i]
         /\ \A i \in Len(q) + 1 .. Len(q \o more) : (q \o more)[i] = e
<1>1. Len(more) \in Nat /\ Len(q) \in Nat /\ Len(q) + Len(more) = Max(Len(q), n)
  BY DEF Max
<1>2. /\ q \o more \in Seq(S) /\ Len(q \o more) = Len(q) + Len(more)
      /\ \A i \in 1 .. Len(q) : (q \o more)[i] = q[i]
      /\ \A i \in Len(q) + 1 .. Len(q) + Len(more) : (q \o more)[i] = more[i - Len(q)]
  BY <1>1
<1>3. \A i \in Len(q) + 1 .. Len(q) + Len(more) : i - Len(q) \in 1 .. Len(more)
  BY <1>1
<1> QED
  BY <1>1, <1>2, <1>3

\* The same of one element.
LEMMA LatestOther ==
  ASSUME NEW S, NEW q \in Seq(S), NEW e \in S, NEW b, NEW Rel, NEW Good,
         Latest(q, b, Rel, Good), e \notin Rel
  PROVE  Latest(Append(q, e), b, Rel, Good)
<1>1. Append(q, e) = q \o <<e>> /\ <<e>> \in Seq(S) /\ Len(<<e>>) = 1 /\ <<e>>[1] = e
  BY AppendIsConcat
<1>2. \A j \in 1 .. Len(<<e>>) : <<e>>[j] \notin Rel
  BY <1>1
<1> QED
  BY <1>1, <1>2, LatestOthers

LEMMA LatestGood ==
  ASSUME NEW S, NEW q \in Seq(S), NEW e \in S, NEW b, NEW Rel, NEW Good, e \in Good
  PROVE  Latest(Append(q, e), b, Rel, Good)
<1>1. /\ Append(q, e) = q \o <<e>> /\ <<e>> \in Seq(S) /\ Len(<<e>>) = 1 /\ <<e>>[1] = e
      /\ 1 \in 1 .. Len(<<e>>) /\ \A j \in 1 + 1 .. Len(<<e>>) : <<e>>[j] \notin Rel
  BY AppendIsConcat
<1> QED
  BY <1>1, LatestLater

\* Elements change, but not what they are about nor what they tell.
LEMMA LatestMap ==
  ASSUME NEW q, NEW q2, NEW b, NEW b2, NEW Rel, NEW Rel2, NEW Good, NEW Good2,
         Latest(q, b, Rel, Good), Len(q2) = Len(q),
         \A i \in 1 .. Len(q) : /\ q[i] \in Good => q2[i] \in Good2
                                /\ q2[i] \in Rel2 => q[i] \in Rel,
         b \in Good => b2 \in Good2, Len(q) \in Nat
  PROVE  Latest(q2, b2, Rel2, Good2)
<1>1. PICK i \in 0 .. Len(q) : /\ (IF i = 0 THEN b ELSE q[i]) \in Good
                               /\ \A j \in i + 1 .. Len(q) : q[j] \notin Rel
  BY DEF Latest
<1>2. i \in 0 .. Len(q2) /\ (IF i = 0 THEN b2 ELSE q2[i]) \in Good2
  BY <1>1
<1>3. \A j \in i + 1 .. Len(q2) : q2[j] \notin Rel2
  BY <1>1
<1> QED
  BY <1>2, <1>3, Zenon DEF Latest

-----------------------------------------------------------------------------
(* Ports, units and channels *)

LEMMA TimesMonotone ==
  ASSUME NEW a \in Nat, NEW b \in Nat, NEW c \in Nat, a <= b
  PROVE  a * c <= b * c /\ a * c \in Nat /\ (a + 1) * c = a * c + c
  BY SMT

\* A port the chain has is a port.
LEMMA AllowedPort ==
  ASSUME NEW n \in 0 .. MaxUnits, NEW port \in Nat, port < n * Channels
  PROVE  port \in Ports
<1>1. n * Channels <= MaxUnits * Channels /\ n * Channels \in Nat /\ MaxUnits * Channels \in Nat
  BY TimesMonotone, ChainAssumption
<1> QED
  BY <1>1 DEF Ports

LEMMA VirtualPortIsPort ==
  ASSUME NEW u \in 1 .. MaxUnits, NEW ch \in 0 .. Channels - 1
  PROVE  VirtualPort(u, ch) \in Ports
<1> DEFINE v == u - 1
<1>1. v \in Nat /\ u \in Nat /\ v + 1 = u /\ v <= u /\ Channels \in Nat \ {0} /\ MaxUnits \in Nat
  BY ChainAssumption
<1>2. v * Channels \in Nat /\ u * Channels = v * Channels + Channels
  BY <1>1, TimesMonotone
<1>3. v * Channels + ch \in Nat /\ v * Channels + ch < u * Channels
  BY <1>1, <1>2
<1>4. v * Channels + ch \in Ports
  BY <1>1, <1>3, AllowedPort
<1> QED
  BY <1>4 DEF VirtualPort

LEMMA TargetIsChannel ==
  ASSUME NEW u, NEW port \in Nat
  PROVE  TargetChannel(u, port) \in 0 .. Channels
<1>1. port % Channels \in 0 .. Channels - 1
  BY ChainAssumption
<1> QED
  BY <1>1, ChainAssumption DEF TargetChannel

\* The lowest number of a set.
LEMMA LowestIsIn ==
  ASSUME NEW S \in SUBSET Nat, S # {}
  PROVE  (CHOOSE u \in S : \A v \in S : u <= v) \in S
<1>1. PICK x \in S : \A y \in S : ~(<<y, x>> \in OpToRel(<, Nat))
  BY NatLessThanWellFounded, WFMin
<1>2. \A y \in S : ~(y < x)
  BY <1>1 DEF OpToRel
<1>3. \A y \in S : x <= y
  BY <1>2
<1> QED
  BY <1>3

\* Ports are not the one that stands for none.
LEMMA PortsAreNat == Ports \subseteq Nat
  BY DEF Ports

-----------------------------------------------------------------------------
(* What clients are told *)

LEMMA ToldIs ==
  /\ Told("FULL") = {"summary", "ports"}
  /\ Told("SUMMARY") = {"summary"}
  /\ Told("EDIDS") = {"ports"}
<1>1. Told("FULL") = {"summary", "ports"}
  BY Zenon DEF Told
<1>2. Told("SUMMARY") = {"summary"}
  BY Zenon DEF Told
<1>3. Told("EDIDS") = {"ports"}
  BY Zenon DEF Told
<1> QED
  BY <1>1, <1>2, <1>3

\* All that changed is told.
LEMMA BumpTells ==
  ASSUME NEW masks, missed = {}, Bump(masks),
         \A part \in Changed : \E m \in masks : part \in Told(m)
  PROVE  missed' = {}
  BY DEF Bump

\* The ports that are shown do not depend on the active one nor on the flag.
LEMMA SameUsed ==
  ASSUME cache'.units = cache.units, cache'.edids = cache.edids
  PROVE  UsedEdids(cache)' = UsedEdids(cache)
<1>1. UsedEdids(cache') = UsedEdids(cache)
  BY DEF UsedEdids
<1> QED
  BY <1>1

LEMMA TruncateTells ==
  ASSUME missed = {}, NEW n, Truncate(n)
  PROVE  missed' = {}
<1>1. CASE Len(cache.units) > n
  <2>1. Bump({"FULL"})
    BY <1>1 DEF Truncate
  <2>2. Changed \subseteq {"summary", "ports"}
    BY DEF Changed
  <2> QED
    BY <2>1, <2>2, BumpTells, ToldIs
<1>2. CASE ~(Len(cache.units) > n)
  BY <1>2 DEF Truncate, cacheVars
<1> QED
  BY <1>1, <1>2

LEMMA PortTells ==
  ASSUME missed = {}, CacheTyped, NEW port, UpdateActivePort(port)
  PROVE  missed' = {}
<1>1. cache'.units = cache.units /\ cache'.edids = cache.edids
  BY DEF UpdateActivePort, Recached, CacheTyped, Caches
<1>2. Changed \subseteq {"summary"}
  BY <1>1, SameUsed DEF Changed
<1>3. Bump(Summary(cache'.active # cache.active \/ cache'.synced # cache.synced))
  BY DEF UpdateActivePort
<1>4. CASE cache'.active # cache.active \/ cache'.synced # cache.synced
  <2>1. "SUMMARY" \in Summary(cache'.active # cache.active \/ cache'.synced # cache.synced)
    BY <1>4 DEF Summary
  <2> QED
    BY <1>2, <1>3, <2>1, BumpTells, ToldIs
<1>5. CASE cache'.active = cache.active /\ cache'.synced = cache.synced
  <2>1. Changed = {}
    BY <1>2, <1>5 DEF Changed
  <2> QED
    BY <1>3, <2>1, BumpTells
<1> QED
  BY <1>4, <1>5

\* The contexts up to a unit: those there are, and new ones.
LEMMA EnsuredUnits ==
  ASSUME CacheTyped, NEW u \in Nat \ {0}
  PROVE  /\ EnsureUnit(u) \in Seq(InfoType)
         /\ Len(EnsureUnit(u)) = Max(Len(cache.units), u)
         /\ \A v \in 1 .. Len(cache.units) : EnsureUnit(u)[v] = cache.units[v]
         /\ \A v \in Len(cache.units) + 1 .. Len(EnsureUnit(u)) : EnsureUnit(u)[v] = NewInfo
<1>1. cache.units \in Seq(InfoType)
  BY DEF CacheTyped, Caches
<1>2. NewInfo \in InfoType
  BY DEF NewInfo, InfoType
<1> DEFINE n == Max(0, u - Len(cache.units))
           more == [i \in 1 .. n |-> NewInfo]
<1>3. EnsureUnit(u) = cache.units \o more
  BY DEF EnsureUnit
<1>4. Len(cache.units) \in Nat /\ n \in Nat
  BY <1>1 DEF Max
<1> HIDE DEF n
<1>5. more \in Seq(InfoType) /\ Len(more) = n /\ \A i \in 1 .. n : more[i] = NewInfo
  BY <1>2, <1>4
<1> HIDE DEF more
<1>6. Len(more) = Max(0, u - Len(cache.units))
  BY <1>5 DEF n
<1> QED
  BY <1>1, <1>2, <1>3, <1>5, <1>6, Padded

\* What a unit says is stored, and no more.
LEMMA StateStored ==
  ASSUME CacheTyped, NEW u \in Nat \ {0}, NEW new \in StateType, UpdateUnitState(u, new)
  PROVE  /\ cache' \in Caches
         /\ cache'.active = cache.active /\ cache'.edids = cache.edids
         /\ cache'.units = [EnsureUnit(u) EXCEPT ![u].state = new]
<1> DEFINE stored == [cache EXCEPT !.units = [EnsureUnit(u) EXCEPT ![u].state = new]]
<1>1. /\ EnsureUnit(u) \in Seq(InfoType) /\ Len(EnsureUnit(u)) \in Nat
      /\ u \in 1 .. Len(EnsureUnit(u))
  <2>1. Len(cache.units) \in Nat
    BY DEF CacheTyped, Caches
  <2> QED
    BY <2>1, EnsuredUnits DEF Max
<1>2. [EnsureUnit(u) EXCEPT ![u].state = new] \in Seq(InfoType)
  <2>1. EnsureUnit(u)[u] \in InfoType
    BY <1>1
  <2>2. [EnsureUnit(u)[u] EXCEPT !.state = new] \in InfoType
    BY <2>1 DEF InfoType
  <2> QED
    BY <1>1, <2>2, Replaced
<1>3. /\ stored \in Caches /\ stored.active = cache.active /\ stored.edids = cache.edids
      /\ stored.units = [EnsureUnit(u) EXCEPT ![u].state = new]
  BY <1>2 DEF CacheTyped, Caches
<1>4. cache' = stored \/ cache' = Recached(stored)
  BY DEF UpdateUnitState
<1>5. CheckSynced(stored.units, stored.active, stored.edids) \in BOOLEAN
  BY Zenon DEF CheckSynced
<1> HIDE DEF stored
<1>6. /\ Recached(stored) \in Caches /\ Recached(stored).active = stored.active
      /\ Recached(stored).edids = stored.edids /\ Recached(stored).units = stored.units
  BY <1>3, <1>5 DEF Recached, Caches
<1> QED
  BY <1>3, <1>4, <1>6

\* Ports are shown only while every unit is known.
LEMMA UsedChanges ==
  ASSUME Ready(cache'.units) => /\ Ready(cache.units)
                                /\ Len(cache'.units) = Len(cache.units)
                                /\ cache'.edids = cache.edids
  PROVE  "ports" \notin Changed
<1>1. CASE ~Ready(cache'.units)
  BY <1>1 DEF Changed
<1>2. CASE Ready(cache'.units)
  <2>1. CachedPorts(cache'.units) = CachedPorts(cache.units)
    BY <1>2 DEF CachedPorts
  <2>2. UsedEdids(cache') = UsedEdids(cache)
    BY <1>2, <2>1 DEF UsedEdids
  <2> QED
    BY <2>2 DEF Changed
<1> QED
  BY <1>1, <1>2

LEMMA StateTells ==
  ASSUME missed = {}, CacheTyped, NEW u \in Nat \ {0}, NEW new \in StateType,
         UpdateUnitState(u, new)
  PROVE  missed' = {}
<1> DEFINE E == EnsureUnit(u)
           us == [E EXCEPT ![u].state = new]
           stored == [cache EXCEPT !.units = us]
<1>1. /\ cache'.units = us /\ cache'.active = cache.active /\ cache'.edids = cache.edids
      /\ stored.units = us /\ stored.active = cache.active /\ stored.synced = cache.synced
  BY StateStored DEF CacheTyped, Caches
<1>2. /\ Len(cache.units) \in Nat /\ Len(E) = Max(Len(cache.units), u) /\ E \in Seq(InfoType)
      /\ \A v \in 1 .. Len(cache.units) : E[v] = cache.units[v]
      /\ \A v \in Len(cache.units) + 1 .. Len(E) : E[v] = NewInfo
  BY EnsuredUnits DEF CacheTyped, Caches
<1>3. u \in 1 .. Len(E)
  BY <1>2 DEF Max
<1>4. /\ Len(us) = Len(E) /\ \A v \in 1 .. Len(E) : v # u => us[v] = E[v]
      /\ us[u] = [E[u] EXCEPT !.state = new]
  BY <1>2, <1>3
<1>5. CASE ~Ready(us) /\ cache' = stored /\ Bump({})
  <2>1. "ports" \notin Changed
    BY <1>1, <1>5, UsedChanges
  <2>2. "summary" \notin Changed
    BY <1>1, <1>5 DEF Changed
  <2> QED
    BY <1>5, <2>1, <2>2, BumpTells DEF Changed
<1>6. CASE Bump({"FULL"})
  BY <1>6, BumpTells, ToldIs DEF Changed
<1>7. CASE /\ Ready(us) /\ E[u].state # NoState
           /\ Bump(Summary(cache'.synced # cache.synced))
  <2>1. u \in 1 .. Len(cache.units) /\ Len(us) = Len(cache.units)
    BY <1>2, <1>3, <1>4, <1>7 DEF Max, NewInfo
  <2>2. us[u].leds = E[u].leds
    BY <1>2, <1>3, <1>4 DEF InfoType
  <2>3. ASSUME NEW v \in 1 .. Len(cache.units)
        PROVE  cache.units[v].state # NoState /\ cache.units[v].leds
    <3>1. us[v].state # NoState /\ us[v].leds
      BY <1>7, <2>1 DEF Ready
    <3> QED
      BY <1>2, <1>4, <1>7, <2>1, <2>2, <3>1
  <2>4. Ready(cache.units)
    BY <2>3 DEF Ready
  <2>5. "ports" \notin Changed
    BY <1>1, <2>1, <2>4, UsedChanges
  <2>6. "summary" \in Changed => cache'.synced # cache.synced
    BY <1>1 DEF Changed
  <2>7. cache'.synced # cache.synced => "SUMMARY" \in Summary(cache'.synced # cache.synced)
    BY DEF Summary
  <2> QED
    BY <1>7, <2>5, <2>6, <2>7, BumpTells, ToldIs DEF Changed
<1> HIDE DEF E, us, stored
<1>8. \/ ~Ready(us) /\ cache' = stored /\ Bump({})
      \/ Bump({"FULL"})
      \/ Ready(us) /\ E[u].state # NoState /\ Bump(Summary(cache'.synced # cache.synced))
  BY <1>1, Zenon DEF UpdateUnitState, E, us, stored
<1> QED
  BY <1>5, <1>6, <1>7, <1>8

LEMMA LedsStored ==
  ASSUME CacheTyped, NEW u \in Nat \ {0}, UpdateUnitLeds(u)
  PROVE  /\ cache' \in Caches
         /\ cache'.active = cache.active /\ cache'.edids = cache.edids
         /\ cache'.synced = cache.synced
         /\ cache'.units = [EnsureUnit(u) EXCEPT ![u].leds = TRUE]
<1>1. EnsureUnit(u) \in Seq(InfoType) /\ u \in 1 .. Len(EnsureUnit(u))
  <2>1. Len(cache.units) \in Nat
    BY DEF CacheTyped, Caches
  <2> QED
    BY <2>1, EnsuredUnits DEF Max
<1>2. [EnsureUnit(u) EXCEPT ![u].leds = TRUE] \in Seq(InfoType)
  <2>1. EnsureUnit(u)[u] \in InfoType
    BY <1>1
  <2>2. [EnsureUnit(u)[u] EXCEPT !.leds = TRUE] \in InfoType
    BY <2>1 DEF InfoType
  <2> QED
    BY <1>1, <2>2, Replaced
<1> QED
  BY <1>2 DEF CacheTyped, Caches, UpdateUnitLeds

LEMMA LedsTell ==
  ASSUME missed = {}, CacheTyped, NEW u \in Nat \ {0}, UpdateUnitLeds(u)
  PROVE  missed' = {}
<1> DEFINE E == EnsureUnit(u)
           us == [E EXCEPT ![u].leds = TRUE]
<1>1. /\ cache'.units = us /\ cache'.active = cache.active /\ cache'.edids = cache.edids
      /\ cache'.synced = cache.synced
  BY LedsStored
<1>2. /\ Len(cache.units) \in Nat /\ Len(E) = Max(Len(cache.units), u) /\ E \in Seq(InfoType)
      /\ \A v \in 1 .. Len(cache.units) : E[v] = cache.units[v]
      /\ \A v \in Len(cache.units) + 1 .. Len(E) : E[v] = NewInfo
  <2>1. Len(cache.units) \in Nat
    BY DEF CacheTyped, Caches
  <2> QED
    BY <2>1, EnsuredUnits, Zenon
<1>3. u \in 1 .. Len(E)
  <2> HIDE DEF E
  <2> QED
    BY <1>2 DEF Max
<1>4. /\ Len(us) = Len(E) /\ \A v \in 1 .. Len(E) : v # u => us[v] = E[v]
      /\ us[u] = [E[u] EXCEPT !.leds = TRUE]
  BY <1>2, <1>3
<1>5. "summary" \notin Changed
  BY <1>1 DEF Changed
<1>6. CASE Ready(us) /\ ~E[u].leds
  <2>1. Bump({"FULL"})
    BY <1>1, <1>6 DEF UpdateUnitLeds
  <2> QED
    BY <2>1, BumpTells, ToldIs DEF Changed
<1>7. CASE ~(Ready(us) /\ ~E[u].leds)
  <2>1. Bump({})
    BY <1>1, <1>7 DEF UpdateUnitLeds
  <2>2. ASSUME Ready(us)
        PROVE  Ready(cache.units) /\ Len(us) = Len(cache.units)
    <3>1. E[u].leds
      BY <1>7, <2>2
    <3>2. ~NewInfo.leds
      BY DEF NewInfo
    <3>3. u \in 1 .. Len(cache.units) /\ Len(us) = Len(cache.units)
      BY <1>2, <1>3, <1>4, <3>1, <3>2 DEF Max
    <3>4. us[u].state = E[u].state
      BY <1>2, <1>3, <1>4 DEF InfoType
    <3>5. ASSUME NEW v \in 1 .. Len(cache.units)
          PROVE  cache.units[v].state # NoState /\ cache.units[v].leds
      <4>1. us[v].state # NoState /\ us[v].leds
        BY <2>2, <3>3 DEF Ready
      <4> QED
        BY <1>2, <1>4, <3>1, <3>3, <3>4, <4>1
    <3> QED
      BY <3>3, <3>5 DEF Ready
  <2>3. "ports" \notin Changed
    BY <1>1, <2>2, UsedChanges
  <2> QED
    BY <1>5, <2>1, <2>3, BumpTells DEF Changed
<1> QED
  BY <1>6, <1>7

LEMMA EdidsTell ==
  ASSUME missed = {}, CacheTyped, NEW c \in Edids, SetEdids(c)
  PROVE  /\ missed' = {} /\ cache' \in Caches
         /\ cache'.units = cache.units /\ cache'.active = cache.active
         /\ cache'.edids = c
<1>1. /\ cache' \in Caches /\ cache'.units = cache.units /\ cache'.active = cache.active
      /\ cache'.synced = cache.synced /\ cache'.edids = c
  BY DEF SetEdids, CacheTyped, Caches
<1>2. "summary" \notin Changed
  BY <1>1 DEF Changed
<1>3. CASE \E p \in CachedPorts(cache.units) : c[p] # cache.edids[p]
  <2>1. Bump({"EDIDS"})
    BY <1>3 DEF SetEdids
  <2> QED
    BY <1>1, <1>2, <2>1, BumpTells, ToldIs DEF Changed
<1>4. CASE \A p \in CachedPorts(cache.units) : c[p] = cache.edids[p]
  <2>1. Bump({})
    BY <1>4 DEF SetEdids
  <2>2. UsedEdids(cache') = UsedEdids(cache)
    BY <1>1, <1>4 DEF UsedEdids
  <2>3. "ports" \notin Changed
    BY <2>2 DEF Changed
  <2> QED
    BY <1>1, <1>2, <2>1, <2>3, BumpTells DEF Changed
<1> QED
  BY <1>1, <1>3, <1>4

-----------------------------------------------------------------------------
(* Requests and responses *)

\* Whose a message is can change, and nothing else of it: q2 is q with other
\* marks.
Remarked(q2, q) ==
  \E mark \in [1 .. Len(q) -> BOOLEAN] :
    q2 = [i \in 1 .. Len(q) |-> [q[i] EXCEPT !.mine = mark[i]]]

LEMMA RemarkedRequests ==
  ASSUME NEW q \in Seq(Requests), NEW q2, Remarked(q2, q)
  PROVE  /\ q2 \in Seq(Requests) /\ Len(q2) = Len(q)
         /\ \A i \in 1 .. Len(q) : q2[i].op = q[i].op
<1>1. PICK mark \in [1 .. Len(q) -> BOOLEAN] :
             q2 = [i \in 1 .. Len(q) |-> [q[i] EXCEPT !.mine = mark[i]]]
  BY DEF Remarked
<1>2. ASSUME NEW i \in 1 .. Len(q)
      PROVE  q2[i] \in Requests /\ q2[i].op = q[i].op
  <2>1. q[i] \in Requests /\ mark[i] \in BOOLEAN
    OBVIOUS
  <2>2. q2[i] = [q[i] EXCEPT !.mine = mark[i]]
    BY <1>1
  <2> QED
    BY <2>1, <2>2 DEF Requests
<1> QED
  BY <1>1, <1>2

LEMMA RemarkedMessages ==
  ASSUME NEW q \in Seq(Messages), NEW q2, Remarked(q2, q)
  PROVE  /\ q2 \in Seq(Messages) /\ Len(q2) = Len(q)
         /\ \A i \in 1 .. Len(q) : /\ q2[i].op = q[i].op /\ q2[i].unit = q[i].unit
                                   /\ q2[i].state = q[i].state
<1>1. PICK mark \in [1 .. Len(q) -> BOOLEAN] :
             q2 = [i \in 1 .. Len(q) |-> [q[i] EXCEPT !.mine = mark[i]]]
  BY DEF Remarked
<1>2. ASSUME NEW i \in 1 .. Len(q)
      PROVE  /\ q2[i] \in Messages /\ q2[i].op = q[i].op
             /\ q2[i].unit = q[i].unit /\ q2[i].state = q[i].state
  <2>1. q[i] \in Messages /\ mark[i] \in BOOLEAN
    OBVIOUS
  <2>2. q2[i] = [q[i] EXCEPT !.mine = mark[i]]
    BY <1>1
  <2> DEFINE m == q[i]
             b == mark[i]
  <2>3. m \in Messages /\ b \in BOOLEAN
    BY <2>1
  <2>4. q2[i] = [m EXCEPT !.mine = b]
    BY <2>2
  <2> HIDE DEF m, b
  <2>5. /\ q2[i] \in Messages /\ q2[i].op = m.op /\ q2[i].unit = m.unit /\ q2[i].state = m.state
    <3>1. CASE m \in [op : {"state"}, unit : 1 .. MaxUnits, mine : BOOLEAN, state : StateType]
      BY <2>3, <2>4, <3>1 DEF Messages
    <3>2. CASE m \in [op : {"leds", "nak"}, unit : 1 .. MaxUnits, mine : BOOLEAN,
                      state : {NoState}]
      BY <2>3, <2>4, <3>2 DEF Messages
    <3> QED
      BY <2>3, <3>1, <3>2 DEF Messages
  <2> QED
    BY <2>5 DEF m
<1>3. Len(q) \in Nat /\ DOMAIN q2 = 1 .. Len(q)
  BY <1>1
<1>4. q2 \in Seq(Messages) /\ Len(q2) = Len(q)
  <2> HIDE DEF Messages
  <2>1. q2 \in [1 .. Len(q) -> Messages]
    BY <1>1, <1>2
  <2> QED
    BY <1>3, <2>1
<1> QED
  BY <1>2, <1>4

LEMMA DisownedIsRemarked ==
  ASSUME NEW q, NEW n
  PROVE  Remarked(Disowned(q, n), q)
<1> DEFINE mark == [i \in 1 .. Len(q) |-> q[i].mine /\ q[i].unit <= n]
<1>1. mark \in [1 .. Len(q) -> BOOLEAN]
  BY Zenon
<1>2. Disowned(q, n) = [i \in 1 .. Len(q) |-> [q[i] EXCEPT !.mine = mark[i]]]
  BY Zenon DEF Disowned
<1> QED
  BY <1>1, <1>2, Zenon DEF Remarked

LEMMA ForgottenIsRemarked ==
  ASSUME NEW q, NEW u
  PROVE  Remarked(Forgotten(q, u), q)
<1> DEFINE mark == [i \in 1 .. Len(q) |-> q[i].mine /\ q[i].unit # u]
<1>1. mark \in [1 .. Len(q) -> BOOLEAN]
  BY Zenon
<1>2. Forgotten(q, u) = [i \in 1 .. Len(q) |-> [q[i] EXCEPT !.mine = mark[i]]]
  BY Zenon DEF Forgotten
<1> QED
  BY <1>1, <1>2, Zenon DEF Remarked

\* What the units say is well formed.
LEMMA StateOfTyped ==
  ASSUME NEW h \in Seq(HwType), NEW u \in 1 .. Len(h)
  PROVE  StateOf(u, h) \in StateType /\ (StateOf(u, h).down <=> u < Len(h))
<1>1. h[u] \in HwType
  OBVIOUS
<1> DEFINE b == u < Len(h)
<1>2. b \in BOOLEAN
  OBVIOUS
<1>3. StateOf(u, h) = [ch |-> h[u].ch, busy |-> h[u].busy, edid |-> h[u].edid, down |-> b]
  BY DEF StateOf
<1>4. StateOf(u, h).down = b
  BY <1>3
<1> HIDE DEF b
<1>5. StateOf(u, h) \in StateType
  BY <1>1, <1>2, <1>3 DEF HwType, StateType
<1> QED
  BY <1>4, <1>5 DEF b

LEMMA StateMsgTyped ==
  ASSUME NEW h \in Seq(HwType), Len(h) <= MaxUnits, NEW u \in 1 .. Len(h), NEW b \in BOOLEAN
  PROVE  /\ StateMsg(u, h, b) \in Messages /\ StateMsg(u, h, b).op = "state"
         /\ StateMsg(u, h, b).unit = u /\ StateMsg(u, h, b).state = StateOf(u, h)
<1>1. u \in 1 .. MaxUnits
  BY ChainAssumption
<1> QED
  BY <1>1, StateOfTyped DEF StateMsg, Messages

\* A change is applied to a unit that exists.
LEMMA AppliedTyped ==
  ASSUME hw \in Seq(HwType), NEW r \in Requests, r.op \in {"switch", "edid"}, ~Refused(r)
  PROVE  /\ Applied(r) \in Seq(HwType) /\ Len(Applied(r)) = Len(hw)
         /\ r.unit \in 1 .. Len(hw)
         /\ \A u \in 1 .. Len(hw) : u # r.unit => Applied(r)[u] = hw[u]
<1>1. r.unit \in 1 .. Len(hw) /\ hw[r.unit] \in HwType
  BY DEF Refused, Requests
<1> DEFINE changed == [ch   |-> IF r.op = "switch" THEN r.ch ELSE hw[r.unit].ch,
                       edid |-> IF r.op = "edid" THEN [hw[r.unit].edid EXCEPT ![r.ch] = r.edid]
                                ELSE hw[r.unit].edid,
                       busy |-> TRUE]
<1>2. r.op = "switch" => r.ch \in 0 .. Channels
  BY DEF Requests
<1>3. r.op = "edid" => r.ch \in 0 .. Channels - 1 /\ r.edid \in EdidValues
  BY DEF Requests
<1>4. changed \in HwType
  BY <1>1, <1>2, <1>3 DEF HwType
<1>5. Applied(r) = [hw EXCEPT ![r.unit] = changed]
  BY DEF Applied
<1> HIDE DEF changed
<1> QED
  BY <1>1, <1>4, <1>5, Replaced

-----------------------------------------------------------------------------
(* What the subprocess makes of a response *)

LEMMA ExtendedUnits ==
  ASSUME units \in Seq(Contexts), NEW u \in Nat \ {0}
  PROVE  /\ Extended(u) \in Seq(Contexts)
         /\ Len(Extended(u)) = Max(Len(units), u)
         /\ \A v \in 1 .. Len(units) : Extended(u)[v] = units[v]
         /\ \A v \in Len(units) + 1 .. Len(Extended(u)) : Extended(u)[v] = NewUnit
<1> DEFINE n == Max(0, u - Len(units))
           more == [i \in 1 .. n |-> NewUnit]
<1>1. NewUnit \in Contexts
  BY DEF NewUnit, Contexts
<1>2. Extended(u) = units \o more
  BY DEF Extended
<1>3. Len(units) \in Nat /\ n \in Nat
  BY DEF Max
<1> HIDE DEF n
<1>4. more \in Seq(Contexts) /\ Len(more) = n /\ \A i \in 1 .. n : more[i] = NewUnit
  BY <1>1, <1>3
<1> HIDE DEF more
<1>5. Len(more) = Max(0, u - Len(units))
  BY <1>4 DEF n
<1> QED
  BY <1>1, <1>2, <1>4, <1>5, Padded

\* A response changes the state of the unit it is from, and forgets the units
\* behind one that has no downlink.
StateAfter(m, u) ==
  IF m.op = "state" /\ u = m.unit THEN m.state
  ELSE IF m.op = "state" /\ ~m.state.down /\ u > m.unit THEN NoState
  ELSE UnitState(u)

LEMMA KnownUnits ==
  ASSUME units \in Seq(Contexts), Len(units) <= MaxUnits, NEW m \in Messages
  PROVE  /\ Known(m) \in Seq(Contexts) /\ Len(Known(m)) <= MaxUnits
         /\ \A u \in 1 .. MaxUnits : StateIn(Known(m), u) = StateAfter(m, u)
<1> DEFINE us == Extended(m.unit)
           cut == IF m.op = "state" /\ ~m.state.down THEN Keep(us, m.unit) ELSE us
           ctx == [state   |-> IF m.op = "state" THEN m.state ELSE cut[m.unit].state,
                   leds    |-> cut[m.unit].leds \/ m.op = "leds",
                   pending |-> cut[m.unit].pending /\ ~m.mine]
<1>1. /\ m.unit \in 1 .. MaxUnits /\ m.op \in {"state", "leds", "nak"}
      /\ m.op = "state" => m.state \in StateType
  BY DEF Messages
<1>2. /\ us \in Seq(Contexts) /\ Len(us) = Max(Len(units), m.unit)
      /\ \A v \in 1 .. Len(units) : us[v] = units[v]
      /\ \A v \in Len(units) + 1 .. Len(us) : us[v] = NewUnit
  BY <1>1, ExtendedUnits
<1>3. /\ m.unit \in 1 .. Len(us) /\ Len(us) <= MaxUnits /\ Len(units) \in Nat
      /\ Len(units) <= Len(us)
  BY <1>1, <1>2, ChainAssumption DEF Max
<1>4. \A u \in 1 .. MaxUnits : StateIn(us, u) = UnitState(u)
  BY <1>2, <1>3 DEF StateIn, UnitState, NewUnit
<1> HIDE DEF us
<1>5. /\ cut \in Seq(Contexts) /\ m.unit \in 1 .. Len(cut) /\ Len(cut) <= Len(us)
      /\ \A v \in 1 .. Len(cut) : cut[v] = us[v]
      /\ Len(cut) = IF m.op = "state" /\ ~m.state.down THEN m.unit ELSE Len(us)
  BY <1>2, <1>3 DEF Keep
<1> HIDE DEF cut
<1>6. ctx \in Contexts
  <2>1. (cut[m.unit].leds \/ m.op = "leds") \in BOOLEAN
    BY Zenon
  <2>2. (cut[m.unit].pending /\ ~m.mine) \in BOOLEAN
    BY Zenon
  <2>3. (IF m.op = "state" THEN m.state ELSE cut[m.unit].state) \in StateType \cup {NoState}
    <3>1. cut[m.unit] \in Contexts
      BY <1>5
    <3> QED
      BY <1>1, <3>1 DEF Contexts
  <2> QED
    BY <2>1, <2>2, <2>3, Zenon DEF Contexts
<1>7. Known(m) = [cut EXCEPT ![m.unit] = ctx]
  BY Zenon DEF Known, cut, us
<1>8. ctx.state = IF m.op = "state" THEN m.state ELSE cut[m.unit].state
  BY Zenon
<1> HIDE DEF ctx
<1>9. /\ Known(m) \in Seq(Contexts) /\ Len(Known(m)) = Len(cut) /\ Known(m)[m.unit] = ctx
      /\ \A v \in 1 .. Len(cut) : v # m.unit => Known(m)[v] = cut[v]
  BY <1>5, <1>6, <1>7, Replaced
<1>10. ASSUME NEW u \in 1 .. MaxUnits
       PROVE  StateIn(Known(m), u) = StateAfter(m, u)
  <2>1. CASE u = m.unit
    BY <1>1, <1>4, <1>5, <1>8, <1>9, <2>1 DEF StateIn, StateAfter
  <2>2. CASE u # m.unit /\ u <= Len(cut)
    BY <1>1, <1>3, <1>4, <1>5, <1>9, <2>2 DEF StateIn, StateAfter
  <2>3. CASE u # m.unit /\ u > Len(cut)
    BY <1>1, <1>3, <1>4, <1>5, <1>9, <2>3 DEF StateIn, StateAfter
  <2> QED
    BY <1>1, <1>5, <2>1, <2>2, <2>3
<1>11. Len(Known(m)) <= MaxUnits
  BY <1>3, <1>5, <1>9, ChainAssumption
<1> QED
  BY <1>9, <1>10, <1>11, Zenon

\* The events of a response.
LEMMA ReportedOther ==
  ASSUME NEW m \in Messages
  PROVE  /\ m.op = "leds" => Reported(m) = <<UnitLedsEvent(m.unit)>>
         /\ m.op = "nak" => Reported(m) = <<>>
<1>1. m.op = "leds" => Reported(m) = <<UnitLedsEvent(m.unit)>>
  <2>1. "leds" # "state"
    OBVIOUS
  <2> QED
    BY <2>1, Zenon DEF Reported
<1>2. m.op = "nak" => Reported(m) = <<>>
  <2>1. "nak" # "state" /\ "nak" # "leds"
    OBVIOUS
  <2> QED
    BY <2>1, Zenon DEF Reported
<1> QED
  BY <1>1, <1>2

Truncates(m) == ~m.state.down /\ Len(Extended(m.unit)) > m.unit

LEMMA ReportedState ==
  ASSUME NEW m \in Messages, m.op = "state"
  PROVE  /\ Reported(m) \in Seq(Events)
         /\ Len(Reported(m)) = IF Truncates(m) THEN 2 ELSE 1
         /\ Reported(m)[Len(Reported(m))] = UnitStateEvent(m.unit, m.state)
         /\ Truncates(m) => Reported(m)[1] = ChainTruncated(m.unit)
<1> DEFINE t == IF Truncates(m) THEN <<ChainTruncated(m.unit)>> ELSE <<>>
           e == UnitStateEvent(m.unit, m.state)
<1>1. m.unit \in 1 .. MaxUnits /\ m.state \in StateType
  BY DEF Messages
<1>2. e \in Events
  BY <1>1 DEF Events, UnitStateEvent
<1>3. ChainTruncated(m.unit) \in Events
  BY <1>1, ChainAssumption DEF Events, ChainTruncated
<1>4. /\ t \in Seq(Events) /\ Len(t) = (IF Truncates(m) THEN 1 ELSE 0)
      /\ Truncates(m) => t[1] = ChainTruncated(m.unit)
  BY <1>3
<1>5. Reported(m) = t \o <<e>>
  BY Zenon DEF Reported, Truncates
<1> HIDE DEF t, e
<1>6. Reported(m) = Append(t, e)
  BY <1>2, <1>4, <1>5, AppendIsConcat
<1> QED
  BY <1>2, <1>4, <1>6 DEF e

LEMMA OneElement ==
  ASSUME NEW S, NEW e \in S
  PROVE  <<e>> \in Seq(S) /\ Len(<<e>>) = 1 /\ <<e>>[1] = e /\ <<e>> # <<>> /\ Head(<<e>>) = e
  OBVIOUS

LEMMA NothingAdded ==
  ASSUME NEW S
  PROVE  <<>> \in Seq(S) /\ Len(<<>>) = 0 /\ 1 .. Len(<<>>) = {}
  OBVIOUS

\* The start port is one of the chain's.
LEMMA StartPortTyped ==
  ASSUME NEW us \in Seq(Contexts), Len(us) <= MaxUnits
  PROVE  /\ StartPort(us) \in Seq(Commands)
         /\ \A i \in 1 .. Len(StartPort(us)) : StartPort(us)[i].type = "port"
<1> DEFINE showing == {u \in 1 .. Len(us) : us[u].state # NoState /\ us[u].state.ch < Channels}
           first == CHOOSE u \in showing : \A v \in showing : u <= v
           cmd == [type |-> "port", port |-> VirtualPort(first, us[first].state.ch)]
<1>1. CASE showing # {}
  <2>1. showing \in SUBSET Nat
    OBVIOUS
  <2>2. first \in showing
    BY <1>1, <2>1, LowestIsIn
  <2> HIDE DEF first
  <2>3. first \in 1 .. MaxUnits /\ us[first] \in Contexts /\ us[first].state # NoState
        /\ us[first].state.ch < Channels
    BY <2>2, ChainAssumption
  <2>4. us[first].state.ch \in 0 .. Channels - 1
    BY <2>3, ChainAssumption DEF Contexts, StateType
  <2>5. VirtualPort(first, us[first].state.ch) \in Ports
    BY <2>3, <2>4, VirtualPortIsPort
  <2>6. cmd \in Commands /\ cmd.type = "port"
    BY <2>5 DEF Commands
  <2>7. StartPort(us) = <<cmd>> \/ StartPort(us) = <<>>
    BY Zenon DEF StartPort, first
  <2> HIDE DEF cmd
  <2>8. <<cmd>> \in Seq(Commands) /\ \A i \in 1 .. Len(<<cmd>>) : <<cmd>>[i].type = "port"
    BY <2>6
  <2> QED
    BY <2>7, <2>8, NothingAdded
<1>2. CASE showing = {}
  <2>1. StartPort(us) = <<>>
    BY <1>2, Zenon DEF StartPort
  <2> QED
    BY <2>1, NothingAdded
<1> QED
  BY <1>1, <1>2

\* A unit that can be changed and needs it is sent one request.
Switched(u) == [op |-> "switch", unit |-> u, mine |-> TRUE, ch |-> TargetChannel(u, active)]
FirstWrong(u) ==
  CHOOSE c \in WrongEdids(u, units[u].state, edids) :
    \A d \in WrongEdids(u, units[u].state, edids) : c <= d
Written(u) == [op |-> "edid", unit |-> u, mine |-> TRUE, ch |-> FirstWrong(u),
               edid |-> edids[VirtualPort(u, FirstWrong(u))]]

LEMMA ChangeIs ==
  ASSUME NEW u
  PROVE  /\ ~CanBeChanged(units[u]) => Change(u) = <<>>
         /\ CanBeChanged(units[u]) /\ WrongPort(u, units[u].state) => Change(u) = <<Switched(u)>>
         /\ /\ CanBeChanged(units[u]) /\ ~WrongPort(u, units[u].state)
            /\ actual /\ WrongEdids(u, units[u].state, edids) # {}
            => Change(u) = <<Written(u)>>
         /\ /\ CanBeChanged(units[u]) /\ ~WrongPort(u, units[u].state)
            /\ ~(actual /\ WrongEdids(u, units[u].state, edids) # {})
            => Change(u) = <<>>
<1>1. ~CanBeChanged(units[u]) => Change(u) = <<>>
  BY Zenon DEF Change
<1>2. CanBeChanged(units[u]) /\ WrongPort(u, units[u].state) => Change(u) = <<Switched(u)>>
  BY Zenon DEF Change, Switched
<1>3. /\ CanBeChanged(units[u]) /\ ~WrongPort(u, units[u].state)
      /\ actual /\ WrongEdids(u, units[u].state, edids) # {}
      => Change(u) = <<Written(u)>>
  BY Zenon DEF Change, Written, FirstWrong
<1>4. /\ CanBeChanged(units[u]) /\ ~WrongPort(u, units[u].state)
      /\ ~(actual /\ WrongEdids(u, units[u].state, edids) # {})
      => Change(u) = <<>>
  BY Zenon DEF Change
<1> QED
  BY <1>1, <1>2, <1>3, <1>4

LEMMA ChangeTyped ==
  ASSUME ChainTyped, NEW u \in 1 .. MaxUnits, u <= Len(units), Change(u) # <<>>
  PROVE  Head(Change(u)) \in Requests
<1>1. CASE CanBeChanged(units[u]) /\ WrongPort(u, units[u].state)
  <2>1. active \in Nat
    BY <1>1, PortsAreNat DEF WrongPort, ChainTyped
  <2>2. Switched(u) \in Requests
    BY <2>1, TargetIsChannel DEF Switched, Requests
  <2> QED
    BY <1>1, <2>2, ChangeIs, OneElement
<1>2. CASE /\ CanBeChanged(units[u]) /\ ~WrongPort(u, units[u].state)
           /\ actual /\ WrongEdids(u, units[u].state, edids) # {}
  <2>1. WrongEdids(u, units[u].state, edids) \in SUBSET Nat
    BY DEF WrongEdids
  <2>2. FirstWrong(u) \in WrongEdids(u, units[u].state, edids)
    BY <1>2, <2>1, LowestIsIn DEF FirstWrong
  <2>3. FirstWrong(u) \in 0 .. Channels - 1
    BY <2>2 DEF WrongEdids
  <2>4. VirtualPort(u, FirstWrong(u)) \in Ports
    BY <2>3, VirtualPortIsPort
  <2>5. edids[VirtualPort(u, FirstWrong(u))] \in EdidValues
    BY <2>4 DEF EdidValues, ChainTyped
  <2>6. Written(u) \in Requests
    BY <2>3, <2>5 DEF Written, Requests
  <2> QED
    BY <1>2, <2>6, ChangeIs, OneElement
<1> QED
  BY <1>1, <1>2, ChangeIs

LEMMA ChangesTyped ==
  ASSUME ChainTyped, Len(units) <= MaxUnits, NEW requests \in Changes
  PROVE  requests \in Seq(Requests)
<1>1. PICK q \in [1 .. Cardinality(Changing) -> Changing] :
             requests = [i \in DOMAIN q |-> Head(Change(q[i]))]
  BY Zenon DEF Changes
<1>2. Cardinality(Changing) \in Nat
  <2>1. Len(units) \in Nat /\ Changing \in SUBSET (1 .. Len(units))
    BY DEF Changing, ChainTyped
  <2>2. IsFiniteSet(1 .. Len(units))
    BY <2>1, FS_Interval
  <2> QED
    BY <2>1, <2>2, FS_Subset, FS_CardinalityType
<1>3. ASSUME NEW u \in Changing
      PROVE  Head(Change(u)) \in Requests
  BY <1>3, ChangeTyped, ChainAssumption DEF Changing, ChainTyped
<1>4. DOMAIN q = 1 .. Cardinality(Changing) /\ \A i \in DOMAIN q : q[i] \in Changing
  OBVIOUS
<1>5. requests \in [1 .. Cardinality(Changing) -> Requests]
  BY <1>1, <1>3, <1>4, Zenon
<1> QED
  BY <1>2, <1>5

-----------------------------------------------------------------------------
(* What each action does *)

LEMMA TypedIsTypeOK == Typed => TypeOK
<1> SUFFICES ASSUME Typed
             PROVE  TypeOK
  OBVIOUS
<1>1. \A u \in 1 .. Len(units) : units[u] \in Contexts
  BY DEF Typed, ChainTyped
<1>2. \A u \in 1 .. Len(cache.units) : cache.units[u] \in InfoType
  BY DEF Typed, CacheTyped, Caches
<1>3. /\ cache.active \in Ports \cup {-1} /\ cache.synced \in BOOLEAN /\ cache.edids \in Edids
  BY DEF Typed, CacheTyped, Caches
<1> QED
  BY <1>1, <1>2, <1>3, Zenon DEF Typed, TypeOK, Flags, LineTyped, ChainTyped, CacheTyped, Contexts

LEMMA ConsumeDoes ==
  ASSUME Typed, Consume
  PROVE  /\ cmds # <<>> /\ Head(cmds) \in Commands /\ cmds' = Tail(cmds)
         /\ pc # "closed" /\ pc' = "cmds"
         /\ \/ active' = active /\ events' = events
            \/ active' \in Ports /\ events' = Append(events, PortActivated(active'))
         /\ edids' = IF Head(cmds).type = "edids" THEN Head(cmds).edids ELSE edids
         /\ req' = req \/ \E r \in Requests : req' = Append(req, r)
         /\ UNCHANGED <<plugged, hw, resp, torn, reported, units>> /\ actual' \in {actual, TRUE}
<1> DEFINE c == Head(cmds)
<1>1. /\ cmds # <<>> /\ cmds' = Tail(cmds) /\ pc # "closed" /\ pc' = "cmds"
      /\ UNCHANGED <<plugged, hw, resp, torn, reported, units>>
  BY DEF Consume
<1>2. c \in Commands
  BY <1>1 DEF Typed, ChainTyped
<1>3. /\ c.type = "port" => c.port \in Ports
      /\ c.type = "other" => c.unit \in 1 .. MaxUnits
  BY <1>2 DEF Commands
<1>4. Len(units) \in 0 .. MaxUnits /\ active \in Ports \cup {-1} /\ active \in Int
  BY PortsAreNat DEF Typed, ChainTyped
<1>5. \A p \in Nat : Allowed(p) => p \in Ports
  BY <1>4, AllowedPort DEF Allowed
<1> HIDE DEF c
<1>6. \/ c.type = "actual" /\ actual' = TRUE /\ UNCHANGED <<active, edids, events, req>>
      \/ /\ c.type = "prev" /\ UNCHANGED <<actual, edids, req>>
         /\ \/ active - 1 >= 0 /\ Activate(active - 1)
            \/ UNCHANGED <<active, events>>
      \/ /\ c.type = "next" /\ UNCHANGED <<actual, edids, req>>
         /\ \/ Allowed(Max(active + 1, 0)) /\ Activate(Max(active + 1, 0))
            \/ UNCHANGED <<active, events>>
      \/ /\ c.type = "port" /\ UNCHANGED <<actual, edids, req>>
         /\ \/ Allowed(c.port) /\ Activate(c.port)
            \/ UNCHANGED <<active, events>>
      \/ c.type = "edids" /\ edids' = c.edids /\ UNCHANGED <<active, actual, events, req>>
      \/ /\ c.type = "other" /\ UNCHANGED <<active, actual, edids, events>>
         /\ req' = Append(req, [op |-> "other", unit |-> c.unit, mine |-> FALSE])
  BY Zenon DEF Consume, c
<1>7. active - 1 >= 0 => active - 1 \in Ports
  BY <1>4, ChainAssumption DEF Ports
<1>8. Allowed(Max(active + 1, 0)) => Max(active + 1, 0) \in Ports
  <2>1. Max(active + 1, 0) \in Nat
    BY <1>4, MaxIs
  <2> QED
    BY <1>5, <2>1
<1>9. \A p \in Ports : Activate(p) => /\ active' \in Ports
                                      /\ events' = Append(events, PortActivated(active'))
  BY Zenon DEF Activate, Event
<1>10. \/ active' = active /\ events' = events
       \/ active' \in Ports /\ events' = Append(events, PortActivated(active'))
  BY <1>3, <1>6, <1>7, <1>8, <1>9
<1>11. edids' = IF c.type = "edids" THEN c.edids ELSE edids
  BY <1>6
<1>12. req' = req \/ \E r \in Requests : req' = Append(req, r)
  <2>1. c.type = "other" => [op |-> "other", unit |-> c.unit, mine |-> FALSE] \in Requests
    BY <1>3 DEF Requests
  <2> QED
    BY <1>6, <2>1
<1>13. actual' \in {actual, TRUE}
  BY <1>6
<1> QED
  BY <1>1, <1>2, <1>10, <1>11, <1>12, <1>13 DEF c

LEMMA ReadResponseDoes ==
  ASSUME Typed, ReadResponse
  PROVE  /\ resp # <<>> /\ Head(resp) \in Messages /\ plugged /\ ~torn /\ pc = "loop"
         /\ units' \in Seq(Contexts) /\ Len(units') <= MaxUnits
         /\ \A u \in 1 .. MaxUnits : StateIn(units', u) = StateAfter(Head(resp), u)
         /\ events' = events \o Reported(Head(resp))
         /\ \E s \in Seq(Commands) : /\ cmds' = cmds \o s
                                     /\ \A i \in 1 .. Len(s) : s[i].type = "port"
         /\ Remarked(resp', Tail(resp)) /\ Remarked(req', req)
         /\ UNCHANGED <<plugged, hw, torn, pc, reported, active, actual, edids>>
<1>1. /\ resp # <<>> /\ plugged /\ ~torn /\ pc = "loop"
      /\ units' = Known(Head(resp))
      /\ events' = events \o Reported(Head(resp))
      /\ cmds' = cmds \o StartPort(units')
      /\ resp' = Disowned(Tail(resp), Len(units'))
      /\ req' = Disowned(req, Len(units'))
      /\ UNCHANGED <<plugged, hw, torn, pc, reported, active, actual, edids>>
  BY Zenon DEF ReadResponse
<1>2. Head(resp) \in Messages
  BY <1>1 DEF Typed, LineTyped
<1>3. /\ units' \in Seq(Contexts) /\ Len(units') <= MaxUnits
      /\ \A u \in 1 .. MaxUnits : StateIn(units', u) = StateAfter(Head(resp), u)
  BY <1>1, <1>2, KnownUnits DEF Typed, ChainTyped
<1>4. \E s \in Seq(Commands) : cmds' = cmds \o s /\ \A i \in 1 .. Len(s) : s[i].type = "port"
  <2>1. /\ StartPort(units') \in Seq(Commands)
        /\ \A i \in 1 .. Len(StartPort(units')) : StartPort(units')[i].type = "port"
    BY <1>3, StartPortTyped
  <2> QED
    BY <1>1, <2>1
<1>5. Remarked(resp', Tail(resp)) /\ Remarked(req', req)
  BY <1>1, DisownedIsRemarked
<1> QED
  BY <1>1, <1>2, <1>3, <1>4, <1>5

\* A change of a context that leaves the state of its unit.
LEMMA SameStates ==
  ASSUME units \in Seq(Contexts), NEW us \in Seq(Contexts), Len(us) = Len(units),
         \A u \in 1 .. Len(units) : us[u].state = units[u].state
  PROVE  \A u \in 1 .. MaxUnits : StateIn(us, u) = UnitState(u)
  BY DEF StateIn, UnitState

LEMMA EnsureDoes ==
  ASSUME Typed, Ensure
  PROVE  /\ pc # "closed" /\ pc' = "loop" /\ plugged
         /\ \E s \in Seq(Requests) : req' = req \o s
         /\ units' \in Seq(Contexts) /\ Len(units') = Len(units)
         /\ \A u \in 1 .. MaxUnits : StateIn(units', u) = UnitState(u)
         /\ UNCHANGED <<plugged, hw, resp, torn, reported, active, actual, edids, cmds, events>>
<1>1. /\ pc # "closed" /\ pc' = "loop" /\ plugged
      /\ UNCHANGED <<plugged, hw, resp, torn, reported, active, actual, edids, cmds, events>>
  BY DEF Ensure
<1>2. \E s \in Seq(Requests) : req' = req \o s
  BY ChangesTyped DEF Ensure, Typed, ChainTyped
<1>3. units \in Seq(Contexts) /\ Len(units) \in Nat
  BY DEF Typed, ChainTyped
<1>4. units' = [u \in 1 .. Len(units) |-> [units[u] EXCEPT !.pending = @ \/ u \in Changing]]
  BY DEF Ensure
<1>5. ASSUME NEW u \in 1 .. Len(units)
      PROVE  units'[u] \in Contexts /\ units'[u].state = units[u].state
  <2> DEFINE b == units[u].pending \/ u \in Changing
  <2>1. b \in BOOLEAN
    BY Zenon
  <2>2. units'[u] = [units[u] EXCEPT !.pending = b]
    BY <1>4, Zenon
  <2> HIDE DEF b
  <2>3. units[u] \in Contexts
    BY <1>3
  <2> QED
    BY <2>1, <2>2, <2>3 DEF Contexts
<1>6. units' \in Seq(Contexts) /\ Len(units') = Len(units)
  BY <1>3, <1>4, <1>5
<1> QED
  BY <1>1, <1>2, <1>3, <1>5, <1>6, SameStates

LEMMA GiveUpDoes ==
  ASSUME Typed, NEW v \in 1 .. MaxUnits, GiveUp(v)
  PROVE  /\ units' \in Seq(Contexts) /\ Len(units') = Len(units)
         /\ \A u \in 1 .. MaxUnits : StateIn(units', u) = UnitState(u)
         /\ Remarked(req', req) /\ Remarked(resp', resp)
         /\ UNCHANGED <<plugged, hw, torn, pc, reported, active, actual, edids, cmds, events>>
<1>1. /\ units' = [units EXCEPT ![v].pending = FALSE] /\ v \in 1 .. Len(units)
      /\ req' = Forgotten(req, v) /\ resp' = Forgotten(resp, v)
      /\ UNCHANGED <<plugged, hw, torn, pc, reported, active, actual, edids, cmds, events>>
  BY DEF GiveUp, Typed, ChainTyped
<1>2. units \in Seq(Contexts) /\ units[v] \in Contexts
  BY <1>1 DEF Typed, ChainTyped
<1> DEFINE ctx == [units[v] EXCEPT !.pending = FALSE]
<1>3. ctx \in Contexts /\ ctx.state = units[v].state
  BY <1>2 DEF Contexts
<1>4. units' = [units EXCEPT ![v] = ctx]
  BY <1>1
<1> HIDE DEF ctx
<1>5. /\ units' \in Seq(Contexts) /\ Len(units') = Len(units)
      /\ \A u \in 1 .. Len(units) : units'[u].state = units[u].state
  <2>1. /\ units' \in Seq(Contexts) /\ Len(units') = Len(units) /\ units'[v] = ctx
        /\ \A u \in 1 .. Len(units) : u # v => units'[u] = units[u]
    <3>1. v \in 1 .. Len(units)
      BY <1>1
    <3> QED
      BY <1>2, <1>3, <1>4, <3>1, Replaced
  <2> QED
    BY <1>3, <2>1
<1>6. Remarked(req', req) /\ Remarked(resp', resp)
  BY <1>1, ForgottenIsRemarked
<1> QED
  BY <1>1, <1>2, <1>5, <1>6, SameStates

\* The events of a response are about its unit.
LEMMA ReportedTyped ==
  ASSUME NEW m \in Messages
  PROVE  /\ Reported(m) \in Seq(Events)
         /\ \A i \in 1 .. Len(Reported(m)) : Reported(m)[i].type \notin {"found", "port"}
<1>1. m.unit \in 1 .. MaxUnits /\ m.op \in {"state", "leds", "nak"}
  BY DEF Messages
<1>2. CASE m.op = "leds"
  <2>1. UnitLedsEvent(m.unit) \in Events /\ UnitLedsEvent(m.unit).type = "leds"
    BY <1>1 DEF UnitLedsEvent, Events
  <2>2. Reported(m) = <<UnitLedsEvent(m.unit)>>
    BY <1>2, ReportedOther
  <2> QED
    BY <2>1, <2>2
<1>3. CASE m.op = "nak"
  BY <1>3, ReportedOther, NothingAdded
<1>4. CASE m.op = "state"
  <2>1. /\ Reported(m) \in Seq(Events) /\ Len(Reported(m)) \in {1, 2}
        /\ Reported(m)[Len(Reported(m))].type = "state"
        /\ Len(Reported(m)) = 2 => Reported(m)[1].type = "truncated"
    <3>1. /\ UnitStateEvent(m.unit, m.state).type = "state"
          /\ ChainTruncated(m.unit).type = "truncated"
      BY DEF UnitStateEvent, ChainTruncated
    <3>2. CASE Truncates(m)
      BY <1>4, <3>1, <3>2, ReportedState
    <3>3. CASE ~Truncates(m)
      <4>1. /\ Reported(m) \in Seq(Events)
            /\ Reported(m)[Len(Reported(m))] = UnitStateEvent(m.unit, m.state)
        BY <1>4, ReportedState
      <4>2. Len(Reported(m)) = 1
        BY <1>4, <3>3, ReportedState, Zenon
      <4> QED
        BY <3>1, <4>1, <4>2
    <3> QED
      BY <3>2, <3>3
  <2> QED
    BY <2>1
<1> QED
  BY <1>1, <1>2, <1>3, <1>4

-----------------------------------------------------------------------------
(* Events *)

\* What the cache holds of a unit after an event.
CachedAfter(e, u) ==
  IF e.type = "state" /\ e.unit = u THEN e.state
  ELSE IF e.type = "truncated" /\ e.units < u THEN NoState
  ELSE CachedState(u)

LEMMA TruncateDoes ==
  ASSUME CacheTyped, NEW n \in 0 .. MaxUnits, Truncate(n)
  PROVE  /\ CacheTyped' /\ cache'.active = cache.active /\ cache'.edids = cache.edids
         /\ \A u \in 1 .. MaxUnits :
              StateIn(cache'.units, u) = IF n < u THEN NoState ELSE CachedState(u)
<1>1. cache.units \in Seq(InfoType) /\ Len(cache.units) \in 0 .. MaxUnits
  BY DEF CacheTyped, Caches
<1>2. CASE Len(cache.units) > n
  <2>1. cache' = [cache EXCEPT !.units = Keep(cache.units, n)]
    BY <1>2 DEF Truncate
  <2>2. /\ Keep(cache.units, n) \in Seq(InfoType) /\ Len(Keep(cache.units, n)) = n
        /\ \A v \in 1 .. n : Keep(cache.units, n)[v] = cache.units[v]
    BY <1>1, <1>2 DEF Keep
  <2>3. /\ cache' \in Caches /\ cache'.active = cache.active /\ cache'.edids = cache.edids
        /\ cache'.units = Keep(cache.units, n)
    BY <2>1, <2>2 DEF CacheTyped, Caches
  <2>4. CacheTyped'
    BY <2>2, <2>3 DEF CacheTyped
  <2>5. ASSUME NEW u \in 1 .. MaxUnits
        PROVE  StateIn(cache'.units, u) = IF n < u THEN NoState ELSE CachedState(u)
    BY <1>1, <1>2, <2>2, <2>3 DEF StateIn, CachedState
  <2> QED
    BY <2>3, <2>4, <2>5
<1>3. CASE ~(Len(cache.units) > n)
  <2>1. cache' = cache
    BY <1>3 DEF Truncate, cacheVars
  <2>2. CacheTyped'
    BY <2>1 DEF CacheTyped
  <2> QED
    BY <1>1, <1>3, <2>1, <2>2 DEF StateIn, CachedState
<1> QED
  BY <1>2, <1>3

LEMMA PortDoes ==
  ASSUME CacheTyped, NEW port \in Ports, UpdateActivePort(port)
  PROVE  /\ CacheTyped' /\ cache'.active = port /\ cache'.edids = cache.edids
         /\ cache'.units = cache.units
<1> DEFINE moved == [cache EXCEPT !.active = port]
<1>1. /\ moved \in Caches /\ moved.active = port /\ moved.edids = cache.edids
      /\ moved.units = cache.units
  BY DEF CacheTyped, Caches
<1>2. CheckSynced(moved.units, moved.active, moved.edids) \in BOOLEAN
  BY Zenon DEF CheckSynced
<1>3. cache' = Recached(moved)
  BY DEF UpdateActivePort
<1> HIDE DEF moved
<1>4. /\ cache' \in Caches /\ cache'.active = port /\ cache'.edids = cache.edids
      /\ cache'.units = cache.units
  BY <1>1, <1>2, <1>3 DEF Recached, Caches
<1> QED
  BY <1>4 DEF CacheTyped

\* A unit is stored.
LEMMA StoredDoes ==
  ASSUME CacheTyped, NEW u \in 1 .. MaxUnits, NEW info \in InfoType,
         cache' \in Caches, cache'.units = [EnsureUnit(u) EXCEPT ![u] = info]
  PROVE  /\ CacheTyped'
         /\ \A v \in 1 .. MaxUnits :
              StateIn(cache'.units, v) = IF v = u THEN info.state ELSE CachedState(v)
<1>1. cache.units \in Seq(InfoType) /\ Len(cache.units) \in 0 .. MaxUnits
  BY DEF CacheTyped, Caches
<1>2. /\ EnsureUnit(u) \in Seq(InfoType) /\ Len(EnsureUnit(u)) = Max(Len(cache.units), u)
      /\ \A v \in 1 .. Len(cache.units) : EnsureUnit(u)[v] = cache.units[v]
      /\ \A v \in Len(cache.units) + 1 .. Len(EnsureUnit(u)) : EnsureUnit(u)[v] = NewInfo
  <2>1. u \in Nat \ {0}
    BY ChainAssumption
  <2> QED
    BY <1>1, <2>1, EnsuredUnits
<1>3. /\ u \in 1 .. Len(EnsureUnit(u)) /\ Len(EnsureUnit(u)) <= MaxUnits
      /\ Len(cache.units) <= Len(EnsureUnit(u))
  BY <1>1, <1>2 DEF Max
<1>4. /\ Len(cache'.units) = Len(EnsureUnit(u)) /\ cache'.units[u] = info
      /\ \A v \in 1 .. Len(EnsureUnit(u)) : v # u => cache'.units[v] = EnsureUnit(u)[v]
  BY <1>2, <1>3, Replaced
<1>5. ASSUME NEW v \in 1 .. MaxUnits
      PROVE  StateIn(cache'.units, v) = IF v = u THEN info.state ELSE CachedState(v)
  BY <1>1, <1>2, <1>3, <1>4 DEF StateIn, CachedState, NewInfo
<1> QED
  BY <1>3, <1>4, <1>5 DEF CacheTyped

LEMMA HandleDoes ==
  ASSUME Typed, missed = {}, HandleEvent
  PROVE  /\ events # <<>> /\ Head(events) \in Events /\ events' = Tail(events) /\ ~loading
         /\ loading' = (Head(events).type = "found")
         /\ CacheTyped' /\ missed' = {} /\ cache'.edids = cache.edids
         /\ cache'.active = IF Head(events).type = "port" THEN Head(events).port ELSE cache.active
         /\ \A u \in 1 .. MaxUnits : StateIn(cache'.units, u) = CachedAfter(Head(events), u)
         /\ UNCHANGED <<plugged, hw, line, pc, reported, units, active, actual, edids, cmds,
                        loaded>>
<1> DEFINE e == Head(events)
<1>1. /\ events # <<>> /\ events' = Tail(events) /\ loading = FALSE
      /\ UNCHANGED <<plugged, hw, line, pc, reported, units, active, actual, edids, cmds, loaded>>
  BY DEF HandleEvent, chain, Typed, Flags
<1>2. e \in Events
  BY <1>1 DEF Typed, ChainTyped
<1>3. /\ e.type \in {"found", "truncated", "port", "state", "leds"}
      /\ e.type = "truncated" => e.units \in 0 .. MaxUnits
      /\ e.type = "port" => e.port \in Ports
      /\ e.type = "state" => e.unit \in 1 .. MaxUnits /\ e.state \in StateType
      /\ e.type = "leds" => e.unit \in 1 .. MaxUnits
  BY <1>2 DEF Events
<1>4. CacheTyped /\ MaxUnits \in Nat
  BY ChainAssumption DEF Typed
<1> HIDE DEF e
<1>5. CASE e.type = "found" /\ loading' = TRUE /\ UNCHANGED cacheVars
  <2>1. cache' = cache /\ missed' = missed
    BY <1>5 DEF cacheVars
  <2>2. \A u \in 1 .. MaxUnits : StateIn(cache'.units, u) = CachedAfter(e, u)
    BY <1>5, <2>1 DEF CachedAfter, CachedState
  <2>3. CacheTyped'
    BY <1>4, <2>1 DEF CacheTyped
  <2>4. loading' = (e.type = "found")
    BY <1>5
  <2> QED
    BY <1>1, <1>2, <1>5, <2>1, <2>2, <2>3, <2>4 DEF e
<1>6. CASE e.type = "truncated" /\ Truncate(e.units) /\ UNCHANGED loading
  <2>1. /\ CacheTyped' /\ cache'.active = cache.active /\ cache'.edids = cache.edids
        /\ \A u \in 1 .. MaxUnits :
             StateIn(cache'.units, u) = IF e.units < u THEN NoState ELSE CachedState(u)
    BY <1>3, <1>4, <1>6, TruncateDoes
  <2>2. \A u \in 1 .. MaxUnits : StateIn(cache'.units, u) = CachedAfter(e, u)
    BY <1>6, <2>1 DEF CachedAfter
  <2>3. missed' = {}
    BY <1>6, TruncateTells
  <2>4. loading' = (e.type = "found")
    BY <1>1, <1>6
  <2> QED
    BY <1>1, <1>2, <1>6, <2>1, <2>2, <2>3, <2>4 DEF e
<1>7. CASE e.type = "port" /\ UpdateActivePort(e.port) /\ UNCHANGED loading
  <2>1. /\ CacheTyped' /\ cache'.active = e.port /\ cache'.edids = cache.edids
        /\ cache'.units = cache.units
    BY <1>3, <1>4, <1>7, PortDoes
  <2>2. \A u \in 1 .. MaxUnits : StateIn(cache'.units, u) = CachedAfter(e, u)
    BY <1>7, <2>1 DEF CachedAfter, CachedState
  <2>3. missed' = {}
    BY <1>4, <1>7, PortTells
  <2>4. loading' = (e.type = "found")
    BY <1>1, <1>7
  <2> QED
    BY <1>1, <1>2, <1>7, <2>1, <2>2, <2>3, <2>4 DEF e
<1>8. CASE e.type = "state" /\ UpdateUnitState(e.unit, e.state) /\ UNCHANGED loading
  <2>1. /\ cache' \in Caches /\ cache'.active = cache.active /\ cache'.edids = cache.edids
        /\ cache'.units = [EnsureUnit(e.unit) EXCEPT ![e.unit].state = e.state]
        /\ missed' = {}
    BY <1>3, <1>4, <1>8, StateStored, StateTells
  <2> DEFINE info == [EnsureUnit(e.unit)[e.unit] EXCEPT !.state = e.state]
  <2>2. EnsureUnit(e.unit)[e.unit] \in InfoType
    <3>1. Len(cache.units) \in Nat /\ e.unit \in Nat \ {0}
      BY <1>3, <1>4, <1>8 DEF CacheTyped, Caches
    <3> QED
      BY <1>4, <3>1, EnsuredUnits DEF Max
  <2>3. info \in InfoType /\ info.state = e.state
    BY <1>3, <1>8, <2>2 DEF InfoType
  <2>4. cache'.units = [EnsureUnit(e.unit) EXCEPT ![e.unit] = info]
    BY <2>1
  <2> HIDE DEF info
  <2>5. CacheTyped' /\ \A u \in 1 .. MaxUnits :
          StateIn(cache'.units, u) = IF u = e.unit THEN e.state ELSE CachedState(u)
    BY <1>3, <1>4, <1>8, <2>1, <2>3, <2>4, StoredDoes
  <2>6. \A u \in 1 .. MaxUnits : StateIn(cache'.units, u) = CachedAfter(e, u)
    BY <1>8, <2>5 DEF CachedAfter
  <2>7. loading' = (e.type = "found")
    BY <1>1, <1>8
  <2> QED
    BY <1>1, <1>2, <1>8, <2>1, <2>5, <2>6, <2>7 DEF e
<1>9. CASE e.type = "leds" /\ UpdateUnitLeds(e.unit) /\ UNCHANGED loading
  <2>0. e.unit \in 1 .. MaxUnits /\ e.unit \in Nat \ {0} /\ UpdateUnitLeds(e.unit)
    BY <1>3, <1>4, <1>9
  <2>1. /\ cache' \in Caches /\ cache'.active = cache.active /\ cache'.edids = cache.edids
        /\ cache'.units = [EnsureUnit(e.unit) EXCEPT ![e.unit].leds = TRUE]
        /\ missed' = {}
    BY <1>4, <2>0, LedsStored, LedsTell
  <2> DEFINE info == [EnsureUnit(e.unit)[e.unit] EXCEPT !.leds = TRUE]
  <2>2. /\ EnsureUnit(e.unit)[e.unit] \in InfoType
        /\ EnsureUnit(e.unit)[e.unit].state = CachedState(e.unit)
    <3>1. Len(cache.units) \in Nat
      BY <1>4 DEF CacheTyped, Caches
    <3>2. /\ EnsureUnit(e.unit) \in Seq(InfoType) /\ e.unit \in 1 .. Len(EnsureUnit(e.unit))
          /\ \A v \in 1 .. Len(cache.units) : EnsureUnit(e.unit)[v] = cache.units[v]
          /\ \A v \in Len(cache.units) + 1 .. Len(EnsureUnit(e.unit)) :
               EnsureUnit(e.unit)[v] = NewInfo
      BY <1>4, <2>0, <3>1, EnsuredUnits DEF Max
    <3>3. CASE e.unit <= Len(cache.units)
      BY <2>0, <3>1, <3>2, <3>3 DEF CachedState, StateIn
    <3>4. CASE e.unit > Len(cache.units)
      BY <2>0, <3>1, <3>2, <3>4 DEF CachedState, StateIn, NewInfo
    <3> QED
      BY <2>0, <3>1, <3>2, <3>3, <3>4
  <2>3. info \in InfoType /\ info.state = CachedState(e.unit)
    BY <2>2 DEF InfoType
  <2>4. cache'.units = [EnsureUnit(e.unit) EXCEPT ![e.unit] = info]
    BY <2>1
  <2> HIDE DEF info
  <2>5. CacheTyped' /\ \A u \in 1 .. MaxUnits : StateIn(cache'.units, u) = CachedState(u)
    BY <1>3, <1>4, <1>9, <2>1, <2>3, <2>4, StoredDoes
  <2>6. \A u \in 1 .. MaxUnits : StateIn(cache'.units, u) = CachedAfter(e, u)
    BY <1>9, <2>5 DEF CachedAfter
  <2>7. loading' = (e.type = "found")
    BY <1>1, <1>9
  <2> QED
    BY <1>1, <1>2, <1>9, <2>1, <2>5, <2>6, <2>7 DEF e
<1>10. \/ e.type = "found" /\ loading' = TRUE /\ UNCHANGED cacheVars
       \/ e.type = "truncated" /\ Truncate(e.units) /\ UNCHANGED loading
       \/ e.type = "port" /\ UpdateActivePort(e.port) /\ UNCHANGED loading
       \/ e.type = "state" /\ UpdateUnitState(e.unit, e.state) /\ UNCHANGED loading
       \/ e.type = "leds" /\ UpdateUnitLeds(e.unit) /\ UNCHANGED loading
  BY Zenon DEF HandleEvent, e
<1> QED
  BY <1>5, <1>6, <1>7, <1>8, <1>9, <1>10

-----------------------------------------------------------------------------
(* What the units say *)

\* The last of the messages about the unit tells its state.
SaysOf(msgs, u, h) ==
  \E k \in 1 .. Len(msgs) :
    /\ msgs[k] \in {m \in About(u) : m.state = StateOf(u, h)}
    /\ \A j \in k + 1 .. Len(msgs) : msgs[j] \notin About(u)

Quiet(msgs, u) == \A j \in 1 .. Len(msgs) : msgs[j] \notin About(u)

\* The units say of themselves what changes, or everything.
Saying(msgs, all) ==
  /\ msgs \in Seq(Messages) /\ resp' = resp \o msgs /\ Len(resp') <= MaxLine
  /\ hw' \in Seq(HwType) /\ Len(hw') \in 1 .. Len(hw)
  /\ \A k \in 1 .. Len(msgs) :
       msgs[k].op = "state" /\ ~msgs[k].state.down => msgs[k].unit >= Len(hw')
  /\ \A u \in 1 .. Len(hw') :
       \/ SaysOf(msgs, u, hw')
       \/ ~all /\ Quiet(msgs, u) /\ StateOf(u, hw') = StateOf(u, hw)

\* One unit says what it has become.
LEMMA OneSays ==
  ASSUME LineTyped, NEW w, w \in 1 .. Len(hw'), NEW b \in BOOLEAN,
         hw' \in Seq(HwType), Len(hw') \in 1 .. Len(hw),
         Reply(<<StateMsg(w, hw', b)>>),
         \A u \in 1 .. Len(hw') : u # w => StateOf(u, hw') = StateOf(u, hw)
  PROVE  \E msgs : Saying(msgs, FALSE)
<1> DEFINE m == StateMsg(w, hw', b)
<1>1. /\ m \in Messages /\ m.op = "state" /\ m.unit = w /\ m.state = StateOf(w, hw')
      /\ ~m.state.down => w >= Len(hw')
  <2>1. Len(hw') <= MaxUnits /\ Len(hw') \in Nat
    BY ChainAssumption DEF LineTyped
  <2>2. /\ m \in Messages /\ m.op = "state" /\ m.unit = w /\ m.state = StateOf(w, hw')
    BY <2>1, StateMsgTyped
  <2>3. StateOf(w, hw').down <=> w < Len(hw')
    BY StateOfTyped
  <2> QED
    BY <2>1, <2>2, <2>3
<1>2. resp' = resp \o <<m>> /\ Len(resp) + Len(<<m>>) <= MaxLine
  BY DEF Reply
<1> HIDE DEF m
<1>3. <<m>> \in Seq(Messages) /\ Len(<<m>>) = 1 /\ <<m>>[1] = m
  BY <1>1
<1>4. Len(resp') <= MaxLine
  BY <1>2, <1>3 DEF LineTyped
<1>5. ASSUME NEW u \in 1 .. Len(hw')
      PROVE  \/ SaysOf(<<m>>, u, hw')
             \/ Quiet(<<m>>, u) /\ StateOf(u, hw') = StateOf(u, hw)
  <2>1. CASE u = w
    <3>1. 1 \in 1 .. Len(<<m>>) /\ \A j \in 1 + 1 .. Len(<<m>>) : <<m>>[j] \notin About(u)
      BY <1>3
    <3>2. <<m>>[1] \in {x \in About(u) : x.state = StateOf(u, hw')}
      BY <1>1, <1>3, <2>1 DEF About
    <3> QED
      BY <3>1, <3>2, Zenon DEF SaysOf
  <2>2. CASE u # w
    BY <1>1, <1>3, <2>2 DEF Quiet, About
  <2> QED
    BY <2>1, <2>2
<1>6. Saying(<<m>>, FALSE)
  BY <1>1, <1>2, <1>3, <1>4, <1>5 DEF Saying
<1> QED
  BY <1>6

LEMMA SettleDoes ==
  ASSUME Typed, NEW w \in 1 .. MaxUnits, Settle(w)
  PROVE  \E msgs : Saying(msgs, FALSE)
<1>1. /\ w \in 1 .. Len(hw) /\ hw' = [hw EXCEPT ![w].busy = FALSE]
      /\ Reply(<<StateMsg(w, hw', FALSE)>>)
  BY DEF Settle, Typed, LineTyped
<1>2. hw \in Seq(HwType) /\ hw[w] \in HwType /\ Len(hw) \in Nat \ {0}
  BY <1>1 DEF Typed, LineTyped
<1> DEFINE unit == [hw[w] EXCEPT !.busy = FALSE]
<1>3. unit \in HwType
  BY <1>2 DEF HwType
<1>4. hw' = [hw EXCEPT ![w] = unit]
  BY <1>1
<1> HIDE DEF unit
<1>5. /\ hw' \in Seq(HwType) /\ Len(hw') = Len(hw)
      /\ \A u \in 1 .. Len(hw) : u # w => hw'[u] = hw[u]
  <2>1. w \in 1 .. Len(hw)
    BY <1>1
  <2> QED
    BY <1>2, <1>3, <1>4, <2>1, Replaced
<1>6. \A u \in 1 .. Len(hw') : u # w => StateOf(u, hw') = StateOf(u, hw)
  BY <1>5 DEF StateOf
<1>7. Len(hw') \in 1 .. Len(hw) /\ w \in 1 .. Len(hw')
  BY <1>1, <1>2, <1>5
<1> QED
  BY <1>1, <1>5, <1>6, <1>7, OneSays DEF Typed

LEMMA ShortenDoes ==
  ASSUME Typed, NEW n \in 1 .. MaxUnits, Shorten(n)
  PROVE  /\ hw' \in Seq(HwType) /\ Len(hw') \in 1 .. Len(hw)
         /\ \/ plugged /\ \E msgs : Saying(msgs, FALSE)
            \/ ~plugged /\ resp' = resp
<1>1. /\ n < Len(hw) /\ hw' = Keep(hw, n)
      /\ IF plugged THEN Reply(<<StateMsg(n, hw', FALSE)>>) ELSE resp' = resp
  BY DEF Shorten
<1>2. /\ hw' \in Seq(HwType) /\ Len(hw') = n /\ Len(hw') \in 1 .. Len(hw) /\ n \in 1 .. Len(hw')
      /\ \A u \in 1 .. n : hw'[u] = hw[u]
  BY <1>1 DEF Keep, Typed, LineTyped
<1>3. ASSUME NEW u \in 1 .. Len(hw'), u # n
      PROVE  StateOf(u, hw') = StateOf(u, hw)
  <2>1. (u < Len(hw')) = TRUE /\ (u < Len(hw)) = TRUE /\ hw'[u] = hw[u]
    BY <1>1, <1>2, <1>3 DEF Typed, LineTyped
  <2> QED
    BY <2>1 DEF StateOf
<1>4. plugged => \E msgs : Saying(msgs, FALSE)
  BY <1>1, <1>2, <1>3, OneSays DEF Typed
<1> QED
  BY <1>1, <1>2, <1>4

LEMMA ServeDoes ==
  ASSUME Typed, Serve
  PROVE  /\ plugged /\ req # <<>> /\ req' = Tail(req)
         /\ \E msgs : Saying(msgs, Head(req).op = "state")
<1> DEFINE r == Head(req)
<1>1. plugged /\ req # <<>> /\ req' = Tail(req)
  BY DEF Serve
<1>2. /\ r \in Requests /\ r.mine \in BOOLEAN
      /\ r.op \in {"state", "leds", "switch", "edid", "other"}
      /\ r.op \notin {"state", "leds"} => r.unit \in 1 .. MaxUnits
  <2>1. r \in Requests
    BY <1>1 DEF Typed, LineTyped
  <2> QED
    BY <2>1 DEF Requests
<1>3. /\ LineTyped /\ hw \in Seq(HwType) /\ Len(hw) \in 1 .. MaxUnits /\ Len(hw) \in Nat \ {0}
      /\ MaxUnits \in Nat
  BY ChainAssumption DEF Typed, LineTyped
<1>4. resp \in Seq(Messages)
  BY DEF Typed, LineTyped
<1> HIDE DEF r
<1>5. CASE r.op = "state" /\ Reply([u \in 1 .. Len(hw) |-> StateMsg(u, hw, FALSE)]) /\ hw' = hw
  <2> DEFINE msgs == [u \in 1 .. Len(hw) |-> StateMsg(u, hw, FALSE)]
  <2>1. ASSUME NEW u \in 1 .. Len(hw)
        PROVE  /\ StateMsg(u, hw, FALSE) \in Messages /\ StateMsg(u, hw, FALSE).op = "state"
               /\ StateMsg(u, hw, FALSE).unit = u /\ StateMsg(u, hw, FALSE).state = StateOf(u, hw)
               /\ (StateOf(u, hw).down <=> u < Len(hw))
    <3>1. Len(hw) <= MaxUnits
      BY <1>3
    <3>2. (StateOf(u, hw).down <=> u < Len(hw))
      BY <1>3, StateOfTyped
    <3> QED
      BY <1>3, <3>1, <3>2, StateMsgTyped
  <2>2. /\ msgs \in Seq(Messages) /\ Len(msgs) = Len(hw)
        /\ \A u \in 1 .. Len(hw) : /\ msgs[u] \in Messages /\ msgs[u].op = "state"
                                   /\ msgs[u].unit = u /\ msgs[u].state = StateOf(u, hw)
                                   /\ (StateOf(u, hw).down <=> u < Len(hw))
    <3>1. \A u \in 1 .. Len(hw) : StateMsg(u, hw, FALSE) \in Messages
      BY <2>1
    <3>2. \A u \in 1 .. Len(hw) : msgs[u] = StateMsg(u, hw, FALSE)
      OBVIOUS
    <3>3. msgs \in Seq(Messages) /\ Len(msgs) = Len(hw)
      <4>1. Len(hw) \in Nat
        BY <1>3
      <4>2. msgs \in [1 .. Len(hw) -> Messages]
        BY <3>1, Zenon
      <4> HIDE DEF msgs
      <4> QED
        BY <4>1, <4>2
    <3> QED
      BY <2>1, <3>2, <3>3
  <2>3. resp' = resp \o msgs /\ Len(resp) + Len(msgs) <= MaxLine
    BY <1>5 DEF Reply
  <2> HIDE DEF msgs
  <2>4. Len(resp') <= MaxLine
    <3>1. msgs \in Seq(Messages)
      BY <2>2
    <3> QED
      BY <1>4, <2>3, <3>1
  <2>5. ASSUME NEW u \in 1 .. Len(hw)
        PROVE  SaysOf(msgs, u, hw)
    BY <1>3, <2>2 DEF SaysOf, About
  <2>6. \A k \in 1 .. Len(msgs) :
          msgs[k].op = "state" /\ ~msgs[k].state.down => msgs[k].unit >= Len(hw)
    BY <1>3, <2>2
  <2>7. Len(hw) \in 1 .. Len(hw)
    BY <1>3
  <2>8. Saying(msgs, TRUE)
    BY <1>3, <1>5, <2>2, <2>3, <2>4, <2>5, <2>6, <2>7 DEF Saying
  <2>9. (Head(req).op = "state") = TRUE
    BY <1>5 DEF r
  <2> QED
    BY <1>1, <2>8, <2>9
<1>6. ASSUME \E msgs : Saying(msgs, FALSE), r.op # "state"
      PROVE  \E msgs : Saying(msgs, Head(req).op = "state")
  <2>1. (Head(req).op = "state") = FALSE
    BY <1>6 DEF r
  <2> QED
    BY <1>6, <2>1
<1>7. ASSUME NEW msgs \in Seq(Messages), Reply(msgs), hw' = hw,
             \A k \in 1 .. Len(msgs) : msgs[k].op # "state"
      PROVE  Saying(msgs, FALSE)
  <2>1. resp' = resp \o msgs /\ Len(resp') <= MaxLine
    BY <1>4, <1>7 DEF Reply
  <2>2. Len(hw) \in 1 .. Len(hw)
    BY <1>3
  <2>3. \A u \in 1 .. Len(hw) : Quiet(msgs, u)
    BY <1>7 DEF Quiet, About
  <2> QED
    BY <1>3, <1>7, <2>1, <2>2, <2>3 DEF Saying
<1>8. CASE r.op = "leds" /\ Reply([u \in 1 .. Len(hw) |-> LedsMsg(u)]) /\ hw' = hw
  <2> DEFINE msgs == [u \in 1 .. Len(hw) |-> LedsMsg(u)]
  <2>1. \A u \in 1 .. MaxUnits : LedsMsg(u) \in Messages /\ LedsMsg(u).op = "leds"
    BY DEF LedsMsg, Messages
  <2>2. /\ msgs \in Seq(Messages) /\ Len(msgs) = Len(hw)
        /\ \A u \in 1 .. Len(hw) : msgs[u].op = "leds"
    <3>1. \A u \in 1 .. Len(hw) : LedsMsg(u) \in Messages /\ LedsMsg(u).op = "leds"
      BY <1>3, <2>1
    <3>2. \A u \in 1 .. Len(hw) : msgs[u] = LedsMsg(u)
      OBVIOUS
    <3>3. msgs \in Seq(Messages) /\ Len(msgs) = Len(hw)
      <4>1. Len(hw) \in Nat
        BY <1>3
      <4>2. msgs \in [1 .. Len(hw) -> Messages]
        BY <3>1, Zenon
      <4> HIDE DEF msgs
      <4> QED
        BY <4>1, <4>2
    <3> QED
      BY <3>1, <3>2, <3>3
  <2>3. Reply(msgs)
    BY <1>8
  <2> HIDE DEF msgs
  <2>4. \A k \in 1 .. Len(msgs) : msgs[k].op # "state"
    BY <2>2
  <2> QED
    BY <1>1, <1>6, <1>7, <1>8, <2>2, <2>3, <2>4
<1>9. CASE r.op \in {"switch", "edid", "other"} /\ Reply(<<NakMsg(r.unit, r.mine)>>) /\ hw' = hw
  <2> DEFINE m == NakMsg(r.unit, r.mine)
  <2>1. m \in Messages /\ m.op = "nak"
    BY <1>2, <1>9 DEF NakMsg, Messages
  <2> HIDE DEF m
  <2>2. <<m>> \in Seq(Messages) /\ \A k \in 1 .. Len(<<m>>) : <<m>>[k].op # "state"
    BY <2>1
  <2>3. Reply(<<m>>)
    BY <1>9 DEF m
  <2> QED
    BY <1>1, <1>6, <1>7, <1>9, <2>2, <2>3
<1>10. CASE /\ r.op \in {"switch", "edid"} /\ ~Refused(r)
            /\ hw' = Applied(r) /\ Reply(<<StateMsg(r.unit, hw', r.mine)>>)
  <2>1. /\ hw' \in Seq(HwType) /\ Len(hw') = Len(hw) /\ r.unit \in 1 .. Len(hw)
        /\ \A u \in 1 .. Len(hw) : u # r.unit => hw'[u] = hw[u]
    BY <1>2, <1>3, <1>10, AppliedTyped
  <2>2. \A u \in 1 .. Len(hw') : u # r.unit => StateOf(u, hw') = StateOf(u, hw)
    BY <2>1 DEF StateOf
  <2>3. Len(hw') \in 1 .. Len(hw) /\ r.unit \in 1 .. Len(hw')
    BY <1>3, <2>1
  <2>4. \E msgs : Saying(msgs, FALSE)
    BY <1>2, <1>3, <1>10, <2>1, <2>2, <2>3, OneSays
  <2> QED
    BY <1>1, <1>6, <1>10, <2>4
<1>11. CASE r.op = "other" /\ ~Refused(r) /\ Reply(<<StateMsg(r.unit, hw, r.mine)>>) /\ hw' = hw
  <2>1. r.unit \in 1 .. Len(hw)
    BY <1>2, <1>3, <1>11 DEF Refused
  <2>2. Reply(<<StateMsg(r.unit, hw', r.mine)>>)
    BY <1>11
  <2>3. /\ hw' \in Seq(HwType) /\ Len(hw') \in 1 .. Len(hw) /\ r.unit \in 1 .. Len(hw')
        /\ \A u \in 1 .. Len(hw') : StateOf(u, hw') = StateOf(u, hw)
    BY <1>3, <1>11, <2>1
  <2>4. \E msgs : Saying(msgs, FALSE)
    BY <1>2, <1>3, <2>2, <2>3, OneSays
  <2> QED
    BY <1>1, <1>6, <1>11, <2>4
<1>12. \/ r.op = "state" /\ Reply([u \in 1 .. Len(hw) |-> StateMsg(u, hw, FALSE)]) /\ hw' = hw
       \/ r.op = "leds" /\ Reply([u \in 1 .. Len(hw) |-> LedsMsg(u)]) /\ hw' = hw
       \/ r.op \in {"switch", "edid", "other"} /\ Reply(<<NakMsg(r.unit, r.mine)>>) /\ hw' = hw
       \/ /\ r.op \in {"switch", "edid"} /\ ~Refused(r)
          /\ hw' = Applied(r) /\ Reply(<<StateMsg(r.unit, hw', r.mine)>>)
       \/ r.op = "other" /\ ~Refused(r) /\ Reply(<<StateMsg(r.unit, hw, r.mine)>>) /\ hw' = hw
  BY Zenon DEF Serve, r
<1> QED
  BY <1>1, <1>5, <1>8, <1>9, <1>10, <1>11, <1>12

-----------------------------------------------------------------------------
(* The types *)

Apart == UNCHANGED <<cacheVars, kvmd>>

LEMMA NextCases ==
  ASSUME Next
  PROVE  \/ Serve /\ Apart
         \/ (\E u \in 1 .. MaxUnits : Settle(u)) /\ Apart
         \/ (\E u \in 1 .. MaxUnits : Shorten(u)) /\ Apart
         \/ (\E u \in 1 .. MaxUnits : GiveUp(u)) /\ Apart
         \/ Unplug /\ Apart
         \/ Plug /\ Apart
         \/ Open /\ Apart
         \/ Missing /\ Apart
         \/ Fail /\ Apart
         \/ ReadResponse /\ Apart
         \/ ReadTorn /\ Apart
         \/ Consume /\ Apart
         \/ Ensure /\ Apart
         \/ HandleEvent
         \/ LoadFails
         \/ Press
         \/ \E u \in 1 .. MaxUnits : Forward(u)
         \/ \E c \in Edids : LoadSucceeds(c)
         \/ \E c \in Edids : Edit(c)
<1>1. CASE ChainStep
  BY <1>1, Zenon DEF ChainStep, Subprocess, Line, Apart
<1>2. CASE \E u \in 1 .. MaxUnits : TimeOut(u) \/ TimeOutEarly(u) \/ Takeaway(u) \/ Forward(u)
  BY <1>2, Zenon DEF TimeOut, TimeOutEarly, Takeaway, Apart
<1>3. CASE TakeOff \/ PutOn \/ HandleEvent \/ LoadFails \/ Press
  BY <1>3, Zenon DEF TakeOff, PutOn, Apart
<1>4. CASE \E c \in Edids : LoadSucceeds(c) \/ Edit(c)
  BY <1>4, Zenon
<1> QED
  BY <1>1, <1>2, <1>3, <1>4 DEF Next

\* A command that has nothing to do with the EDIDs.
Bids ==
  /\ \E c \in Commands \ EdidsCmds : cmds' = Append(cmds, c)
  /\ UNCHANGED <<plugged, hw, line, pc, reported, chain, events, cacheVars, kvmd>>

LEMMA PressBids == Press => Bids
<1> SUFFICES ASSUME Press
             PROVE  Bids
  OBVIOUS
<1>1. PICK c \in {[type |-> "prev"], [type |-> "next"]}
                  \cup {[type |-> "port", port |-> p] : p \in Ports} :
        cmds' = Append(cmds, c)
  BY Zenon DEF Press, Command
<1>2. c \in Commands \ EdidsCmds
  BY <1>1 DEF Commands, EdidsCmds
<1>3. UNCHANGED <<plugged, hw, line, pc, reported, chain, events, cacheVars, kvmd>>
  BY DEF Press
<1> QED
  BY <1>1, <1>2, <1>3, Zenon DEF Bids

LEMMA ForwardBids == ASSUME NEW u \in 1 .. MaxUnits, Forward(u) PROVE Bids
<1> DEFINE c == [type |-> "other", unit |-> u]
<1>1. c \in Commands \ EdidsCmds
  BY DEF Commands, EdidsCmds
<1>2. cmds' = Append(cmds, c)
  BY DEF Forward, Command
<1>3. UNCHANGED <<plugged, hw, line, pc, reported, chain, events, cacheVars, kvmd>>
  BY DEF Forward
<1> QED
  BY <1>1, <1>2, <1>3, Zenon DEF Bids

LEMMA FlagsStep ==
  ASSUME Typed, missed = {}, Next
  PROVE  Flags'
<1> USE DEF Typed, Flags, Apart, kvmd, chain, line
<1>1. ASSUME Serve, Apart PROVE Flags'
  BY <1>1 DEF Serve
<1>2. ASSUME NEW u \in 1 .. MaxUnits, Settle(u), Apart PROVE Flags'
  BY <1>2 DEF Settle
<1>3. ASSUME NEW u \in 1 .. MaxUnits, Shorten(u), Apart PROVE Flags'
  BY <1>3 DEF Shorten
<1>4. ASSUME NEW u \in 1 .. MaxUnits, GiveUp(u), Apart PROVE Flags'
  BY <1>4 DEF GiveUp
<1>5. ASSUME Unplug, Apart PROVE Flags'
  BY <1>5 DEF Unplug
<1>6. ASSUME Plug, Apart PROVE Flags'
  BY <1>6 DEF Plug
<1>7. ASSUME Open, Apart PROVE Flags'
  BY <1>7 DEF Open
<1>8. ASSUME Missing, Apart PROVE Flags'
  BY <1>8 DEF Missing
<1>9. ASSUME Fail, Apart PROVE Flags'
  BY <1>9 DEF Fail
<1>10. ASSUME ReadResponse, Apart PROVE Flags'
  BY <1>10 DEF ReadResponse
<1>11. ASSUME ReadTorn, Apart PROVE Flags'
  BY <1>11 DEF ReadTorn
<1>12. ASSUME Consume, Apart PROVE Flags'
  BY <1>12, ConsumeDoes
<1>13. ASSUME Ensure, Apart PROVE Flags'
  BY <1>13 DEF Ensure
<1>14. ASSUME HandleEvent PROVE Flags'
  <2>1. loading' \in BOOLEAN
    BY <1>14, HandleDoes, Zenon
  <2> QED
    BY <1>14, <2>1 DEF HandleEvent
<1>15. ASSUME LoadFails PROVE Flags'
  BY <1>15 DEF LoadFails, chainVars
<1>16. ASSUME Bids PROVE Flags'
  BY <1>16 DEF Bids
<1>17. ASSUME NEW c \in Edids, LoadSucceeds(c) PROVE Flags'
  BY <1>17 DEF LoadSucceeds
<1>18. ASSUME NEW c \in Edids, Edit(c) PROVE Flags'
  BY <1>18 DEF Edit
<1> QED
  BY <1>1, <1>2, <1>3, <1>4, <1>5, <1>6, <1>7, <1>8, <1>9, <1>10, <1>11, <1>12, <1>13, <1>14,
     <1>15, <1>16, <1>17, <1>18, NextCases, PressBids, ForwardBids, Zenon

LEMMA SayingTyped ==
  ASSUME LineTyped, NEW msgs, NEW all, Saying(msgs, all)
  PROVE  /\ hw' \in Seq(HwType) /\ Len(hw') \in 1 .. MaxUnits
         /\ resp' \in Seq(Messages) /\ Len(resp') <= MaxLine
<1>1. /\ hw' \in Seq(HwType) /\ Len(hw') \in 1 .. Len(hw) /\ resp' = resp \o msgs
      /\ Len(resp') <= MaxLine /\ msgs \in Seq(Messages)
  BY DEF Saying
<1>2. resp \in Seq(Messages) /\ Len(hw) \in 1 .. MaxUnits /\ MaxUnits \in Nat
  BY ChainAssumption DEF LineTyped
<1> QED
  BY <1>1, <1>2

LEMMA LineStep ==
  ASSUME Typed, missed = {}, Next
  PROVE  LineTyped'
<1> USE DEF Apart, kvmd, chain, line
<1>0. /\ LineTyped /\ hw \in Seq(HwType) /\ Len(hw) \in 1 .. MaxUnits /\ req \in Seq(Requests)
      /\ resp \in Seq(Messages) /\ Len(resp) <= MaxLine /\ MaxUnits \in Nat /\ MaxLine \in Nat
  BY ChainAssumption DEF Typed, LineTyped
<1>1. ASSUME Serve, Apart PROVE LineTyped'
  <2>1. req' \in Seq(Requests)
    <3>1. req # <<>> /\ req' = Tail(req)
      BY <1>1, ServeDoes
    <3> QED
      BY <1>0, <3>1
  <2>2. PICK msgs : Saying(msgs, Head(req).op = "state")
    BY <1>1, ServeDoes
  <2> QED
    BY <1>0, <2>1, <2>2, SayingTyped DEF LineTyped
<1>2. ASSUME NEW u \in 1 .. MaxUnits, Settle(u), Apart PROVE LineTyped'
  <2>1. req' = req
    BY <1>2 DEF Settle
  <2>2. PICK msgs : Saying(msgs, FALSE)
    BY <1>2, SettleDoes
  <2> QED
    BY <1>0, <2>1, <2>2, SayingTyped DEF LineTyped
<1>3. ASSUME NEW u \in 1 .. MaxUnits, Shorten(u), Apart PROVE LineTyped'
  <2>1. req' = req
    BY <1>3 DEF Shorten
  <2>2. CASE \E msgs : Saying(msgs, FALSE)
    BY <1>0, <2>1, <2>2, SayingTyped DEF LineTyped
  <2>3. CASE resp' = resp
    <3>1. hw' \in Seq(HwType) /\ Len(hw') \in 1 .. Len(hw)
      BY <1>3, ShortenDoes
    <3> QED
      BY <1>0, <2>1, <2>3, <3>1 DEF LineTyped
  <2> QED
    BY <1>3, <2>2, <2>3, ShortenDoes
<1>4. ASSUME NEW u \in 1 .. MaxUnits, GiveUp(u), Apart PROVE LineTyped'
  <2>1. Remarked(req', req) /\ Remarked(resp', resp) /\ hw' = hw
    BY <1>4, GiveUpDoes
  <2>2. req' \in Seq(Requests)
    BY <1>0, <2>1, RemarkedRequests
  <2>3. resp' \in Seq(Messages) /\ Len(resp') = Len(resp)
    BY <1>0, <2>1, RemarkedMessages
  <2> QED
    BY <1>0, <2>1, <2>2, <2>3 DEF LineTyped
<1>5. ASSUME Unplug, Apart PROVE LineTyped'
  BY <1>0, <1>5 DEF Unplug, LineTyped
<1>6. ASSUME Plug, Apart PROVE LineTyped'
  BY <1>0, <1>6 DEF Plug, LineTyped
<1>7. ASSUME Open, Apart PROVE LineTyped'
  <2>1. Query("state") \in Requests /\ Query("leds") \in Requests
    BY DEF Query, Requests
  <2>2. req' = <<Query("state"), Query("leds")>> /\ resp' = <<>> /\ hw' = hw
    BY <1>7 DEF Open
  <2> QED
    BY <1>0, <2>1, <2>2 DEF LineTyped
<1>8. ASSUME Missing, Apart PROVE LineTyped'
  BY <1>0, <1>8 DEF Missing, LineTyped
<1>9. ASSUME Fail, Apart PROVE LineTyped'
  BY <1>0, <1>9 DEF Fail, LineTyped
<1>10. ASSUME ReadResponse, Apart PROVE LineTyped'
  <2>1. Remarked(req', req) /\ Remarked(resp', Tail(resp)) /\ hw' = hw /\ resp # <<>>
    BY <1>10, ReadResponseDoes
  <2>2. Tail(resp) \in Seq(Messages) /\ Len(Tail(resp)) <= MaxLine
    BY <1>0, <2>1
  <2>3. req' \in Seq(Requests)
    BY <1>0, <2>1, RemarkedRequests
  <2>4. resp' \in Seq(Messages) /\ Len(resp') = Len(Tail(resp))
    BY <2>1, <2>2, RemarkedMessages
  <2> QED
    BY <1>0, <2>1, <2>2, <2>3, <2>4 DEF LineTyped
<1>11. ASSUME ReadTorn, Apart PROVE LineTyped'
  BY <1>0, <1>11 DEF ReadTorn, LineTyped
<1>12. ASSUME Consume, Apart PROVE LineTyped'
  <2>1. hw' = hw /\ resp' = resp /\ (req' = req \/ \E r \in Requests : req' = Append(req, r))
    BY <1>12, ConsumeDoes
  <2>2. ASSUME NEW r \in Requests PROVE Append(req, r) \in Seq(Requests)
    BY <1>0
  <2>3. req' \in Seq(Requests)
    BY <1>0, <2>1, <2>2
  <2> QED
    BY <1>0, <2>1, <2>3 DEF LineTyped
<1>13. ASSUME Ensure, Apart PROVE LineTyped'
  <2>1. hw' = hw /\ resp' = resp /\ \E s \in Seq(Requests) : req' = req \o s
    BY <1>13, EnsureDoes
  <2>2. ASSUME NEW s \in Seq(Requests) PROVE req \o s \in Seq(Requests)
    BY <1>0
  <2>3. req' \in Seq(Requests)
    BY <2>1, <2>2
  <2> QED
    BY <1>0, <2>1, <2>3 DEF LineTyped
<1>14. ASSUME HandleEvent PROVE LineTyped'
  BY <1>0, <1>14 DEF HandleEvent, LineTyped
<1>15. ASSUME LoadFails PROVE LineTyped'
  BY <1>0, <1>15 DEF LoadFails, chainVars, LineTyped
<1>16. ASSUME Bids PROVE LineTyped'
  BY <1>0, <1>16 DEF Bids, LineTyped
<1>17. ASSUME NEW c \in Edids, LoadSucceeds(c) PROVE LineTyped'
  BY <1>0, <1>17 DEF LoadSucceeds, LineTyped
<1>18. ASSUME NEW c \in Edids, Edit(c) PROVE LineTyped'
  BY <1>0, <1>18 DEF Edit, LineTyped
<1> QED
  BY <1>1, <1>2, <1>3, <1>4, <1>5, <1>6, <1>7, <1>8, <1>9, <1>10, <1>11, <1>12, <1>13, <1>14,
     <1>15, <1>16, <1>17, <1>18, NextCases, PressBids, ForwardBids, Zenon

LEMMA ChainStepTyped ==
  ASSUME Typed, missed = {}, Next
  PROVE  ChainTyped'
<1> USE DEF Apart, kvmd, chain, line
<1>0. /\ ChainTyped /\ units \in Seq(Contexts) /\ Len(units) <= MaxUnits /\ cmds \in Seq(Commands)
      /\ events \in Seq(Events) /\ active \in Ports \cup {-1} /\ edids \in Edids /\ MaxUnits \in Nat
  BY ChainAssumption DEF Typed, ChainTyped
<1>1. ASSUME Serve, Apart PROVE ChainTyped'
  BY <1>0, <1>1 DEF Serve, ChainTyped
<1>2. ASSUME NEW u \in 1 .. MaxUnits, Settle(u), Apart PROVE ChainTyped'
  BY <1>0, <1>2 DEF Settle, ChainTyped
<1>3. ASSUME NEW u \in 1 .. MaxUnits, Shorten(u), Apart PROVE ChainTyped'
  BY <1>0, <1>3 DEF Shorten, ChainTyped
<1>4. ASSUME NEW u \in 1 .. MaxUnits, GiveUp(u), Apart PROVE ChainTyped'
  BY <1>0, <1>4, GiveUpDoes DEF ChainTyped
<1>5. ASSUME Unplug, Apart PROVE ChainTyped'
  BY <1>0, <1>5 DEF Unplug, ChainTyped
<1>6. ASSUME Plug, Apart PROVE ChainTyped'
  BY <1>0, <1>6 DEF Plug, ChainTyped
<1>7. ASSUME Open, Apart PROVE ChainTyped'
  <2>1. DeviceFound \in Events
    BY DEF DeviceFound, Events
  <2> QED
    BY <1>0, <1>7, <2>1 DEF Open, Event, ChainTyped
<1>8. ASSUME Missing, Apart PROVE ChainTyped'
  <2>1. ChainTruncated(0) \in Events
    BY <1>0 DEF ChainTruncated, Events
  <2>2. events' = events \/ events' = Append(events, ChainTruncated(0))
    BY <1>8 DEF Missing, Event
  <2>3. Append(events, ChainTruncated(0)) \in Seq(Events)
    BY <1>0, <2>1
  <2>4. events' \in Seq(Events)
    BY <1>0, <2>2, <2>3
  <2> QED
    BY <1>0, <1>8, <2>4 DEF Missing, ChainTyped
<1>9. ASSUME Fail, Apart PROVE ChainTyped'
  BY <1>0, <1>9 DEF Fail, ChainTyped
<1>10. ASSUME ReadResponse, Apart PROVE ChainTyped'
  <2>1. /\ Head(resp) \in Messages /\ events' = events \o Reported(Head(resp))
        /\ units' \in Seq(Contexts) /\ Len(units') <= MaxUnits
        /\ \E s \in Seq(Commands) : cmds' = cmds \o s
        /\ active' = active /\ edids' = edids
    BY <1>10, ReadResponseDoes
  <2>2. events' \in Seq(Events)
    BY <1>0, <2>1, ReportedTyped
  <2>3. cmds' \in Seq(Commands)
    BY <1>0, <2>1
  <2> QED
    BY <1>0, <2>1, <2>2, <2>3 DEF ChainTyped
<1>11. ASSUME ReadTorn, Apart PROVE ChainTyped'
  BY <1>0, <1>11 DEF ReadTorn, ChainTyped
<1>12. ASSUME Consume, Apart PROVE ChainTyped'
  <2>1. /\ cmds # <<>> /\ cmds' = Tail(cmds) /\ units' = units /\ Head(cmds) \in Commands
        /\ edids' = IF Head(cmds).type = "edids" THEN Head(cmds).edids ELSE edids
        /\ \/ active' = active /\ events' = events
           \/ active' \in Ports /\ events' = Append(events, PortActivated(active'))
    BY <1>12, ConsumeDoes
  <2>2. Head(cmds).type = "edids" => Head(cmds).edids \in Edids
    BY <2>1 DEF Commands
  <2>3. active' \in Ports => PortActivated(active') \in Events
    BY DEF PortActivated, Events
  <2>4. events' \in Seq(Events) /\ active' \in Ports \cup {-1}
    <3>1. CASE active' = active /\ events' = events
      BY <1>0, <3>1
    <3>2. CASE active' \in Ports /\ events' = Append(events, PortActivated(active'))
      <4>1. events \in Seq(Events) /\ PortActivated(active') \in Events
        BY <1>0, <2>3, <3>2
      <4> QED
        BY <3>2, <4>1
    <3> QED
      BY <2>1, <3>1, <3>2
  <2>5. cmds' \in Seq(Commands) /\ edids' \in Edids
    BY <1>0, <2>1, <2>2
  <2> QED
    BY <1>0, <2>1, <2>4, <2>5 DEF ChainTyped
<1>13. ASSUME Ensure, Apart PROVE ChainTyped'
  BY <1>0, <1>13, EnsureDoes DEF ChainTyped
<1>14. ASSUME HandleEvent PROVE ChainTyped'
  <2>1. /\ events # <<>> /\ events' = Tail(events)
        /\ UNCHANGED <<units, active, edids, cmds>>
    BY <1>14, HandleDoes
  <2> QED
    BY <1>0, <2>1 DEF ChainTyped
<1>15. ASSUME LoadFails PROVE ChainTyped'
  BY <1>0, <1>15 DEF LoadFails, chainVars, ChainTyped
<1>16. ASSUME Bids PROVE ChainTyped'
  BY <1>0, <1>16 DEF Bids, ChainTyped
<1>17. ASSUME NEW c \in Edids, LoadSucceeds(c) PROVE ChainTyped'
  <2>1. EdidsCmd(c) \in Commands /\ [type |-> "actual"] \in Commands
    BY DEF EdidsCmd, Commands
  <2>2. /\ cmds' = cmds \o <<EdidsCmd(c), [type |-> "actual"]>>
        /\ UNCHANGED <<units, active, edids, events>>
    BY <1>17 DEF LoadSucceeds, EdidsCmd
  <2>3. cmds' \in Seq(Commands)
    BY <1>0, <2>1, <2>2
  <2> QED
    BY <1>0, <2>2, <2>3 DEF ChainTyped
<1>18. ASSUME NEW c \in Edids, Edit(c) PROVE ChainTyped'
  <2>1. EdidsCmd(c) \in Commands
    BY DEF EdidsCmd, Commands
  <2>2. cmds' = Append(cmds, EdidsCmd(c)) /\ UNCHANGED <<units, active, edids, events>>
    BY <1>18 DEF Edit, Command, EdidsCmd
  <2> QED
    BY <1>0, <2>1, <2>2 DEF ChainTyped
<1> QED
  BY <1>1, <1>2, <1>3, <1>4, <1>5, <1>6, <1>7, <1>8, <1>9, <1>10, <1>11, <1>12, <1>13, <1>14,
     <1>15, <1>16, <1>17, <1>18, NextCases, PressBids, ForwardBids, Zenon

\* The cache changes with an event, a load or an edit, and clients are told.
LEMMA CacheStep ==
  ASSUME Typed, missed = {}, Next
  PROVE  CacheTyped' /\ missed' = {}
<1> USE DEF Apart, kvmd, cacheVars
<1>1. ASSUME UNCHANGED cacheVars PROVE CacheTyped' /\ missed' = {}
  BY <1>1 DEF Typed, CacheTyped
<1>2. ASSUME HandleEvent PROVE CacheTyped' /\ missed' = {}
  BY <1>2, HandleDoes
<1>3. ASSUME NEW c \in Edids, SetEdids(c) PROVE CacheTyped' /\ missed' = {}
  BY <1>3, EdidsTell DEF Typed, CacheTyped
<1>4. LoadFails \/ Bids => UNCHANGED cacheVars
  BY DEF LoadFails, Bids
<1>5. \A c \in Edids : LoadSucceeds(c) \/ Edit(c) => SetEdids(c)
  BY DEF LoadSucceeds, Edit
<1>6. Apart => UNCHANGED cacheVars
  OBVIOUS
<1> HIDE DEF Apart, cacheVars
<1> QED
  BY <1>1, <1>2, <1>3, <1>4, <1>5, <1>6, NextCases, PressBids, ForwardBids, Zenon

LEMMA TypedStep ==
  ASSUME Typed, missed = {}, [Next]_vars
  PROVE  Typed' /\ missed' = {}
<1>1. CASE Next
  BY <1>1, FlagsStep, LineStep, ChainStepTyped, CacheStep DEF Typed
<1>2. CASE UNCHANGED vars
  BY <1>2 DEF Typed, Flags, LineTyped, ChainTyped, CacheTyped, vars, chainVars, cacheVars, kvmd,
              chain, line
<1> QED
  BY <1>1, <1>2

-----------------------------------------------------------------------------
(* The active port *)

LEMMA PortStep ==
  ASSUME Typed, missed = {}, PortSaid, Next
  PROVE  PortSaid'
<1> USE DEF Apart, kvmd, chain, line
<1> DEFINE b == PortActivated(cache.active)
           Good == {PortActivated(active)}
<1>0. /\ events \in Seq(Events) /\ Latest(events, b, PortEvents, Good) /\ CacheTyped
  BY DEF Typed, ChainTyped, PortSaid
<1>1. \A e \in Events : e.type # "port" => e \notin PortEvents
  BY DEF PortEvents
<1>2. ASSUME UNCHANGED <<events, active>>, cache'.active = cache.active PROVE PortSaid'
  BY <1>0, <1>2 DEF PortSaid
<1>3. ASSUME NEW e \in Events, e.type # "port", events' = Append(events, e),
             UNCHANGED <<active, cache>>
      PROVE  PortSaid'
  <2>1. Latest(events', b, PortEvents, Good)
    BY <1>0, <1>1, <1>3, LatestOther
  <2> QED
    BY <1>3, <2>1 DEF PortSaid
<1>4. ASSUME Open, Apart PROVE PortSaid'
  <2>1. DeviceFound \in Events /\ DeviceFound.type # "port"
    BY DEF DeviceFound, Events
  <2> QED
    BY <1>3, <1>4, <2>1 DEF Open, Event, cacheVars
<1>5. ASSUME Missing, Apart PROVE PortSaid'
  <2>1. ChainTruncated(0) \in Events /\ ChainTruncated(0).type # "port"
    BY ChainAssumption DEF ChainTruncated, Events
  <2>2. /\ events' = events \/ events' = Append(events, ChainTruncated(0))
        /\ UNCHANGED <<active, cache>>
    BY <1>5 DEF Missing, Event, cacheVars
  <2> QED
    BY <1>2, <1>3, <2>1, <2>2
<1>6. ASSUME ReadResponse, Apart PROVE PortSaid'
  <2> DEFINE s == Reported(Head(resp))
  <2>1. events' = events \o s /\ active' = active /\ cache' = cache /\ Head(resp) \in Messages
    BY <1>6, ReadResponseDoes DEF cacheVars
  <2>2. s \in Seq(Events) /\ \A i \in 1 .. Len(s) : s[i].type # "port"
    BY <2>1, ReportedTyped
  <2> HIDE DEF s
  <2>3. \A i \in 1 .. Len(s) : s[i] \notin PortEvents
    BY <1>1, <2>2
  <2>4. Latest(events', b, PortEvents, Good)
    BY <1>0, <2>1, <2>2, <2>3, LatestOthers
  <2> QED
    BY <2>1, <2>4 DEF PortSaid
<1>7. ASSUME Consume, Apart PROVE PortSaid'
  <2>1. \/ active' = active /\ events' = events
        \/ active' \in Ports /\ events' = Append(events, PortActivated(active'))
    BY <1>7, ConsumeDoes
  <2>2. cache' = cache
    BY <1>7 DEF cacheVars
  <2>3. CASE active' \in Ports /\ events' = Append(events, PortActivated(active'))
    <3>1. PortActivated(active') \in Events /\ PortActivated(active') \in {PortActivated(active')}
      BY <2>3 DEF PortActivated, Events
    <3>2. Latest(events', b, PortEvents, {PortActivated(active')})
      BY <1>0, <2>3, <3>1, LatestGood
    <3> QED
      BY <2>2, <3>2 DEF PortSaid
  <2> QED
    BY <1>2, <2>1, <2>2, <2>3
<1>8. ASSUME HandleEvent PROVE PortSaid'
  <2> DEFINE e == Head(events)
             b2 == PortActivated(cache'.active)
  <2>1. /\ events # <<>> /\ e \in Events /\ events' = Tail(events) /\ active' = active
        /\ cache'.active = IF e.type = "port" THEN e.port ELSE cache.active
    BY <1>8, HandleDoes
  <2>2. e \in Good => b2 \in Good
    BY <2>1 DEF PortActivated
  <2>3. e \notin PortEvents /\ b \in Good => b2 \in Good
    BY <2>1 DEF PortEvents
  <2>4. Latest(events', b2, PortEvents, Good)
    <3> HIDE DEF b, b2, Good
    <3> QED
      BY <1>0, <2>1, <2>2, <2>3, LatestTail
  <2> QED
    BY <2>1, <2>4 DEF PortSaid
<1>9. ASSUME NEW c \in Edids, SetEdids(c), UNCHANGED <<events, active>> PROVE PortSaid'
  BY <1>0, <1>2, <1>9, EdidsTell
<1>10. ASSUME Serve \/ (\E u \in 1 .. MaxUnits : Settle(u) \/ Shorten(u) \/ GiveUp(u))
              \/ Unplug \/ Plug \/ Fail \/ ReadTorn \/ Ensure, Apart
       PROVE  PortSaid'
  <2>1. UNCHANGED <<events, active>>
    BY <1>10, Zenon DEF Serve, Settle, Shorten, GiveUp, Unplug, Plug, Fail, ReadTorn, Ensure
  <2> QED
    BY <1>2, <1>10, <2>1 DEF cacheVars
<1>11. ASSUME LoadFails \/ Bids PROVE PortSaid'
  BY <1>2, <1>11 DEF LoadFails, Bids, chainVars, cacheVars
<1>12. \A c \in Edids : LoadSucceeds(c) \/ Edit(c) => SetEdids(c) /\ UNCHANGED <<events, active>>
  BY DEF LoadSucceeds, Edit
<1> QED
  BY <1>4, <1>5, <1>6, <1>7, <1>8, <1>9, <1>10, <1>11, <1>12, NextCases, PressBids,
     ForwardBids, Zenon

-----------------------------------------------------------------------------
(* The EDIDs *)

\* No news of a device is lost.
LEMMA FindingStays ==
  ASSUME events \in Seq(Events), NEW s \in Seq(Events), events' = events \o s,
         loading' = loading, ~Finding'
  PROVE  ~Finding
<1>1. ASSUME NEW i \in 1 .. Len(events)
      PROVE  events[i].type # "found"
  <2>1. i \in 1 .. Len(events') /\ events'[i] = events[i]
    OBVIOUS
  <2> QED
    BY <2>1 DEF Finding
<1> QED
  BY <1>1 DEF Finding

LEMMA FindingKept ==
  ASSUME UNCHANGED <<events, loading>>, ~Finding'
  PROVE  ~Finding
  BY DEF Finding

LEMMA FindingAppended ==
  ASSUME events \in Seq(Events), NEW e \in Events, events' = Append(events, e),
         loading' = loading, ~Finding'
  PROVE  ~Finding /\ e.type # "found"
<1>1. /\ <<e>> \in Seq(Events) /\ events' = events \o <<e>>
      /\ Len(events') = Len(events) + 1 /\ events'[Len(events) + 1] = e
  BY AppendIsConcat
<1>2. e.type # "found"
  BY <1>1 DEF Finding
<1> QED
  BY <1>1, <1>2, FindingStays

LEMMA EdidsStep ==
  ASSUME Typed, missed = {}, EdidsSaid, Next
  PROVE  EdidsSaid'
<1> USE DEF Apart, kvmd, chain, line
<1> DEFINE b == EdidsCmd(edids)
           Good == {EdidsCmd(cache.edids)}
<1>0. events \in Seq(Events) /\ cmds \in Seq(Commands) /\ CacheTyped
  BY DEF Typed, ChainTyped
<1>1. \A c \in Commands : c.type # "edids" => c \notin EdidsCmds
  BY DEF EdidsCmds
<1>2. ASSUME pc' # "closed" => pc # "closed", ~Finding' => ~Finding, loaded' = loaded,
             UNCHANGED <<cmds, edids>>, cache'.edids = cache.edids
      PROVE  EdidsSaid'
  BY <1>2 DEF EdidsSaid
<1>3. ASSUME pc' = "closed" \/ Finding' \/ ~loaded'
      PROVE  EdidsSaid'
  BY <1>3 DEF EdidsSaid
<1>4. ASSUME Open, Apart PROVE EdidsSaid'
  <2>1. DeviceFound \in Events /\ DeviceFound.type = "found"
    BY DEF DeviceFound, Events
  <2>2. events' = Append(events, DeviceFound) /\ loading' = loading
    BY <1>4 DEF Open, Event
  <2> QED
    BY <1>0, <1>3, <2>1, <2>2, FindingAppended
<1>5. ASSUME Missing \/ Fail, Apart PROVE EdidsSaid'
  BY <1>3, <1>5 DEF Missing, Fail
<1>6. ASSUME ReadResponse, Apart PROVE EdidsSaid'
  <2>1. /\ Head(resp) \in Messages /\ pc = "loop"
        /\ events' = events \o Reported(Head(resp)) /\ edids' = edids
        /\ \E s \in Seq(Commands) : cmds' = cmds \o s /\ \A i \in 1 .. Len(s) : s[i].type = "port"
    BY <1>6, ReadResponseDoes
  <2>2. loading' = loading /\ loaded' = loaded /\ cache' = cache
    BY <1>6 DEF cacheVars
  <2>3. ~Finding' => ~Finding
    BY <1>0, <2>1, <2>2, ReportedTyped, FindingStays
  <2>4. PICK s \in Seq(Commands) : cmds' = cmds \o s /\ \A i \in 1 .. Len(s) : s[i].type = "port"
    BY <2>1
  <2>5. \A i \in 1 .. Len(s) : s[i] \notin EdidsCmds
    BY <2>4 DEF EdidsCmds
  <2>6. Latest(cmds, b, EdidsCmds, Good) => Latest(cmds', b, EdidsCmds, Good)
    BY <1>0, <2>4, <2>5, LatestOthers
  <2> QED
    BY <2>1, <2>2, <2>3, <2>6 DEF EdidsSaid
<1>7. ASSUME Consume, Apart PROVE EdidsSaid'
  <2> DEFINE c == Head(cmds)
             b2 == EdidsCmd(edids')
  <2>1. /\ cmds # <<>> /\ c \in Commands /\ cmds' = Tail(cmds) /\ pc # "closed"
        /\ \/ active' = active /\ events' = events
           \/ active' \in Ports /\ events' = Append(events, PortActivated(active'))
        /\ edids' = IF c.type = "edids" THEN c.edids ELSE edids
    BY <1>7, ConsumeDoes
  <2>2. loading' = loading /\ loaded' = loaded /\ cache' = cache
    BY <1>7 DEF cacheVars
  <2>3. ~Finding' => ~Finding
    <3>1. active' \in Ports => PortActivated(active') \in Events
      BY DEF PortActivated, Events
    <3> QED
      BY <1>0, <2>1, <2>2, <3>1, FindingKept, FindingAppended
  <2>4. c \in Good => b2 \in Good
    BY <2>1 DEF EdidsCmd
  <2>5. c \notin EdidsCmds /\ b \in Good => b2 \in Good
    BY <2>1 DEF EdidsCmds
  <2>6. Latest(cmds, b, EdidsCmds, Good) => Latest(cmds', b2, EdidsCmds, Good)
    <3> HIDE DEF b, b2, Good
    <3> QED
      BY <1>0, <2>1, <2>4, <2>5, LatestTail
  <2> QED
    BY <2>1, <2>2, <2>3, <2>6 DEF EdidsSaid
<1>8. ASSUME HandleEvent PROVE EdidsSaid'
  <2>1. /\ events # <<>> /\ Head(events) \in Events /\ events' = Tail(events) /\ ~loading
        /\ loading' = (Head(events).type = "found") /\ cache'.edids = cache.edids
    BY <1>8, HandleDoes
  <2>2. UNCHANGED <<pc, edids, cmds, loaded>>
    BY <1>8, HandleDoes
  <2>3. ASSUME ~Finding' PROVE ~Finding
    <3>1. Head(events).type # "found"
      BY <2>1, <2>3 DEF Finding
    <3>2. ASSUME NEW i \in 1 .. Len(events)
          PROVE  events[i].type # "found"
      <4>1. CASE i = 1
        BY <1>0, <2>1, <3>1, <4>1
      <4>2. CASE i # 1
        <5>1. i - 1 \in 1 .. Len(events') /\ events'[i - 1] = events[i]
          BY <1>0, <2>1, <4>2
        <5> QED
          BY <2>3, <5>1 DEF Finding
      <4> QED
        BY <4>1, <4>2
    <3> QED
      BY <2>1, <3>2 DEF Finding
  <2> QED
    BY <1>2, <2>1, <2>2, <2>3
<1>9. ASSUME NEW c \in Edids, NEW s, s \in Seq(Commands), SetEdids(c), cmds' = cmds \o s,
             Len(s) \in Nat, 1 \in 1 .. Len(s), s[1] = EdidsCmd(c),
             \A j \in 1 + 1 .. Len(s) : s[j].type # "edids"
      PROVE  EdidsSaid'
  <2>1. cache'.edids = c
    BY <1>0, <1>9, EdidsTell
  <2>2. s[1] \in {EdidsCmd(c)} /\ \A j \in 1 + 1 .. Len(s) : s[j] \notin EdidsCmds
    BY <1>9 DEF EdidsCmds
  <2>3. Latest(cmds', EdidsCmd(edids'), EdidsCmds, {EdidsCmd(c)})
    BY <1>0, <1>9, <2>2, LatestLater
  <2> QED
    BY <2>1, <2>3 DEF EdidsSaid
<1>10. ASSUME NEW c \in Edids, LoadSucceeds(c) PROVE EdidsSaid'
  <2> DEFINE s == <<EdidsCmd(c), [type |-> "actual"]>>
  <2>1. EdidsCmd(c) \in Commands /\ [type |-> "actual"] \in Commands
    BY DEF EdidsCmd, Commands
  <2>2. /\ s \in Seq(Commands) /\ Len(s) = 2 /\ s[1] = EdidsCmd(c) /\ s[2] = [type |-> "actual"]
    BY <2>1
  <2>3. \A j \in 1 + 1 .. Len(s) : s[j].type # "edids"
    BY <2>2
  <2>4. cmds' = cmds \o s /\ SetEdids(c)
    BY <1>10 DEF LoadSucceeds, EdidsCmd
  <2> HIDE DEF s
  <2>5. Len(s) \in Nat /\ 1 \in 1 .. Len(s) /\ s \in Seq(Commands) /\ s[1] = EdidsCmd(c)
    BY <2>2
  <2> QED
    BY <1>9, <2>3, <2>4, <2>5
<1>11. ASSUME NEW c \in Edids, Edit(c) PROVE EdidsSaid'
  <2> DEFINE s == <<EdidsCmd(c)>>
  <2>1. EdidsCmd(c) \in Commands
    BY DEF EdidsCmd, Commands
  <2>2. s \in Seq(Commands) /\ Len(s) = 1 /\ s[1] = EdidsCmd(c)
    BY <2>1
  <2>3. cmds' = Append(cmds, EdidsCmd(c)) /\ SetEdids(c)
    BY <1>11 DEF Edit, Command, EdidsCmd
  <2>4. cmds' = cmds \o s
    BY <1>0, <2>1, <2>3, AppendIsConcat
  <2> HIDE DEF s
  <2>5. Len(s) \in Nat /\ 1 \in 1 .. Len(s) /\ \A j \in 1 + 1 .. Len(s) : s[j].type # "edids"
    BY <2>2
  <2> QED
    BY <1>9, <2>2, <2>3, <2>4, <2>5
<1>12. ASSUME Serve \/ (\E u \in 1 .. MaxUnits : Settle(u) \/ Shorten(u) \/ GiveUp(u))
              \/ Unplug \/ Plug \/ ReadTorn \/ Ensure, Apart
       PROVE  EdidsSaid'
  <2>1. UNCHANGED <<events, cmds, edids>> /\ (pc' = pc \/ pc # "closed")
    BY <1>12, Zenon DEF Serve, Settle, Shorten, GiveUp, Unplug, Plug, ReadTorn, Ensure
  <2>2. loading' = loading /\ loaded' = loaded /\ cache' = cache
    BY <1>12 DEF cacheVars
  <2>3. ~Finding' => ~Finding
    BY <2>1, <2>2, FindingKept
  <2> QED
    BY <1>2, <2>1, <2>2, <2>3
<1>13. ASSUME LoadFails PROVE EdidsSaid'
  BY <1>3, <1>13 DEF LoadFails
<1>14. ASSUME Bids PROVE EdidsSaid'
  <2>1. PICK c \in Commands \ EdidsCmds : cmds' = Append(cmds, c)
    BY <1>14 DEF Bids
  <2>2. UNCHANGED <<pc, events, edids, cache, loading, loaded>>
    BY <1>14 DEF Bids, cacheVars
  <2>3. Latest(cmds, b, EdidsCmds, Good) => Latest(cmds', b, EdidsCmds, Good)
    BY <1>0, <2>1, LatestOther
  <2>4. ~Finding' => ~Finding
    BY <2>2, FindingKept
  <2> QED
    BY <2>2, <2>3, <2>4 DEF EdidsSaid
<1> QED
  BY <1>4, <1>5, <1>6, <1>7, <1>8, <1>10, <1>11, <1>12, <1>13, <1>14, NextCases, PressBids,
     ForwardBids, Zenon

-----------------------------------------------------------------------------
(* The states of the units in the cache *)

LEMMA StateStep ==
  ASSUME Typed, missed = {}, StateSaid, Next
  PROVE  StateSaid'
<1> USE DEF Apart, kvmd, chain, line
<1>0. events \in Seq(Events) /\ CacheTyped /\ MaxUnits \in Nat
  BY ChainAssumption DEF Typed, ChainTyped
<1>1. ASSUME NEW u \in 1 .. MaxUnits
      PROVE  Latest(events, UnitStateEvent(u, CachedState(u)), Concerning(u),
                    Agreeing(u, UnitState(u)))
  BY DEF StateSaid
<1>2. ASSUME \A u \in 1 .. MaxUnits :
               Latest(events', UnitStateEvent(u, StateIn(cache'.units, u)), Concerning(u),
                      Agreeing(u, StateIn(units', u)))
      PROVE  StateSaid'
  BY <1>2 DEF StateSaid, UnitState, CachedState
\* nothing changes
<1>3. ASSUME events' = events, cache'.units = cache.units,
             \A u \in 1 .. MaxUnits : StateIn(units', u) = UnitState(u)
      PROVE  StateSaid'
  BY <1>1, <1>2, <1>3 DEF CachedState
\* an event that is about no unit
<1>4. ASSUME NEW e \in Events, events' = Append(events, e), cache' = cache, units' = units,
             e.type \notin {"state", "truncated"}
      PROVE  StateSaid'
  <2>1. ASSUME NEW u \in 1 .. MaxUnits
        PROVE  Latest(events', UnitStateEvent(u, CachedState(u)), Concerning(u),
                      Agreeing(u, UnitState(u)))
    <3>1. e \notin Concerning(u)
      BY <1>4 DEF Concerning
    <3> QED
      BY <1>0, <1>1, <1>4, <3>1, LatestOther
  <2> QED
    BY <1>2, <1>4, <2>1 DEF UnitState, CachedState
<1>5. ASSUME Open, Apart PROVE StateSaid'
  <2>1. DeviceFound \in Events /\ DeviceFound.type \notin {"state", "truncated"}
    BY DEF DeviceFound, Events
  <2> QED
    BY <1>4, <1>5, <2>1 DEF Open, Event, cacheVars
<1>6. ASSUME Missing, Apart PROVE StateSaid'
  <2>1. /\ ChainTruncated(0) \in Events /\ ChainTruncated(0).type = "truncated"
        /\ ChainTruncated(0).units = 0
    BY <1>0 DEF ChainTruncated, Events
  <2>2. /\ events' = events \/ events' = Append(events, ChainTruncated(0))
        /\ cache' = cache /\ units' = units
    BY <1>6 DEF Missing, Event, cacheVars
  <2>3. CASE events' = Append(events, ChainTruncated(0))
    <3>1. ASSUME NEW u \in 1 .. MaxUnits
          PROVE  Latest(events', UnitStateEvent(u, CachedState(u)), Concerning(u),
                        Agreeing(u, UnitState(u)))
      <4>1. ChainTruncated(0) \in Agreeing(u, UnitState(u))
        BY <2>1 DEF Agreeing, Concerning
      <4> QED
        BY <1>0, <2>1, <2>3, <4>1, LatestGood
    <3> QED
      BY <1>2, <2>2, <3>1 DEF UnitState, CachedState
  <2> QED
    BY <1>3, <2>2, <2>3 DEF UnitState
<1>7. ASSUME Consume, Apart PROVE StateSaid'
  <2>1. /\ units' = units
        /\ \/ active' = active /\ events' = events
           \/ active' \in Ports /\ events' = Append(events, PortActivated(active'))
    BY <1>7, ConsumeDoes
  <2>2. cache' = cache
    BY <1>7 DEF cacheVars
  <2>3. active' \in Ports => /\ PortActivated(active') \in Events
                             /\ PortActivated(active').type \notin {"state", "truncated"}
    BY DEF PortActivated, Events
  <2> QED
    BY <1>3, <1>4, <2>1, <2>2, <2>3 DEF UnitState
<1>8. ASSUME ReadResponse, Apart PROVE StateSaid'
  <2> DEFINE m == Head(resp)
             s == Reported(m)
  <2>1. /\ m \in Messages /\ events' = events \o s /\ cache' = cache
        /\ \A u \in 1 .. MaxUnits : StateIn(units', u) = StateAfter(m, u)
    BY <1>8, ReadResponseDoes DEF cacheVars
  <2>2. s \in Seq(Events)
    BY <2>1, ReportedTyped
  <2>3. /\ m.op \in {"state", "leds", "nak"} /\ m.unit \in 1 .. MaxUnits
        /\ m.op = "state" => m.state \in StateType
    BY <2>1 DEF Messages
  <2>4. units \in Seq(Contexts) /\ Len(units) \in Nat
    BY DEF Typed, ChainTyped
  <2>5. ASSUME NEW u \in 1 .. MaxUnits
        PROVE  Latest(events', UnitStateEvent(u, CachedState(u)), Concerning(u),
                      Agreeing(u, StateAfter(m, u)))
    <3>1. CASE m.op # "state"
      <4>1. \A j \in 1 .. Len(s) : s[j] \notin Concerning(u)
        <5>1. CASE m.op = "leds"
          <6>1. s = <<UnitLedsEvent(m.unit)>> /\ UnitLedsEvent(m.unit).type = "leds"
            BY <2>1, <5>1, ReportedOther DEF UnitLedsEvent
          <6> QED
            BY <6>1 DEF Concerning
        <5>2. CASE m.op = "nak"
          <6>1. s = <<>>
            BY <2>1, <5>2, ReportedOther
          <6> QED
            BY <6>1
        <5> QED
          BY <2>3, <3>1, <5>1, <5>2
      <4>2. StateAfter(m, u) = UnitState(u)
        BY <3>1 DEF StateAfter
      <4> HIDE DEF m, s
      <4> QED
        BY <1>0, <1>1, <2>1, <2>2, <4>1, <4>2, LatestOthers
    <3>2. CASE m.op = "state" /\ u = m.unit
      <4>1. /\ s[Len(s)] = UnitStateEvent(u, m.state) /\ Len(s) \in {1, 2}
        BY <2>1, <3>2, ReportedState
      <4>2. UnitStateEvent(u, m.state) \in Agreeing(u, m.state)
        BY <2>3, <3>2 DEF UnitStateEvent, Agreeing, Concerning, Events
      <4>3. StateAfter(m, u) = m.state
        BY <3>2 DEF StateAfter
      <4> HIDE DEF m, s
      <4>4. Len(s) \in 1 .. Len(s) /\ \A j \in Len(s) + 1 .. Len(s) : s[j] \notin Concerning(u)
        BY <4>1
      <4>5. s[Len(s)] \in Agreeing(u, StateAfter(m, u))
        BY <4>1, <4>2, <4>3
      <4> QED
        BY <1>0, <2>1, <2>2, <4>4, <4>5, LatestLater
    <3>3. CASE m.op = "state" /\ u # m.unit /\ Truncates(m) /\ m.unit < u
      <4>1. /\ Len(s) = 2 /\ s[1] = ChainTruncated(m.unit) /\ s[2] = UnitStateEvent(m.unit, m.state)
        BY <2>1, <3>3, ReportedState
      <4>2. ChainTruncated(m.unit) \in Agreeing(u, StateAfter(m, u))
        BY <2>3, <3>3 DEF ChainTruncated, Agreeing, Concerning, Events
      <4>3. UnitStateEvent(m.unit, m.state) \notin Concerning(u)
        BY <3>3 DEF UnitStateEvent, Concerning
      <4> HIDE DEF m, s
      <4>4. 1 \in 1 .. Len(s) /\ \A j \in 1 + 1 .. Len(s) : s[j] \notin Concerning(u)
        BY <4>1, <4>3
      <4>5. s[1] \in Agreeing(u, StateAfter(m, u))
        BY <4>1, <4>2
      <4> QED
        BY <1>0, <2>1, <2>2, <4>4, <4>5, LatestLater
    <3>4. CASE m.op = "state" /\ u # m.unit /\ ~(Truncates(m) /\ m.unit < u)
      <4>1. StateAfter(m, u) = UnitState(u)
        <5>1. CASE ~m.state.down /\ u > m.unit
          <6>1. ~Truncates(m)
            BY <2>3, <3>4, <5>1
          <6>2. Len(Extended(m.unit)) <= m.unit
            <7>1. Len(Extended(m.unit)) \in Nat /\ m.unit \in Nat
              BY <2>3, <2>4, ExtendedUnits DEF Max
            <7> QED
              BY <5>1, <6>1, <7>1 DEF Truncates
          <6>3. Len(units) <= m.unit
            BY <2>3, <2>4, <6>2, ExtendedUnits DEF Max
          <6>4. UnitState(u) = NoState
            BY <2>3, <2>4, <5>1, <6>3 DEF UnitState, StateIn
          <6> QED
            BY <3>4, <5>1, <6>4 DEF StateAfter
        <5>2. CASE ~(~m.state.down /\ u > m.unit)
          BY <3>4, <5>2 DEF StateAfter
        <5> QED
          BY <5>1, <5>2
      <4>2. \A j \in 1 .. Len(s) : s[j] \notin Concerning(u)
        <5>1. UnitStateEvent(m.unit, m.state) \notin Concerning(u)
          BY <3>4 DEF UnitStateEvent, Concerning
        <5>2. CASE Truncates(m)
          <6>1. /\ Len(s) = 2 /\ s[1] = ChainTruncated(m.unit)
                /\ s[2] = UnitStateEvent(m.unit, m.state)
            BY <2>1, <3>4, <5>2, ReportedState
          <6>2. ChainTruncated(m.unit) \notin Concerning(u)
            BY <3>4, <5>2 DEF ChainTruncated, Concerning
          <6> HIDE DEF s
          <6> QED
            BY <5>1, <6>1, <6>2
        <5>3. CASE ~Truncates(m)
          <6>1. Len(s) = 1 /\ s[Len(s)] = UnitStateEvent(m.unit, m.state)
            BY <2>1, <3>4, <5>3, ReportedState, Zenon
          <6> HIDE DEF s
          <6> QED
            BY <5>1, <6>1
        <5> QED
          BY <5>2, <5>3
      <4> HIDE DEF m, s
      <4> QED
        BY <1>0, <1>1, <2>1, <2>2, <4>1, <4>2, LatestOthers
    <3> QED
      BY <3>1, <3>2, <3>3, <3>4
  <2> HIDE DEF m, s
  <2> QED
    BY <1>2, <2>1, <2>5 DEF CachedState
<1>9. ASSUME HandleEvent PROVE StateSaid'
  <2> DEFINE e == Head(events)
  <2>1. /\ events # <<>> /\ e \in Events /\ events' = Tail(events) /\ units' = units
        /\ \A u \in 1 .. MaxUnits : StateIn(cache'.units, u) = CachedAfter(e, u)
    BY <1>9, HandleDoes
  <2> HIDE DEF e
  <2>2. ASSUME NEW u \in 1 .. MaxUnits
        PROVE  Latest(events', UnitStateEvent(u, CachedAfter(e, u)), Concerning(u),
                      Agreeing(u, UnitState(u)))
    <3> DEFINE b == UnitStateEvent(u, CachedState(u))
               b2 == UnitStateEvent(u, CachedAfter(e, u))
               Good == Agreeing(u, UnitState(u))
               Kept == /\ e \in Good => b2 \in Good
                       /\ e \notin Concerning(u) /\ b \in Good => b2 \in Good
    <3>1. UnitStateEvent(u, NoState) \in Good
      BY DEF UnitStateEvent, Agreeing
    <3>2. ASSUME e.type = "state" /\ e.unit = u
          PROVE  Kept
      <4>1. e \in Concerning(u) /\ e.state \in StateType
        BY <2>1, <3>2 DEF Concerning, Events
      <4>2. b2 = UnitStateEvent(u, e.state) /\ UnitStateEvent(u, e.state) \in Concerning(u)
        BY <3>2, <4>1 DEF CachedAfter, UnitStateEvent, Concerning, Events
      <4>3. e \in Good => b2 \in Good
        BY <3>2, <4>2 DEF UnitStateEvent, Agreeing
      <4> HIDE DEF b, b2, Good
      <4> QED
        BY <4>1, <4>3 DEF Kept
    <3>3. ASSUME e.type = "truncated" /\ e.units < u
          PROVE  Kept
      <4>1. b2 \in Good /\ e \in Concerning(u)
        BY <2>1, <3>1, <3>3 DEF CachedAfter, Concerning
      <4> HIDE DEF b, b2, Good
      <4> QED
        BY <4>1 DEF Kept
    <3>4. ASSUME ~(e.type = "state" /\ e.unit = u) /\ ~(e.type = "truncated" /\ e.units < u)
          PROVE  Kept
      <4>1. b2 = b
        BY <3>4 DEF CachedAfter
      <4>2. e \notin Concerning(u) /\ e # UnitStateEvent(u, NoState)
        BY <3>4 DEF Concerning, UnitStateEvent
      <4>3. e \notin Good
        BY <4>2 DEF Agreeing
      <4> HIDE DEF b, b2, Good
      <4> QED
        BY <4>1, <4>3 DEF Kept
    <3>5. Kept
      BY <3>2, <3>3, <3>4
    <3> HIDE DEF b, b2, Good
    <3>6. Latest(events, b, Concerning(u), Good)
      BY <1>1 DEF b, Good
    <3>7. Latest(events', b2, Concerning(u), Good)
      BY <1>0, <2>1, <3>5, <3>6, LatestTail DEF e, Kept
    <3> QED
      BY <3>7 DEF b2, Good
  <2> QED
    BY <1>2, <2>1, <2>2 DEF UnitState
<1>10. ASSUME NEW c \in Edids, SetEdids(c), UNCHANGED <<events, units>> PROVE StateSaid'
  BY <1>0, <1>3, <1>10, EdidsTell DEF UnitState
<1>11. ASSUME Ensure, Apart PROVE StateSaid'
  <2>1. events' = events /\ \A u \in 1 .. MaxUnits : StateIn(units', u) = UnitState(u)
    BY <1>11, EnsureDoes
  <2> QED
    BY <1>3, <1>11, <2>1 DEF cacheVars
<1>12. ASSUME NEW v \in 1 .. MaxUnits, GiveUp(v), Apart PROVE StateSaid'
  <2>1. events' = events /\ \A u \in 1 .. MaxUnits : StateIn(units', u) = UnitState(u)
    BY <1>12, GiveUpDoes
  <2> QED
    BY <1>3, <1>12, <2>1 DEF cacheVars
<1>13. ASSUME UNCHANGED <<events, units, cache>> PROVE StateSaid'
  BY <1>3, <1>13 DEF UnitState
<1>14. ASSUME Serve \/ (\E u \in 1 .. MaxUnits : Settle(u) \/ Shorten(u))
              \/ Unplug \/ Plug \/ Fail \/ ReadTorn, Apart
       PROVE  StateSaid'
  <2>1. UNCHANGED <<events, units>>
    BY <1>14, Zenon DEF Serve, Settle, Shorten, Unplug, Plug, Fail, ReadTorn
  <2> QED
    BY <1>13, <1>14, <2>1 DEF cacheVars
<1>15. ASSUME LoadFails \/ Bids PROVE StateSaid'
  BY <1>13, <1>15 DEF LoadFails, Bids, chainVars, cacheVars
<1>16. \A c \in Edids : LoadSucceeds(c) \/ Edit(c) => SetEdids(c) /\ UNCHANGED <<events, units>>
  BY DEF LoadSucceeds, Edit
<1> QED
  BY <1>5, <1>6, <1>7, <1>8, <1>9, <1>10, <1>11, <1>12, <1>14, <1>15, <1>16, NextCases, PressBids,
     ForwardBids, Zenon

-----------------------------------------------------------------------------
(* The states of the units of the hardware *)

StateWaits == \E i \in 1 .. Len(req) : req[i].op = "state"
GoodOf(u, h) == {m \in About(u) : m.state = StateOf(u, h)}

\* The units say more.
LEMMA SayingSaid ==
  ASSUME Typed, NEW msgs, NEW all, Saying(msgs, all), units' = units,
         NEW u \in 1 .. Len(hw'),
         all \/ Latest(resp, Heard(u, UnitState(u)), About(u), GoodOf(u, hw))
  PROVE  Latest(resp', Heard(u, StateIn(units', u)), About(u), GoodOf(u, hw'))
<1>1. /\ msgs \in Seq(Messages) /\ resp' = resp \o msgs /\ resp \in Seq(Messages)
  BY DEF Saying, Typed, LineTyped
<1>2. CASE SaysOf(msgs, u, hw')
  <2>1. PICK k \in 1 .. Len(msgs) : /\ msgs[k] \in GoodOf(u, hw')
                                    /\ \A j \in k + 1 .. Len(msgs) : msgs[j] \notin About(u)
    BY <1>2 DEF SaysOf, GoodOf
  <2> QED
    BY <1>1, <2>1, LatestLater
<1>3. CASE ~all /\ Quiet(msgs, u) /\ StateOf(u, hw') = StateOf(u, hw)
  <2>1. Latest(resp', Heard(u, UnitState(u)), About(u), GoodOf(u, hw))
    BY <1>1, <1>3, LatestOthers DEF Quiet
  <2>2. GoodOf(u, hw') = GoodOf(u, hw) /\ StateIn(units', u) = UnitState(u)
    BY <1>3 DEF GoodOf, UnitState
  <2> QED
    BY <2>1, <2>2
<1> QED
  BY <1>2, <1>3 DEF Saying

LEMMA SayingEnds ==
  ASSUME LineTyped, Ends, NEW msgs, NEW all, Saying(msgs, all)
  PROVE  Ends'
<1>1. /\ msgs \in Seq(Messages) /\ resp' = resp \o msgs /\ resp \in Seq(Messages)
      /\ Len(hw') \in 1 .. Len(hw) /\ Len(hw) \in Nat
      /\ \A k \in 1 .. Len(msgs) :
           msgs[k].op = "state" /\ ~msgs[k].state.down => msgs[k].unit >= Len(hw')
  BY ChainAssumption DEF Saying, LineTyped
<1>2. ASSUME NEW i \in 1 .. Len(resp'), resp'[i].op = "state" /\ ~resp'[i].state.down
      PROVE  resp'[i].unit >= Len(hw')
  <2>1. CASE i <= Len(resp)
    <3>1. i \in 1 .. Len(resp) /\ resp'[i] = resp[i]
      BY <1>1, <2>1
    <3>2. resp[i].unit >= Len(hw) /\ resp[i].unit \in Nat
      BY <1>1, <1>2, <3>1, ChainAssumption DEF Ends, Messages
    <3> QED
      BY <1>1, <3>1, <3>2
  <2>2. CASE i > Len(resp)
    <3>1. i - Len(resp) \in 1 .. Len(msgs) /\ resp'[i] = msgs[i - Len(resp)]
      BY <1>1, <2>2
    <3> QED
      BY <1>1, <1>2, <3>1
  <2> QED
    BY <1>1, <2>1, <2>2
<1> QED
  BY <1>2 DEF Ends

\* The rest of the responses, with other marks.
LEMMA RestEnds ==
  ASSUME Ends, NEW q \in Seq(Messages), Remarked(resp', q), Len(hw') = Len(hw),
         \A i \in 1 .. Len(q) : \E j \in 1 .. Len(resp) : q[i] = resp[j]
  PROVE  Ends'
<1>1. /\ Len(resp') = Len(q)
      /\ \A i \in 1 .. Len(q) : /\ resp'[i].op = q[i].op /\ resp'[i].unit = q[i].unit
                                /\ resp'[i].state = q[i].state
  BY RemarkedMessages
<1>2. ASSUME NEW i \in 1 .. Len(resp'), resp'[i].op = "state" /\ ~resp'[i].state.down
      PROVE  resp'[i].unit >= Len(hw')
  <2>1. PICK j \in 1 .. Len(resp) : q[i] = resp[j]
    BY <1>1
  <2>2. resp[j].op = "state" /\ ~resp[j].state.down /\ resp'[i].unit = resp[j].unit
    BY <1>1, <1>2, <2>1
  <2> QED
    BY <2>2 DEF Ends
<1> QED
  BY <1>2 DEF Ends

LEMMA EndsStep ==
  ASSUME Typed, Ends, missed = {}, Next
  PROVE  Ends'
<1> USE DEF Apart, chain, line
<1>0. LineTyped /\ resp \in Seq(Messages)
  BY DEF Typed, LineTyped
<1>1. ASSUME UNCHANGED <<resp, hw>> PROVE Ends'
  BY <1>1 DEF Ends
<1>2. ASSUME Serve PROVE Ends'
  BY <1>0, <1>2, ServeDoes, SayingEnds
<1>3. ASSUME NEW u \in 1 .. MaxUnits, Settle(u) PROVE Ends'
  BY <1>0, <1>3, SettleDoes, SayingEnds
<1>4. ASSUME NEW n \in 1 .. MaxUnits, Shorten(n) PROVE Ends'
  <2>1. CASE \E msgs : Saying(msgs, FALSE)
    BY <1>0, <2>1, SayingEnds
  <2>2. CASE resp' = resp
    <3>1. Len(hw') \in 1 .. Len(hw) /\ Len(hw) \in Nat
      <4>1. Len(hw') \in 1 .. Len(hw)
        BY <1>4, ShortenDoes
      <4> QED
        BY <1>0, <4>1, ChainAssumption DEF LineTyped
    <3>2. \A i \in 1 .. Len(resp) : resp[i].unit \in Nat
      BY <1>0, ChainAssumption DEF Messages
    <3> QED
      BY <2>2, <3>1, <3>2 DEF Ends
  <2> QED
    BY <1>4, <2>1, <2>2, ShortenDoes
<1>5. ASSUME NEW u \in 1 .. MaxUnits, GiveUp(u) PROVE Ends'
  <2>1. Remarked(resp', resp) /\ hw' = hw
    BY <1>5, GiveUpDoes
  <2>2. \A i \in 1 .. Len(resp) : \E j \in 1 .. Len(resp) : resp[i] = resp[j]
    OBVIOUS
  <2> QED
    BY <1>0, <2>1, <2>2, RestEnds
<1>6. ASSUME ReadResponse PROVE Ends'
  <2>1. Remarked(resp', Tail(resp)) /\ hw' = hw /\ resp # <<>>
    BY <1>6, ReadResponseDoes
  <2>2. Tail(resp) \in Seq(Messages)
    BY <1>0, <2>1
  <2>3. ASSUME NEW i \in 1 .. Len(Tail(resp))
        PROVE  \E j \in 1 .. Len(resp) : Tail(resp)[i] = resp[j]
    <3>1. i + 1 \in 1 .. Len(resp) /\ Tail(resp)[i] = resp[i + 1]
      BY <1>0, <2>1
    <3> QED
      BY <3>1
  <2> QED
    BY <2>1, <2>2, <2>3, RestEnds
<1>7. ASSUME resp' = <<>> PROVE Ends'
  BY <1>7 DEF Ends
<1>8. Unplug \/ Open \/ ReadTorn => resp' = <<>>
  BY DEF Unplug, Open, ReadTorn
<1>9. ASSUME Plug \/ Missing \/ Fail \/ Consume \/ Ensure PROVE Ends'
  <2>1. UNCHANGED <<resp, hw>>
    BY <1>9, Zenon DEF Plug, Missing, Fail, Consume, Ensure
  <2> QED
    BY <1>1, <2>1
<1>10. ASSUME HandleEvent \/ LoadFails \/ Bids \/ \E c \in Edids : LoadSucceeds(c) \/ Edit(c)
       PROVE  Ends'
  <2>1. UNCHANGED <<resp, hw>>
    BY <1>10, Zenon DEF HandleEvent, LoadFails, Bids, LoadSucceeds, Edit, chainVars
  <2> QED
    BY <1>1, <2>1
<1> QED
  BY <1>2, <1>3, <1>4, <1>5, <1>6, <1>7, <1>8, <1>9, <1>10, NextCases, PressBids, ForwardBids, Zenon

LEMMA HwStep ==
  ASSUME Typed, HwSaid, Ends, missed = {}, Next
  PROVE  HwSaid'
<1> USE DEF Apart, chain, line
<1>0. /\ LineTyped /\ resp \in Seq(Messages) /\ req \in Seq(Requests) /\ Len(hw) \in 1 .. MaxUnits
      /\ Len(hw) \in Nat /\ MaxUnits \in Nat
  BY ChainAssumption DEF Typed, LineTyped
<1>1. ASSUME plugged, ~torn, pc # "closed", ~StateWaits, NEW u \in 1 .. Len(hw)
      PROVE  Latest(resp, Heard(u, UnitState(u)), About(u), GoodOf(u, hw))
  BY <1>1 DEF HwSaid, StateWaits, GoodOf
<1>2. ASSUME plugged' /\ ~torn' /\ pc' # "closed" /\ ~StateWaits' =>
               \A u \in 1 .. Len(hw') :
                 Latest(resp', Heard(u, StateIn(units', u)), About(u), GoodOf(u, hw'))
      PROVE  HwSaid'
  BY <1>2 DEF HwSaid, StateWaits, GoodOf, UnitState
\* the line and the contexts are left alone, or requests are added
<1>3. ASSUME plugged' = plugged, torn' = torn, pc' # "closed" => pc # "closed",
             hw' = hw, resp' = resp, StateWaits => StateWaits',
             \A u \in 1 .. MaxUnits : StateIn(units', u) = UnitState(u)
      PROVE  HwSaid'
  BY <1>0, <1>1, <1>2, <1>3
<1>4. ASSUME NEW s \in Seq(Requests), req' = req \o s, StateWaits PROVE StateWaits'
  <2>1. PICK i \in 1 .. Len(req) : req[i].op = "state"
    BY <1>4 DEF StateWaits
  <2>2. i \in 1 .. Len(req') /\ req'[i] = req[i]
    BY <1>0, <1>4
  <2> QED
    BY <2>1, <2>2 DEF StateWaits
<1>5. ASSUME Remarked(req', req), StateWaits PROVE StateWaits'
  BY <1>0, <1>5, RemarkedRequests DEF StateWaits
\* the units say more
<1>6. ASSUME NEW msgs, NEW all, Saying(msgs, all), UNCHANGED <<plugged, torn, pc, units>>,
             all \/ (StateWaits => StateWaits')
      PROVE  HwSaid'
  <2>1. ASSUME plugged, ~torn, pc # "closed", ~StateWaits', NEW u \in 1 .. Len(hw')
        PROVE  Latest(resp', Heard(u, StateIn(units', u)), About(u), GoodOf(u, hw'))
    <3>1. u \in 1 .. Len(hw)
      <4>1. Len(hw') \in 1 .. Len(hw)
        BY <1>6 DEF Saying
      <4> QED
        BY <1>0, <4>1
    <3>2. all \/ Latest(resp, Heard(u, UnitState(u)), About(u), GoodOf(u, hw))
      BY <1>1, <1>6, <2>1, <3>1
    <3> QED
      BY <1>6, <3>2, SayingSaid
  <2> QED
    BY <1>2, <1>6, <2>1
<1>7. ASSUME Serve PROVE HwSaid'
  <2>1. PICK msgs : Saying(msgs, Head(req).op = "state")
    BY <1>7, ServeDoes
  <2>2. UNCHANGED <<plugged, torn, pc, units>>
    BY <1>7, Zenon DEF Serve
  <2>3. ASSUME Head(req).op # "state", StateWaits PROVE StateWaits'
    <3>1. req # <<>> /\ req' = Tail(req)
      BY <1>7, ServeDoes
    <3>2. PICK i \in 1 .. Len(req) : req[i].op = "state"
      BY <2>3 DEF StateWaits
    <3>3. i - 1 \in 1 .. Len(req') /\ req'[i - 1] = req[i]
      BY <1>0, <2>3, <3>1, <3>2
    <3> QED
      BY <3>2, <3>3 DEF StateWaits
  <2> QED
    BY <1>6, <2>1, <2>2, <2>3
<1>8. ASSUME NEW w \in 1 .. MaxUnits, Settle(w) PROVE HwSaid'
  <2>1. PICK msgs : Saying(msgs, FALSE)
    BY <1>8, SettleDoes
  <2>2. UNCHANGED <<plugged, torn, pc, units, req>>
    BY <1>8, Zenon DEF Settle
  <2>3. StateWaits => StateWaits'
    BY <2>2 DEF StateWaits
  <2> QED
    BY <1>6, <2>1, <2>2, <2>3
<1>9. ASSUME NEW n \in 1 .. MaxUnits, Shorten(n) PROVE HwSaid'
  <2>1. UNCHANGED <<plugged, torn, pc, units, req>>
    BY <1>9, Zenon DEF Shorten
  <2>2. StateWaits => StateWaits'
    BY <2>1 DEF StateWaits
  <2>3. CASE plugged
    <3>1. PICK msgs : Saying(msgs, FALSE)
      BY <1>9, <2>3, ShortenDoes
    <3> QED
      BY <1>6, <2>1, <2>2, <3>1
  <2>4. CASE ~plugged
    BY <1>2, <2>1, <2>4
  <2> QED
    BY <2>3, <2>4
<1>10. ASSUME ~plugged' \/ torn' \/ pc' = "closed" PROVE HwSaid'
  BY <1>10 DEF HwSaid
<1>11. Unplug \/ Plug \/ Missing \/ Fail \/ ReadTorn => ~plugged' \/ torn' \/ pc' = "closed"
  <2>1. Unplug => ~plugged'
    BY DEF Unplug
  <2>2. Plug \/ Missing \/ Fail => pc' = "closed"
    BY DEF Plug, Missing, Fail
  <2>3. ASSUME ReadTorn PROVE torn'
    <3>1. torn' = torn /\ torn
      BY <2>3 DEF ReadTorn
    <3> QED
      BY <3>1, Zenon
  <2> QED
    BY <2>1, <2>2, <2>3
<1>12. ASSUME Open PROVE HwSaid'
  <2>1. req' = <<Query("state"), Query("leds")>>
    BY <1>12 DEF Open
  <2>2. Len(req') = 2 /\ req'[1].op = "state"
    BY <2>1 DEF Query
  <2>3. StateWaits'
    BY <2>2 DEF StateWaits
  <2> QED
    BY <1>2, <2>3
<1>13. ASSUME NEW v \in 1 .. MaxUnits, GiveUp(v) PROVE HwSaid'
  <2>1. /\ \A u \in 1 .. MaxUnits : StateIn(units', u) = UnitState(u)
        /\ Remarked(req', req) /\ Remarked(resp', resp)
        /\ UNCHANGED <<plugged, hw, torn, pc>>
    BY <1>13, GiveUpDoes
  <2>2. StateWaits => StateWaits'
    BY <1>5, <2>1
  <2>3. /\ Len(resp') = Len(resp) /\ resp' \in Seq(Messages)
        /\ \A i \in 1 .. Len(resp) : /\ resp'[i].op = resp[i].op /\ resp'[i].unit = resp[i].unit
                                     /\ resp'[i].state = resp[i].state
    BY <1>0, <2>1, RemarkedMessages
  <2>4. ASSUME plugged, ~torn, pc # "closed", ~StateWaits, NEW u \in 1 .. Len(hw)
        PROVE  Latest(resp', Heard(u, StateIn(units', u)), About(u), GoodOf(u, hw'))
    <3>1. Latest(resp, Heard(u, UnitState(u)), About(u), GoodOf(u, hw))
      BY <1>1, <2>4
    <3>2. \A i \in 1 .. Len(resp) : /\ resp[i] \in GoodOf(u, hw) => resp'[i] \in GoodOf(u, hw)
                                    /\ resp'[i] \in About(u) => resp[i] \in About(u)
      BY <1>0, <2>3 DEF GoodOf, About
    <3>3. Latest(resp', Heard(u, UnitState(u)), About(u), GoodOf(u, hw))
      BY <1>0, <2>3, <3>1, <3>2, LatestMap
    <3>4. StateIn(units', u) = UnitState(u) /\ GoodOf(u, hw') = GoodOf(u, hw)
      BY <1>0, <2>1 DEF GoodOf
    <3> QED
      BY <3>3, <3>4
  <2> QED
    BY <1>2, <2>1, <2>2, <2>4
<1>14. ASSUME Consume PROVE HwSaid'
  <2>1. /\ UNCHANGED <<plugged, torn, hw, resp, units>> /\ pc # "closed"
        /\ (req' = req \/ \E r \in Requests : req' = Append(req, r))
    BY <1>14, ConsumeDoes
  <2>2. StateWaits => StateWaits'
    <3>1. CASE req' = req
      BY <3>1 DEF StateWaits
    <3>2. CASE \E r \in Requests : req' = Append(req, r)
      <4>1. PICK r \in Requests : req' = Append(req, r)
        BY <3>2
      <4>2. <<r>> \in Seq(Requests) /\ req' = req \o <<r>>
        BY <1>0, <4>1, AppendIsConcat
      <4> QED
        BY <1>4, <4>2
    <3> QED
      BY <2>1, <3>1, <3>2
  <2> QED
    BY <1>3, <2>1, <2>2 DEF UnitState
<1>15. ASSUME Ensure PROVE HwSaid'
  <2>1. /\ UNCHANGED <<plugged, torn, hw, resp>> /\ pc # "closed"
        /\ \A u \in 1 .. MaxUnits : StateIn(units', u) = UnitState(u)
        /\ \E s \in Seq(Requests) : req' = req \o s
    BY <1>15, EnsureDoes
  <2>2. StateWaits => StateWaits'
    BY <1>4, <2>1
  <2> QED
    BY <1>3, <2>1, <2>2
<1>16. ASSUME ReadResponse PROVE HwSaid'
  <2> DEFINE m == Head(resp)
  <2>1. /\ resp # <<>> /\ m \in Messages /\ plugged /\ ~torn /\ pc = "loop"
        /\ \A u \in 1 .. MaxUnits : StateIn(units', u) = StateAfter(m, u)
        /\ Remarked(resp', Tail(resp)) /\ Remarked(req', req)
        /\ UNCHANGED <<plugged, hw, torn, pc>>
    BY <1>16, ReadResponseDoes
  <2>2. StateWaits => StateWaits'
    BY <1>5, <2>1
  <2>3. /\ m.unit \in 1 .. MaxUnits
        /\ m.op = "state" => m.state \in StateType
        /\ m.op = "state" /\ ~m.state.down => m.unit >= Len(hw)
    <3>1. 1 \in 1 .. Len(resp) /\ resp[1] = m
      BY <1>0, <2>1
    <3> QED
      BY <2>1, <3>1 DEF Ends, Messages
  <2>4. /\ Tail(resp) \in Seq(Messages) /\ Len(Tail(resp)) \in Nat
    BY <1>0, <2>1
  <2>5. /\ Len(resp') = Len(Tail(resp)) /\ resp' \in Seq(Messages)
        /\ \A i \in 1 .. Len(Tail(resp)) :
             /\ resp'[i].op = Tail(resp)[i].op /\ resp'[i].unit = Tail(resp)[i].unit
             /\ resp'[i].state = Tail(resp)[i].state
    BY <2>1, <2>4, RemarkedMessages
  <2> HIDE DEF m
  <2>6. ASSUME ~StateWaits, NEW u \in 1 .. Len(hw)
        PROVE  Latest(resp', Heard(u, StateIn(units', u)), About(u), GoodOf(u, hw'))
    <3> DEFINE b == Heard(u, UnitState(u))
               b2 == Heard(u, StateAfter(m, u))
               Good == GoodOf(u, hw)
    <3>1. Latest(resp, b, About(u), Good)
      BY <1>1, <2>1, <2>6
    <3>2. m \in Good => b2 \in Good
      <4>1. m \in Good => /\ m.op = "state" /\ m.unit = u /\ m.state = StateOf(u, hw)
                          /\ StateAfter(m, u) = m.state
        BY DEF GoodOf, About, StateAfter
      <4>2. m \in Good => Heard(u, m.state) \in Good
        BY <1>0, <2>3, <4>1 DEF GoodOf, About, Heard, Messages
      <4> QED
        BY <4>1, <4>2
    <3>3. m \notin About(u) /\ b \in Good => b2 \in Good
      BY <1>0, <2>1, <2>3 DEF About, StateAfter
    <3> HIDE DEF b, b2, Good
    <3>4. Latest(Tail(resp), b2, About(u), Good)
      BY <1>0, <2>1, <3>1, <3>2, <3>3, LatestTail DEF m
    <3>5. \A i \in 1 .. Len(Tail(resp)) : /\ Tail(resp)[i] \in Good => resp'[i] \in Good
                                          /\ resp'[i] \in About(u) => Tail(resp)[i] \in About(u)
      BY <2>4, <2>5 DEF Good, GoodOf, About
    <3>6. Latest(resp', b2, About(u), Good)
      BY <2>4, <2>5, <3>4, <3>5, LatestMap
    <3>7. StateIn(units', u) = StateAfter(m, u) /\ GoodOf(u, hw') = GoodOf(u, hw)
      BY <1>0, <2>1 DEF GoodOf
    <3> QED
      BY <3>6, <3>7 DEF b2, Good
  <2> QED
    BY <1>2, <2>1, <2>2, <2>6
<1>17. ASSUME HandleEvent \/ LoadFails \/ Bids \/ \E c \in Edids : LoadSucceeds(c) \/ Edit(c)
       PROVE  HwSaid'
  <2>1. UNCHANGED <<plugged, hw, line, pc, units>>
    BY <1>17, Zenon DEF HandleEvent, LoadFails, Bids, LoadSucceeds, Edit, chainVars
  <2>2. StateWaits => StateWaits'
    BY <2>1 DEF StateWaits
  <2> QED
    BY <1>3, <2>1, <2>2 DEF UnitState
<1> QED
  BY <1>7, <1>8, <1>9, <1>10, <1>11, <1>12, <1>13, <1>14, <1>15, <1>16, <1>17, NextCases, PressBids,
     ForwardBids, Zenon

-----------------------------------------------------------------------------
(* The theorems *)

LEMMA InitIInv == Init => IInv
<1> SUFFICES ASSUME Init
             PROVE  IInv
  OBVIOUS
<1> USE DEF Init, ChainInit, CacheInit
<1>1. Flags
  BY DEF Flags
<1>2. LineTyped
  <2>1. hw \in Seq(HwType) /\ Len(hw) \in 1 .. MaxUnits
    BY ChainAssumption
  <2>2. req \in Seq(Requests) /\ resp \in Seq(Messages) /\ Len(resp) = 0
    OBVIOUS
  <2> QED
    BY <2>1, <2>2, ChainAssumption DEF LineTyped
<1>3. ChainTyped
  <2>1. /\ units \in Seq(Contexts) /\ Len(units) = 0
        /\ cmds \in Seq(Commands) /\ events \in Seq(Events)
    OBVIOUS
  <2>2. active \in Ports \cup {-1} /\ edids \in Edids
    BY SwitchAssumption
  <2> QED
    BY <2>1, <2>2, ChainAssumption DEF ChainTyped
<1>4. CacheTyped
  <2>1. <<>> \in Seq(InfoType) /\ Len(<<>>) = 0
    OBVIOUS
  <2>2. cache \in Caches /\ cache.units = <<>>
    BY <2>1, SwitchAssumption DEF Caches
  <2> QED
    BY <2>1, <2>2, ChainAssumption DEF CacheTyped
<1>5. HwSaid /\ Ends /\ EdidsSaid /\ ClientsAreTold
  BY DEF HwSaid, Ends, EdidsSaid, ClientsAreTold
<1>6. PortSaid
  BY LatestEmpty DEF PortSaid
<1>7. StateSaid
  <2>1. \A u \in 1 .. MaxUnits : CachedState(u) = NoState
    BY DEF CachedState, StateIn
  <2>2. \A u \in 1 .. MaxUnits :
          UnitStateEvent(u, CachedState(u)) \in Agreeing(u, UnitState(u))
    BY <2>1 DEF UnitStateEvent, Agreeing
  <2> QED
    BY <2>2, LatestEmpty DEF StateSaid
<1> QED
  BY <1>1, <1>2, <1>3, <1>4, <1>5, <1>6, <1>7 DEF IInv, Typed

LEMMA StutterIInv == IInv /\ UNCHANGED vars => IInv'
<1> SUFFICES ASSUME IInv, UNCHANGED vars
             PROVE  IInv'
  OBVIOUS
<1> USE DEF IInv, vars, chainVars, cacheVars, kvmd, chain, line
<1>1. Typed'
  BY TypedStep DEF ClientsAreTold
<1>2. HwSaid' /\ Ends'
  BY DEF HwSaid, Ends, UnitState
<1>3. PortSaid' /\ StateSaid'
  BY DEF PortSaid, StateSaid, UnitState, CachedState
<1>4. EdidsSaid'
  BY DEF EdidsSaid, Finding
<1> QED
  BY <1>1, <1>2, <1>3, <1>4 DEF ClientsAreTold

\* Once its queue is read, every reader agrees with its writer, and this is
\* kept by every step.
THEOREM Inductive == Spec => []IInv
<1>1. Init => IInv
  BY InitIInv
<1>2. IInv /\ [Next]_vars => IInv'
  <2> SUFFICES ASSUME IInv, [Next]_vars
               PROVE  IInv'
    OBVIOUS
  <2>1. CASE Next
    <3>1. Typed /\ missed = {}
      BY DEF IInv, ClientsAreTold
    <3>2. Typed' /\ missed' = {}
      BY <2>1, <3>1, TypedStep
    <3> QED
      BY <2>1, <3>1, <3>2, HwStep, EndsStep, PortStep, StateStep, EdidsStep DEF IInv, ClientsAreTold
  <2>2. CASE UNCHANGED vars
    BY <2>2, StutterIInv
  <2> QED
    BY <2>1, <2>2
<1> QED
  BY <1>1, <1>2, PTL DEF Spec

\* Every variable of the subprocess, the line and the cache has its type; a
\* port or a unit that does not exist is never stored nor named on the line.
THEOREM TypeCorrect == Spec => [](TypeOK /\ Typed)
<1>1. IInv => TypeOK /\ Typed
  BY TypedIsTypeOK DEF IInv
<1> QED
  BY <1>1, Inductive, PTL

\* Every change of the port, the flag or the EDIDs in use queues a mask that
\* tells clients.
THEOREM ChangesAreTold == Spec => []ClientsAreTold
<1>1. IInv => ClientsAreTold
  BY DEF IInv
<1> QED
  BY <1>1, Inductive, PTL

\* With the events handled the cache shows the port and the states that the
\* subprocess acts on.
THEOREM CacheIsRight == Spec => []CacheFollowsChain
<1>1. IInv => CacheFollowsChain
  <2> SUFFICES ASSUME IInv, events = <<>>
               PROVE  /\ cache.active = active
                      /\ \A u \in 1 .. Len(cache.units) :
                           cache.units[u].state # NoState =>
                             u <= Len(units) /\ cache.units[u].state = units[u].state
    BY DEF CacheFollowsChain
  <2>1. cache.active = active
    <3>1. PortActivated(cache.active) \in {PortActivated(active)}
      BY LatestEmpty DEF IInv, PortSaid
    <3> QED
      BY <3>1 DEF PortActivated
  <2>2. ASSUME NEW u \in 1 .. Len(cache.units), cache.units[u].state # NoState
        PROVE  u <= Len(units) /\ cache.units[u].state = units[u].state
    <3>1. u \in 1 .. MaxUnits
      BY ChainAssumption DEF IInv, Typed, CacheTyped, Caches
    <3>2. UnitStateEvent(u, CachedState(u)) \in Agreeing(u, UnitState(u))
      BY <3>1, LatestEmpty DEF IInv, StateSaid
    <3>3. CachedState(u) \in {NoState, UnitState(u)}
      BY <3>2 DEF UnitStateEvent, Agreeing
    <3>4. CachedState(u) = cache.units[u].state
      BY <2>2 DEF CachedState, StateIn
    <3> QED
      BY <2>2, <3>3, <3>4 DEF UnitState, StateIn
  <2> QED
    BY <2>1, <2>2
<1> QED
  BY <1>1, Inductive, PTL

\* With the commands handled the subprocess applies the configuration that
\* KVMD shows.
THEOREM ConfigurationIsRight == Spec => []ConfigurationArrives
<1>1. IInv => ConfigurationArrives
  <2> SUFFICES ASSUME IInv, pc # "closed", cmds = <<>>, ~Finding, loaded
               PROVE  edids = cache.edids
    BY DEF ConfigurationArrives
  <2>1. EdidsCmd(edids) \in {EdidsCmd(cache.edids)}
    BY LatestEmpty DEF IInv, EdidsSaid
  <2> QED
    BY <2>1 DEF EdidsCmd
<1> QED
  BY <1>1, Inductive, PTL

\* At rest every unit of the hardware is configured as KVMD shows.
THEOREM HardwareIsRight == Spec => []RestIsConfigured
<1>1. IInv => RestIsConfigured
  <2> SUFFICES ASSUME IInv, AtRest, actual, loaded
               PROVE  CheckSynced([u \in 1 .. Len(hw) |-> [state |-> StateOf(u, hw)]],
                                  cache.active, cache.edids)
    BY DEF RestIsConfigured
  <2>1. cache.active = active
    <3>1. PortActivated(cache.active) \in {PortActivated(active)}
      BY LatestEmpty DEF IInv, PortSaid, AtRest
    <3> QED
      BY <3>1 DEF PortActivated
  <2>2. edids = cache.edids
    <3>1. EdidsCmd(edids) \in {EdidsCmd(cache.edids)}
      BY LatestEmpty DEF IInv, EdidsSaid, AtRest
    <3> QED
      BY <3>1 DEF EdidsCmd
  <2>3. /\ hw \in Seq(HwType) /\ Len(hw) \in 1 .. MaxUnits /\ Len(hw) \in Nat /\ MaxUnits \in Nat
        /\ units \in Seq(Contexts)
    BY ChainAssumption DEF IInv, Typed, LineTyped, ChainTyped
  <2>4. ASSUME NEW u \in 1 .. Len(hw)
        PROVE  /\ StateOf(u, hw) # NoState /\ ~StateOf(u, hw).busy
               /\ active >= 0 => StateOf(u, hw).ch = TargetChannel(u, active)
               /\ WrongEdids(u, StateOf(u, hw), edids) = {}
    <3>1. UnitState(u) = StateOf(u, hw)
      <4>1. ~\E i \in 1 .. Len(req) : req[i].op = "state"
        BY DEF AtRest
      <4>2. Latest(<<>>, Heard(u, UnitState(u)), About(u),
                   {m \in About(u) : m.state = StateOf(u, hw)})
        BY <4>1 DEF IInv, HwSaid, AtRest
      <4>3. Heard(u, UnitState(u)) \in {m \in About(u) : m.state = StateOf(u, hw)}
        BY <4>2, LatestEmpty
      <4> QED
        BY <4>3 DEF Heard
    <3>2. StateOf(u, hw) # NoState
      BY <2>3, StateOfTyped, ChainAssumption
    <3>3. u \in 1 .. Len(units) /\ units[u].state = StateOf(u, hw)
      BY <3>1, <3>2 DEF UnitState, StateIn
    <3>4. Change(u) = <<>> /\ ~units[u].pending /\ ~StateOf(u, hw).busy
      BY <3>3 DEF AtRest, Changing, StateOf
    <3>5. CanBeChanged(units[u])
      BY <3>2, <3>3, <3>4 DEF CanBeChanged
    <3>6. <<Switched(u)>> # <<>> /\ <<Written(u)>> # <<>>
      OBVIOUS
    <3>7. ~WrongPort(u, units[u].state) /\ WrongEdids(u, units[u].state, edids) = {}
      BY <3>4, <3>5, <3>6, ChangeIs
    <3> QED
      BY <3>2, <3>3, <3>4, <3>7 DEF WrongPort
  <2> DEFINE us == [u \in 1 .. Len(hw) |-> [state |-> StateOf(u, hw)]]
  <2>5. Len(us) = Len(hw) /\ \A u \in 1 .. Len(hw) : us[u].state = StateOf(u, hw)
    BY <2>3
  <2> HIDE DEF us
  <2>6. CheckSynced(us, active, edids)
    BY <2>4, <2>5 DEF CheckSynced
  <2> QED
    BY <2>1, <2>2, <2>6 DEF us
<1> QED
  BY <1>1, Inductive, PTL

=============================================================================
