---------------------------- MODULE HidOtgProofs ----------------------------
(***************************************************************************)
(* Proofs about HidOtg for any devices, keys, slots and bounds.            *)
(*                                                                         *)
(* That nothing stays down at rest is about what will be down when the     *)
(* process has carried out its queue: a key the clients have let go is up  *)
(* at some point of it, and nothing after that point presses it again      *)
(* (LetGo).  That the host has what the process holds is true whenever no  *)
(* attempt is left and the flag says online (InStep).                      *)
(***************************************************************************)
EXTENDS HidOtg, SequenceTheorems, FiniteSetTheorems, TLAPS

\* What may be down in a report: a keyboard has so many slots.
Fits(d) ==
  {keys \in SUBSET Held(d) :
     IsFiniteSet(keys) /\ (d = Keyboard => Cardinality(keys \ Mods) <= Slots)}

Domains ==
  /\ DOMAIN pc = Devices /\ DOMAIN queue = Devices /\ DOMAIN pending = Devices
  /\ DOMAIN pressed = Devices /\ DOMAIN retries = Devices /\ DOMAIN online = Devices
  /\ DOMAIN host = Devices /\ DOMAIN wanted = Devices

ProcessType ==
  \A d \in Devices :
    /\ pc[d] \in {"loop", "off", "done"}
    /\ pending[d] \in Seq(Fits(d)) /\ Len(pending[d]) <= 2
    /\ pressed[d] \in Fits(d)
    /\ retries[d] \in 0 .. WriteRetries

Typed ==
  /\ mode \in Modes /\ stop \in BOOLEAN
  /\ port \in {"ready", "suspended", "unplugged"}
  /\ fresh \subseteq Devices
  /\ Domains /\ ProcessType
  /\ \A d \in Devices : online[d] \in BOOLEAN
  /\ \A d \in Devices : queue[d] \in Seq(Events(d))
  /\ \A d \in Devices : host[d] \subseteq Held(d) /\ wanted[d] \subseteq Held(d)

\* An event that lets a key go.
Frees(e, k) == e = Clear \/ e = Key(k, FALSE)

\* An event that presses a key.
Presses(e, k) == e = Key(k, TRUE)

\* With "down" now, the events of q leave k up.
UpAfter(down, q, k) ==
  \E i \in 0 .. Len(q) :
    /\ IF i = 0 THEN k \notin down ELSE Frees(q[i], k)
    /\ \A j \in i + 1 .. Len(q) : ~Presses(q[j], k)

\* What is down after the reports of the event that is carried out.
Final(d) == IF pending[d] = <<>> THEN pressed[d] ELSE pending[d][Len(pending[d])]

LetGo == \A d \in Devices : \A k \in Held(d) \ wanted[d] : UpAfter(Final(d), queue[d], k)

InStep ==
  \A d \in Devices :
    /\ d \in fresh => host[d] = {}
    /\ online[d] /\ pc[d] = "loop" /\ retries[d] = 0 => host[d] = pressed[d] \/ d \in fresh
    /\ online[d] /\ pc[d] = "done" => host[d] = {}

IInv == Typed /\ LetGo /\ InStep

-----------------------------------------------------------------------------
(* What a queue leaves *)

\* No event does both.
LEMMA FreesNotPresses == \A e, k : Frees(e, k) => ~Presses(e, k)
  BY DEF Frees, Presses, Clear, Key

\* An empty queue leaves what is down.
LEMMA UpAfterNothing ==
  ASSUME NEW down, NEW k
  PROVE  UpAfter(down, <<>>, k) <=> k \notin down
<1>1. Len(<<>>) = 0 /\ \A i \in 0 .. 0 : i = 0
  OBVIOUS
<1>2. \A j \in 0 + 1 .. 0 : FALSE
  OBVIOUS
<1>3. 0 \in 0 .. 0
  OBVIOUS
<1> QED
  BY <1>1, <1>2, <1>3, Zenon DEF UpAfter

\* An event that lets the key go, at the end of a queue.
LEMMA UpAfterFree ==
  ASSUME NEW S, NEW q \in Seq(S), NEW e \in S, NEW down, NEW k, Frees(e, k)
  PROVE  UpAfter(down, Append(q, e), k)
<1> DEFINE n == Len(q) + 1
<1>1. Len(Append(q, e)) = n /\ Append(q, e)[n] = e /\ n \in 0 .. n /\ n # 0
  OBVIOUS
<1>2. \A j \in n + 1 .. n : FALSE
  OBVIOUS
<1> QED
  BY <1>1, <1>2 DEF UpAfter

\* One that does not press it.
LEMMA UpAfterOther ==
  ASSUME NEW S, NEW q \in Seq(S), NEW e \in S, NEW down, NEW k,
         UpAfter(down, q, k), ~Presses(e, k)
  PROVE  UpAfter(down, Append(q, e), k)
<1>1. PICK i \in 0 .. Len(q) :
        /\ IF i = 0 THEN k \notin down ELSE Frees(q[i], k)
        /\ \A j \in i + 1 .. Len(q) : ~Presses(q[j], k)
  BY DEF UpAfter
<1>2. /\ Len(Append(q, e)) = Len(q) + 1 /\ Append(q, e)[Len(q) + 1] = e
      /\ \A j \in 1 .. Len(q) : Append(q, e)[j] = q[j]
  OBVIOUS
<1>3. i \in 0 .. Len(Append(q, e))
  BY <1>1, <1>2
<1>4. IF i = 0 THEN k \notin down ELSE Frees(Append(q, e)[i], k)
  BY <1>1, <1>2
<1>5. \A j \in i + 1 .. Len(Append(q, e)) : ~Presses(Append(q, e)[j], k)
  BY <1>1, <1>2
<1> QED
  BY <1>3, <1>4, <1>5 DEF UpAfter

\* The first event is taken out, and what is down follows it.
LEMMA UpAfterTake ==
  ASSUME NEW S, NEW q \in Seq(S), q # <<>>, NEW down, NEW next, NEW k,
         UpAfter(down, q, k),
         k \in next => Presses(Head(q), k) \/ (k \in down /\ ~Frees(Head(q), k))
  PROVE  UpAfter(next, Tail(q), k)
<1>1. PICK i \in 0 .. Len(q) :
        /\ IF i = 0 THEN k \notin down ELSE Frees(q[i], k)
        /\ \A j \in i + 1 .. Len(q) : ~Presses(q[j], k)
  BY DEF UpAfter
<1>2. /\ Len(Tail(q)) = Len(q) - 1 /\ Len(q) \in Nat \ {0} /\ Head(q) = q[1]
      /\ \A j \in 1 .. Len(q) - 1 : Tail(q)[j] = q[j + 1]
  OBVIOUS
<1>3. CASE i = 0
  <2>1. k \notin next
    <3>1. ~Presses(q[1], k) /\ k \notin down
      BY <1>1, <1>2, <1>3
    <3> QED
      BY <1>2, <3>1
  <2>2. \A j \in 0 + 1 .. Len(Tail(q)) : ~Presses(Tail(q)[j], k)
    BY <1>1, <1>2, <1>3
  <2>3. 0 \in 0 .. Len(Tail(q))
    BY <1>2
  <2> QED
    BY <2>1, <2>2, <2>3, Zenon DEF UpAfter
<1>4. CASE i = 1
  <2>1. Frees(Head(q), k)
    BY <1>1, <1>2, <1>4
  <2>2. ~Presses(Head(q), k)
    BY <2>1, FreesNotPresses
  <2>3. k \notin next
    BY <2>1, <2>2
  <2>4. \A j \in 0 + 1 .. Len(Tail(q)) : ~Presses(Tail(q)[j], k)
    BY <1>1, <1>2, <1>4
  <2>5. 0 \in 0 .. Len(Tail(q))
    BY <1>2
  <2> QED
    BY <2>3, <2>4, <2>5, Zenon DEF UpAfter
<1>5. CASE i > 1
  <2>1. i - 1 \in 0 .. Len(Tail(q)) /\ i - 1 # 0
    BY <1>1, <1>2, <1>5
  <2>2. Frees(Tail(q)[i - 1], k)
    BY <1>1, <1>2, <1>5, <2>1
  <2>3. \A j \in (i - 1) + 1 .. Len(Tail(q)) : ~Presses(Tail(q)[j], k)
    BY <1>1, <1>2, <1>5
  <2> QED
    BY <2>1, <2>2, <2>3, Zenon DEF UpAfter
<1> QED
  BY <1>1, <1>3, <1>4, <1>5

-----------------------------------------------------------------------------
(* Reports *)

\* Two sequences of one element.
LEMMA OneAndOne == ASSUME NEW a, NEW b PROVE <<a>> \o <<b>> = <<a, b>>
<1> DEFINE S == {a, b}
           one == <<a>>
           other == <<b>>
           both == <<a, b>>
<1>1. /\ one \in Seq(S) /\ other \in Seq(S) /\ both \in Seq(S)
      /\ Len(one) = 1 /\ Len(other) = 1 /\ Len(both) = 2
  OBVIOUS
<1>2. one \o other \in Seq(S) /\ Len(one \o other) = 2
  BY <1>1
<1>3. \A i \in 1 .. 2 : (one \o other)[i] = both[i]
  BY <1>1
<1> HIDE DEF one, other, both
<1>4. one \o other = both
  BY <1>1, <1>2, <1>3, SeqEqual
<1> QED
  BY <1>4 DEF one, other, both

\* The reports of an event, case by case.
LEMMA ReportsAre ==
  ASSUME NEW d \in Devices, NEW k, NEW state \in BOOLEAN
  PROVE  LET held == pressed[d]
             rs == Reports(d, Key(k, state))
         IN  /\ Reports(d, Clear) = <<{}>>
             /\ state /\ k \in held => rs = <<held \ {k}, (held \ {k}) \cup {k}>>
             /\ state /\ k \notin held /\ Full(d, k) => rs = <<held \cap Mods, (held \cap Mods) \cup {k}>>
             /\ state /\ k \notin held /\ ~Full(d, k) => rs = <<held \cup {k}>>
             /\ ~state /\ k \in held => rs = <<held \ {k}>>
             /\ ~state /\ k \notin held => rs = <<>>
<1> DEFINE held == pressed[d]
           e == Key(k, state)
           release == IF k \in held THEN <<held \ {k}>>
                      ELSE IF state /\ Full(d, k) THEN <<held \cap Mods>> ELSE <<>>
           base == IF release = <<>> THEN held ELSE release[1]
<1>1. Reports(d, Clear) = <<{}>>
  BY DEF Reports, Clear
<1>2. Reports(d, e) = release \o (IF state THEN <<base \cup {k}>> ELSE <<>>)
  <2>1. e.type # "clear" /\ e.key = k /\ e.state = state
    BY DEF Key
  <2> HIDE DEF e
  <2> QED
    BY <2>1, Zenon DEF Reports
<1>3. \A x : <<x>> # <<>> /\ <<x>>[1] = x /\ <<>> \o <<x>> = <<x>> /\ <<x>> \o <<>> = <<x>>
  OBVIOUS
<1>4. <<>> \o <<>> = <<>>
  OBVIOUS
<1>5. CASE k \in held
  <2>1. release = <<held \ {k}>> /\ base = held \ {k}
    BY <1>3, <1>5
  <2>2. CASE state
    BY <1>1, <1>2, <1>5, <2>1, <2>2, OneAndOne, Zenon
  <2>3. CASE ~state
    BY <1>1, <1>2, <1>3, <1>5, <2>1, <2>3, Zenon
  <2> QED
    BY <2>2, <2>3
<1>6. CASE k \notin held /\ state /\ Full(d, k)
  <2>1. release = <<held \cap Mods>> /\ base = held \cap Mods
    BY <1>3, <1>6
  <2> QED
    BY <1>1, <1>2, <1>6, <2>1, OneAndOne, Zenon
<1>7. CASE k \notin held /\ ~(state /\ Full(d, k))
  <2>1. release = <<>> /\ base = held
    BY <1>3, <1>7
  <2>2. CASE state
    BY <1>1, <1>2, <1>3, <1>7, <2>1, <2>2, Zenon
  <2>3. CASE ~state
    BY <1>1, <1>2, <1>4, <1>7, <2>1, <2>3, Zenon
  <2> QED
    BY <2>2, <2>3
<1> QED
  BY <1>5, <1>6, <1>7

\* Less fits too, and one key more if it is a modifier or there is a free slot.
LEMMA LessFits ==
  ASSUME NEW d, NEW held \in Fits(d), NEW less, less \subseteq held
  PROVE  less \in Fits(d)
<1>1. IsFiniteSet(held) /\ held \subseteq Held(d)
  BY DEF Fits
<1>2. IsFiniteSet(less) /\ less \subseteq Held(d)
  BY <1>1, FS_Subset
<1>3. ASSUME d = Keyboard PROVE Cardinality(less \ Mods) <= Slots
  <2>1. Cardinality(held \ Mods) <= Slots
    BY <1>3 DEF Fits
  <2>2. IsFiniteSet(held \ Mods) /\ less \ Mods \subseteq held \ Mods
    BY <1>1, FS_Subset
  <2>3. Cardinality(less \ Mods) <= Cardinality(held \ Mods)
    BY <2>2, FS_Subset
  <2>4. Cardinality(less \ Mods) \in Nat /\ Cardinality(held \ Mods) \in Nat
    BY <2>2, FS_Subset, FS_CardinalityType
  <2> QED
    BY <2>1, <2>3, <2>4, HidOtgAssumption
<1> QED
  BY <1>2, <1>3 DEF Fits

LEMMA OneMoreFits ==
  ASSUME NEW d, NEW held \in Fits(d), NEW k \in Held(d),
         d = Keyboard /\ k \notin Mods => Cardinality(held \ Mods) < Slots
  PROVE  held \cup {k} \in Fits(d)
<1>1. IsFiniteSet(held) /\ held \subseteq Held(d)
  BY DEF Fits
<1>2. IsFiniteSet(held \cup {k}) /\ held \cup {k} \subseteq Held(d)
  BY <1>1, FS_AddElement
<1>3. ASSUME d = Keyboard PROVE Cardinality((held \cup {k}) \ Mods) <= Slots
  <2>1. Cardinality(held \ Mods) <= Slots
    BY <1>3 DEF Fits
  <2>2. IsFiniteSet(held \ Mods)
    BY <1>1, FS_Subset
  <2>3. Cardinality(held \ Mods) \in Nat
    BY <2>2, FS_CardinalityType
  <2>4. CASE k \in Mods \/ k \in held
    <3>1. (held \cup {k}) \ Mods = held \ Mods
      BY <2>4
    <3> QED
      BY <2>1, <3>1
  <2>5. CASE k \notin Mods /\ k \notin held
    <3>1. (held \cup {k}) \ Mods = (held \ Mods) \cup {k} /\ k \notin held \ Mods
      BY <2>5
    <3>2. Cardinality((held \ Mods) \cup {k}) = Cardinality(held \ Mods) + 1
      BY <2>2, <3>1, FS_AddElement
    <3> QED
      BY <1>3, <2>3, <2>5, <3>1, <3>2, HidOtgAssumption
  <2> QED
    BY <2>4, <2>5
<1> QED
  BY <1>2, <1>3 DEF Fits

\* Nothing at all fits.
LEMMA NothingFits == ASSUME NEW d PROVE {} \in Fits(d)
<1>1. {} \ Mods = {} /\ IsFiniteSet({}) /\ Cardinality({}) = 0
  BY FS_EmptySet
<1> QED
  BY <1>1, HidOtgAssumption DEF Fits

\* Reports fit, there are two at most, and in the last one only that is down
\* which the event presses, or was down and the event does not let go.
LEMMA ReportsFit ==
  ASSUME NEW d \in Devices, pressed[d] \in Fits(d), NEW e \in Events(d)
  PROVE  LET rs == Reports(d, e)
             last == IF rs = <<>> THEN pressed[d] ELSE rs[Len(rs)]
         IN  /\ rs \in Seq(Fits(d)) /\ Len(rs) <= 2
             /\ \A k \in last : Presses(e, k) \/ (k \in pressed[d] /\ ~Frees(e, k))
<1> DEFINE held == pressed[d]
           rs == Reports(d, e)
           last == IF rs = <<>> THEN held ELSE rs[Len(rs)]
           Rest(down) == \A k \in down : Presses(e, k) \/ (k \in held /\ ~Frees(e, k))
           Good == rs \in Seq(Fits(d)) /\ Len(rs) <= 2
<1>1. \A a, b \in Fits(d) :
        /\ <<a>> \in Seq(Fits(d)) /\ Len(<<a>>) = 1 /\ <<a>>[1] = a /\ <<a>> # <<>>
        /\ <<a, b>> \in Seq(Fits(d)) /\ Len(<<a, b>>) = 2 /\ <<a, b>>[2] = b /\ <<a, b>> # <<>>
  OBVIOUS
<1>2. CASE e = Clear
  <2>1. rs = <<{}>> /\ {} \in Fits(d)
    BY <1>2, ReportsAre, NothingFits
  <2>2. Good /\ last = {}
    BY <1>1, <2>1
  <2>3. Good /\ Rest(last)
    <3> HIDE DEF rs, last, Good
    <3> QED
      BY <2>2
  <2> QED
    BY <2>3, Zenon
<1>3. ASSUME NEW k \in Held(d), e = Key(k, TRUE)
      PROVE  Good /\ Rest(last)
  <2>0. \A x : x # k => ~Frees(e, x)
    BY <1>3 DEF Frees, Key, Clear
  <2>1. CASE k \in held
    <3>1. rs = <<held \ {k}, (held \ {k}) \cup {k}>>
      BY <1>3, <2>1, ReportsAre
    <3>2. held \ {k} \in Fits(d) /\ (held \ {k}) \cup {k} \in Fits(d)
      BY <2>1, LessFits
    <3>3. Rest((held \ {k}) \cup {k})
      BY <1>3, <2>0 DEF Presses
    <3>8. Good /\ last = (held \ {k}) \cup {k}
      BY <1>1, <3>1, <3>2
    <3> HIDE DEF rs, last, Rest
    <3> QED
      BY <3>8, <3>3
  <2>2. CASE k \notin held /\ Full(d, k)
    <3>1. rs = <<held \cap Mods, (held \cap Mods) \cup {k}>>
      BY <1>3, <2>2, ReportsAre
    <3>2. held \cap Mods \in Fits(d)
      BY LessFits
    <3>3. (held \cap Mods) \ Mods = {} /\ Cardinality({}) = 0
      BY FS_EmptySet
    <3>4. (held \cap Mods) \cup {k} \in Fits(d)
      BY <3>2, <3>3, OneMoreFits, HidOtgAssumption
    <3>5. Rest((held \cap Mods) \cup {k})
      BY <1>3, <2>0, <2>2 DEF Presses
    <3>8. Good /\ last = (held \cap Mods) \cup {k}
      BY <1>1, <3>1, <3>2, <3>4
    <3> HIDE DEF rs, last, Rest
    <3> QED
      BY <3>8, <3>5
  <2>3. CASE k \notin held /\ ~Full(d, k)
    <3>1. rs = <<held \cup {k}>>
      BY <1>3, <2>3, ReportsAre
    <3>2. ASSUME d = Keyboard, k \notin Mods PROVE Cardinality(held \ Mods) < Slots
      <4>1. ~(Cardinality(held \ Mods) >= Slots)
        BY <2>3, <3>2 DEF Full
      <4>2. Cardinality(held \ Mods) \in Nat
        <5>1. IsFiniteSet(held)
          BY DEF Fits
        <5>2. IsFiniteSet(held \ Mods)
          BY <5>1, FS_Subset
        <5> QED
          BY <5>2, FS_CardinalityType
      <4> QED
        BY <4>1, <4>2, HidOtgAssumption
    <3>3. held \cup {k} \in Fits(d)
      BY <3>2, OneMoreFits
    <3>4. Rest(held \cup {k})
      BY <1>3, <2>0, <2>3 DEF Presses
    <3>8. Good /\ last = held \cup {k}
      BY <1>1, <3>1, <3>3
    <3> HIDE DEF rs, last, Rest
    <3> QED
      BY <3>8, <3>4
  <2> QED
    BY <2>1, <2>2, <2>3
<1>4. ASSUME NEW k \in Held(d), e = Key(k, FALSE)
      PROVE  Good /\ Rest(last)
  <2>0. \A x : x # k => ~Frees(e, x)
    BY <1>4 DEF Frees, Key, Clear
  <2>1. CASE k \in held
    <3>1. rs = <<held \ {k}>>
      BY <1>4, <2>1, ReportsAre
    <3>2. held \ {k} \in Fits(d) /\ Rest(held \ {k})
      BY <2>0, LessFits
    <3>8. Good /\ last = held \ {k}
      BY <1>1, <3>1, <3>2
    <3> HIDE DEF rs, last, Rest
    <3> QED
      BY <3>8, <3>2
  <2>2. CASE k \notin held
    <3>1. rs = <<>>
      BY <1>4, <2>2, ReportsAre
    <3>2. <<>> \in Seq(Fits(d)) /\ Len(<<>>) = 0
      OBVIOUS
    <3>3. Rest(held)
      BY <2>0, <2>2
    <3>8. Good /\ last = held
      BY <3>1, <3>2
    <3> HIDE DEF rs, last, Rest
    <3> QED
      BY <3>8, <3>3
  <2> QED
    BY <2>1, <2>2
<1>5. e = Clear \/ \E k \in Held(d) : e = Key(k, TRUE) \/ e = Key(k, FALSE)
  <2>1. e = Clear \/ \E k \in Held(d), state \in BOOLEAN : e = Key(k, state)
    BY DEF Events
  <2>2. \A state \in BOOLEAN : state = TRUE \/ state = FALSE
    BY Zenon
  <2> QED
    BY <2>1, <2>2, Zenon
<1>6. CASE e # Clear
  <2>1. Good /\ Rest(last)
    <3> HIDE DEF Good, Rest, last
    <3> QED
      BY <1>3, <1>4, <1>5, <1>6, Zenon
  <2> QED
    BY <2>1, Zenon
<1> QED
  BY <1>2, <1>6

-----------------------------------------------------------------------------
(* The calls *)

\* A state is one of two.
LEMMA Booleans == \A x \in BOOLEAN : x = TRUE \/ x = FALSE
  BY Zenon

\* An event for a device gets into its queue and into what is wanted.
LEMMA SendKeeps ==
  ASSUME IInv, NEW d \in Devices, NEW k \in Held(d), NEW state \in BOOLEAN,
         SendEvent(d, k, state), UNCHANGED mode
  PROVE  IInv'
<1> USE DEF IInv
<1>1. /\ queue' = [queue EXCEPT ![d] = Append(@, Key(k, state))]
      /\ wanted' = [wanted EXCEPT ![d] = IF state THEN @ \cup {k} ELSE @ \ {k}]
      /\ UNCHANGED <<mode, stop, device, online, port, host, fresh>>
  BY DEF SendEvent, Call
<1>2. UNCHANGED <<pc, pending, pressed, retries>>
  BY <1>1 DEF device
<1>3. Key(k, state) \in Events(d)
  BY DEF Events
<1>4. /\ DOMAIN queue' = Devices /\ DOMAIN wanted' = Devices
      /\ \A c \in Devices : c # d => queue'[c] = queue[c] /\ wanted'[c] = wanted[c]
      /\ queue'[d] = Append(queue[d], Key(k, state))
      /\ wanted'[d] = IF state THEN wanted[d] \cup {k} ELSE wanted[d] \ {k}
  BY <1>1 DEF Typed, Domains
<1>5. Typed'
  <2>1. \A c \in Devices : queue'[c] \in Seq(Events(c)) /\ wanted'[c] \subseteq Held(c)
    BY <1>3, <1>4 DEF Typed
  <2> QED
    BY <1>1, <1>2, <1>4, <2>1 DEF Typed, Domains, ProcessType
<1>6. LetGo'
  <2> SUFFICES ASSUME NEW c \in Devices, NEW x \in Held(c) \ wanted'[c]
               PROVE  UpAfter(Final(c), queue'[c], x)
    BY <1>2 DEF LetGo, Final
  <2>1. CASE c # d
    BY <1>4, <2>1 DEF LetGo
  <2>2. CASE c = d /\ x = k
    <3>1. state = FALSE
      BY <1>4, <2>2, Booleans
    <3>2. Frees(Key(k, state), x)
      BY <2>2, <3>1, Zenon DEF Frees
    <3>3. queue[d] \in Seq(Events(d))
      BY DEF Typed
    <3>4. UpAfter(Final(d), Append(queue[d], Key(k, state)), x)
      BY <1>3, <3>2, <3>3, UpAfterFree
    <3> QED
      BY <1>4, <2>2, <3>4
  <2>3. CASE c = d /\ x # k
    <3>1. x \in Held(d) \ wanted[d]
      BY <1>4, <2>3
    <3>2. ~Presses(Key(k, state), x)
      BY <2>3 DEF Presses, Key
    <3>3. queue[d] \in Seq(Events(d)) /\ UpAfter(Final(d), queue[d], x)
      BY <3>1 DEF Typed, LetGo
    <3>4. UpAfter(Final(d), Append(queue[d], Key(k, state)), x)
      BY <1>3, <3>2, <3>3, UpAfterOther
    <3> QED
      BY <1>4, <2>3, <3>4
  <2> QED
    BY <2>1, <2>2, <2>3
<1>7. InStep'
  BY <1>1, <1>2 DEF InStep
<1> QED
  BY <1>5, <1>6, <1>7

\* A clear for some devices.
LEMMA ClearKeeps ==
  ASSUME IInv, NEW ds, ClearDevices(ds), mode' \in Modes,
         UNCHANGED <<stop, device, online, port, host, fresh>>
  PROVE  IInv'
<1> USE DEF IInv
<1>1. UNCHANGED <<pc, pending, pressed, retries>>
  BY DEF device
<1>2. /\ DOMAIN queue' = Devices /\ DOMAIN wanted' = Devices
      /\ \A c \in Devices : queue'[c] = IF c \in ds THEN <<Clear>> ELSE queue[c]
      /\ \A c \in Devices : wanted'[c] = IF c \in ds THEN {} ELSE wanted[c]
  BY DEF ClearDevices
<1>3. Typed'
  <2>1. \A c \in Devices : <<Clear>> \in Seq(Events(c))
    BY DEF Events
  <2>2. \A c \in Devices : queue'[c] \in Seq(Events(c)) /\ wanted'[c] \subseteq Held(c)
    BY <1>2, <2>1 DEF Typed
  <2> QED
    BY <1>1, <1>2, <2>2 DEF Typed, Domains, ProcessType
<1>4. LetGo'
  <2> SUFFICES ASSUME NEW c \in Devices, NEW x \in Held(c) \ wanted'[c]
               PROVE  UpAfter(Final(c), queue'[c], x)
    BY <1>1 DEF LetGo, Final
  <2>1. CASE c \in ds
    <3>1. Frees(Clear, x) /\ <<>> \in Seq({Clear}) /\ Append(<<>>, Clear) = <<Clear>>
      BY DEF Frees
    <3>2. UpAfter(Final(c), Append(<<>>, Clear), x)
      BY <3>1, UpAfterFree
    <3> QED
      BY <1>2, <2>1, <3>1, <3>2
  <2>2. CASE c \notin ds
    BY <1>2, <2>2 DEF LetGo
  <2> QED
    BY <2>1, <2>2
<1>5. InStep'
  BY <1>1 DEF InStep
<1> QED
  BY <1>3, <1>4, <1>5

\* The mouse of a mode is a device.
LEMMA MouseIsDevice ==
  \A m \in Modes : Mouse[m] \in Devices /\ Mouse[m] # Keyboard
  BY HidOtgAssumption DEF Devices, Mice

\* The calls.
LEMMA CallsKeep == IInv /\ Calls => IInv'
<1> SUFFICES ASSUME IInv, Calls PROVE IInv'
  OBVIOUS
<1>1. ASSUME NEW state \in BOOLEAN, NEW k \in Keys, SendKeyEvent(k, state) PROVE IInv'
  <2>1. Keyboard \in Devices /\ k \in Held(Keyboard)
    BY DEF Devices, Held
  <2>2. SendEvent(Keyboard, k, state) /\ UNCHANGED mode
    BY <1>1 DEF SendKeyEvent, SendEvent
  <2> QED
    BY <2>1, <2>2, SendKeeps
<1>2. ASSUME NEW state \in BOOLEAN, NEW b \in Buttons, SendMouseButtonEvent(b, state) PROVE IInv'
  <2>1. Mouse[mode] \in Devices /\ b \in Held(Mouse[mode])
    BY MouseIsDevice DEF IInv, Typed, Held
  <2>2. SendEvent(Mouse[mode], b, state) /\ UNCHANGED mode
    BY <1>2 DEF SendMouseButtonEvent, SendEvent
  <2> QED
    BY <2>1, <2>2, SendKeeps
<1>3. CASE ClearEvents
  <2>1. /\ ClearDevices(Devices) /\ mode' \in Modes
        /\ UNCHANGED <<stop, device, online, port, host, fresh>>
    BY <1>3 DEF ClearEvents, Call, IInv, Typed
  <2> QED
    BY <2>1, ClearKeeps
<1>4. ASSUME NEW m \in Modes, SetParams(m) PROVE IInv'
  <2>1. /\ ClearDevices({Mouse[mode]}) /\ mode' \in Modes
        /\ UNCHANGED <<stop, device, online, port, host, fresh>>
    BY <1>4 DEF SetParams, Call
  <2> QED
    BY <2>1, ClearKeeps
<1>5. CASE Stop
  <2>1. /\ UNCHANGED <<mode, queue, pc, pending, pressed, retries, online, host, fresh, wanted, port>>
        /\ stop' = TRUE
    BY <1>5 DEF Stop, device, outside
  <2>2. stop' \in BOOLEAN
    BY <2>1, Zenon
  <2>3. Typed'
    BY <2>1, <2>2 DEF IInv, Typed, Domains, ProcessType
  <2>4. LetGo' /\ InStep'
    BY <2>1 DEF IInv, LetGo, Final, InStep
  <2> QED
    BY <2>3, <2>4 DEF IInv
<1> QED
  BY <1>1, <1>2, <1>3, <1>4, <1>5 DEF Calls

-----------------------------------------------------------------------------
(* The processes and the port *)

\* What a report that is written or not leaves of the types.
LEMMA WriteTypes ==
  ASSUME Typed, NEW d \in Devices, NEW keys \in SUBSET Held(d), Written(d, keys) \/ NotWritten(d)
  PROVE  /\ DOMAIN online' = Devices /\ DOMAIN host' = Devices /\ fresh' \subseteq Devices
         /\ \A c \in Devices : online'[c] \in BOOLEAN /\ host'[c] \subseteq Held(c)
         /\ \A c \in Devices : c # d => /\ online'[c] = online[c] /\ host'[c] = host[c]
                                        /\ c \in fresh' <=> c \in fresh
<1>1. DOMAIN online = Devices /\ DOMAIN host = Devices
  BY DEF Typed, Domains
<1>2. /\ online' \in {[online EXCEPT ![d] = TRUE], [online EXCEPT ![d] = FALSE]}
      /\ \/ host' = [host EXCEPT ![d] = keys] /\ fresh' = fresh \ {d}
         \/ UNCHANGED <<host, fresh>>
  BY DEF Written, NotWritten
<1>3. /\ DOMAIN online' = Devices
      /\ \A c \in Devices : c # d => online'[c] = online[c]
      /\ online'[d] = TRUE \/ online'[d] = FALSE
  BY <1>1, <1>2, Zenon
<1>4. \A c \in Devices : online'[c] \in BOOLEAN
  BY <1>3, Zenon DEF Typed
<1>5. /\ DOMAIN host' = Devices /\ fresh' \subseteq Devices
      /\ \A c \in Devices : host'[c] \subseteq Held(c)
      /\ \A c \in Devices : c # d => host'[c] = host[c] /\ (c \in fresh' <=> c \in fresh)
  BY <1>1, <1>2 DEF Typed
<1> QED
  BY <1>3, <1>4, <1>5

\* A report that is written is what the host has; one that is not takes the
\* device offline.
LEMMA WriteEffect ==
  ASSUME Typed, NEW d \in Devices, NEW keys
  PROVE  /\ Written(d, keys) => host'[d] = keys /\ d \notin fresh' /\ online'[d]
         /\ NotWritten(d) => host'[d] = host[d] /\ (d \in fresh' <=> d \in fresh) /\ ~online'[d]
<1>1. DOMAIN online = Devices /\ DOMAIN host = Devices
  BY DEF Typed, Domains
<1> QED
  BY <1>1 DEF Written, NotWritten

\* An event is taken out of the queue.
LEMMA TakeKeeps ==
  ASSUME IInv, NEW d \in Devices, TakeEvent(d)
  PROVE  IInv'
<1> USE DEF IInv
<1> DEFINE e == Head(queue[d])
           rs == Reports(d, e)
           last == IF rs = <<>> THEN pressed[d] ELSE rs[Len(rs)]
<1>1. /\ pending[d] = <<>> /\ queue[d] # <<>>
      /\ queue' = [queue EXCEPT ![d] = Tail(@)]
      /\ pending' = [pending EXCEPT ![d] = rs]
      /\ UNCHANGED <<mode, stop, wanted, port, pc, pressed, retries, online, host, fresh>>
  BY DEF TakeEvent, Running, outside
<1>2. queue[d] \in Seq(Events(d)) /\ pressed[d] \in Fits(d)
  BY DEF Typed, ProcessType
<1>3. e \in Events(d) /\ Tail(queue[d]) \in Seq(Events(d))
  BY <1>1, <1>2
<1>4. /\ rs \in Seq(Fits(d)) /\ Len(rs) <= 2
      /\ \A k \in last : Presses(e, k) \/ (k \in pressed[d] /\ ~Frees(e, k))
  BY <1>2, <1>3, ReportsFit
<1> HIDE DEF e, rs
<1>5. /\ DOMAIN queue' = Devices /\ DOMAIN pending' = Devices
      /\ \A c \in Devices : c # d => queue'[c] = queue[c] /\ pending'[c] = pending[c]
      /\ queue'[d] = Tail(queue[d]) /\ pending'[d] = rs
  BY <1>1 DEF Typed, Domains
<1>6. Typed'
  <2>1. \A c \in Devices : queue'[c] \in Seq(Events(c))
    BY <1>3, <1>5 DEF Typed
  <2>2. \A c \in Devices : pending'[c] \in Seq(Fits(c)) /\ Len(pending'[c]) <= 2
    BY <1>4, <1>5 DEF Typed, ProcessType
  <2> QED
    BY <1>1, <1>5, <2>1, <2>2 DEF Typed, Domains, ProcessType
<1>7. LetGo'
  <2>1. ASSUME NEW c \in Devices, c # d, NEW x \in Held(c) \ wanted[c]
        PROVE  UpAfter(Final(c)', queue'[c], x)
    <3>1. Final(c)' = Final(c)
      BY <1>1, <1>5, <2>1 DEF Final
    <3> QED
      BY <1>5, <2>1, <3>1 DEF LetGo
  <2>2. ASSUME NEW x \in Held(d) \ wanted[d] PROVE UpAfter(Final(d)', queue'[d], x)
    <3>1. UpAfter(pressed[d], queue[d], x)
      BY <1>1 DEF LetGo, Final
    <3>2. Final(d)' = last
      BY <1>1, <1>5 DEF Final
    <3>3. x \in last => Presses(Head(queue[d]), x) \/ (x \in pressed[d] /\ ~Frees(Head(queue[d]), x))
      BY <1>4 DEF e
    <3> HIDE DEF last
    <3>4. UpAfter(last, Tail(queue[d]), x)
      BY <1>1, <1>2, <3>1, <3>3, UpAfterTake
    <3> QED
      BY <1>5, <3>2, <3>4
  <2> QED
    BY <1>1, <2>1, <2>2 DEF LetGo
<1>8. InStep'
  BY <1>1 DEF InStep
<1> QED
  BY <1>6, <1>7, <1>8

\* The last of some reports is the only one, or still among the rest.
LEMMA LastReport ==
  ASSUME NEW S, NEW p \in Seq(S), p # <<>>
  PROVE  /\ Head(p) \in S /\ Tail(p) \in Seq(S) /\ Len(Tail(p)) = Len(p) - 1
         /\ Tail(p) = <<>> => p[Len(p)] = Head(p)
         /\ Tail(p) # <<>> => Tail(p)[Len(Tail(p))] = p[Len(p)]
<1>1. /\ Len(p) \in Nat \ {0} /\ Tail(p) \in Seq(S) /\ Len(Tail(p)) = Len(p) - 1
      /\ Head(p) = p[1] /\ Head(p) \in S
      /\ \A i \in 1 .. Len(p) - 1 : Tail(p)[i] = p[i + 1]
  OBVIOUS
<1>2. Tail(p) = <<>> => Len(p) = 1
  <2>1. Len(<<>>) = 0
    OBVIOUS
  <2>2. Tail(p) = <<>> => Len(p) - 1 = 0
    BY <1>1, <2>1, Zenon
  <2> QED
    BY <1>1, <2>2
<1>3. Tail(p) # <<>> => Len(Tail(p)) \in 1 .. Len(p) - 1
  BY <1>1
<1> QED
  BY <1>1, <1>2, <1>3

\* The next report of an event: it was to be the last one, or that is still to come.
LEMMA ReportKeeps ==
  ASSUME IInv, NEW d \in Devices, Report(d)
  PROVE  IInv'
<1> USE DEF IInv
<1> DEFINE keys == Head(pending[d])
<1>1. /\ pending[d] # <<>>
      /\ pressed' = [pressed EXCEPT ![d] = keys]
      /\ pending' = [pending EXCEPT ![d] = Tail(@)]
      /\ \/ Written(d, keys) /\ retries' = [retries EXCEPT ![d] = 0]
         \/ NotWritten(d) /\ retries' = [retries EXCEPT ![d] = WriteRetries]
      /\ UNCHANGED <<mode, stop, wanted, port, queue, pc>>
  BY DEF Report, Running, outside
<1>2. pending[d] \in Seq(Fits(d)) /\ Len(pending[d]) <= 2
  BY DEF Typed, ProcessType
<1>3. /\ keys \in Fits(d) /\ Tail(pending[d]) \in Seq(Fits(d)) /\ Len(Tail(pending[d])) <= 2
      /\ (IF Tail(pending[d]) = <<>> THEN keys ELSE Tail(pending[d])[Len(Tail(pending[d]))])
           = pending[d][Len(pending[d])]
  <2>1. /\ Head(pending[d]) \in Fits(d) /\ Tail(pending[d]) \in Seq(Fits(d))
        /\ Len(Tail(pending[d])) = Len(pending[d]) - 1
        /\ Tail(pending[d]) = <<>> => pending[d][Len(pending[d])] = Head(pending[d])
        /\ Tail(pending[d]) # <<>> =>
             Tail(pending[d])[Len(Tail(pending[d]))] = pending[d][Len(pending[d])]
    BY <1>1, <1>2, LastReport
  <2>2. Len(pending[d]) \in Nat
    BY <1>2
  <2> QED
    BY <1>2, <2>1, <2>2
<1>4. keys \in SUBSET Held(d)
  BY <1>3 DEF Fits
<1> HIDE DEF keys
<1>5. /\ DOMAIN pending' = Devices /\ DOMAIN pressed' = Devices /\ DOMAIN retries' = Devices
      /\ \A c \in Devices : c # d => /\ pending'[c] = pending[c] /\ pressed'[c] = pressed[c]
                                     /\ retries'[c] = retries[c]
      /\ pending'[d] = Tail(pending[d]) /\ pressed'[d] = keys
      /\ retries'[d] \in {0, WriteRetries} /\ (Written(d, keys) \/ NotWritten(d))
  BY <1>1 DEF Typed, Domains
<1>6. Typed'
  <2>1. /\ DOMAIN online' = Devices /\ DOMAIN host' = Devices /\ fresh' \subseteq Devices
        /\ \A c \in Devices : online'[c] \in BOOLEAN /\ host'[c] \subseteq Held(c)
    BY <1>4, <1>5, WriteTypes
  <2>2. ProcessType'
    BY <1>1, <1>3, <1>5, HidOtgAssumption DEF Typed, ProcessType
  <2> QED
    BY <1>1, <1>5, <2>1, <2>2 DEF Typed, Domains
<1>7. \A c \in Devices : Final(c)' = Final(c)
  <2>1. \A c \in Devices : c # d => Final(c)' = Final(c)
    BY <1>5 DEF Final
  <2>2. Final(d)' = Final(d)
    BY <1>1, <1>3, <1>5 DEF Final
  <2> QED
    BY <2>1, <2>2
<1>8. LetGo'
  BY <1>1, <1>7 DEF LetGo
<1>9. InStep'
  <2>1. \A c \in Devices : c # d => /\ online'[c] = online[c] /\ host'[c] = host[c]
                                    /\ c \in fresh' <=> c \in fresh
    BY <1>4, <1>5, WriteTypes
  <2>2. /\ Written(d, keys) => host'[d] = keys /\ d \notin fresh' /\ online'[d]
        /\ NotWritten(d) => host'[d] = host[d] /\ (d \in fresh' <=> d \in fresh) /\ ~online'[d]
    BY WriteEffect
  <2>3. ~(pc[d] = "done")
    BY DEF Report, Running
  <2> QED
    BY <1>1, <1>5, <2>1, <2>2, <2>3 DEF InStep
<1> QED
  BY <1>6, <1>8, <1>9

\* The other steps of a process take nothing out of its queue or of its event.
LEMMA ProcessKeeps ==
  ASSUME IInv, NEW d \in Devices, Process(d)
  PROVE  IInv'
<1> USE DEF IInv
<1>1. CASE TakeEvent(d)
  BY <1>1, TakeKeeps
<1>2. CASE Report(d)
  BY <1>2, ReportKeeps
<1>3. CASE RetryReport(d) \/ NotConfigured(d) \/ LeaveLoop(d) \/ CleanupWrite(d)
  <2>1. UNCHANGED <<mode, stop, wanted, port, queue, pending, pressed>>
    BY <1>3 DEF RetryReport, NotConfigured, LeaveLoop, CleanupWrite, Idle, Running, device, outside
  <2>2. LetGo'
    BY <2>1 DEF LetGo, Final
  <2>3. pressed[d] \in SUBSET Held(d) /\ {} \in SUBSET Held(d)
    BY DEF Typed, ProcessType, Fits
  <2>4. CASE LeaveLoop(d)
    <3>1. /\ pc[d] = "loop" /\ pc' = [pc EXCEPT ![d] = "off"]
          /\ UNCHANGED <<retries, online, host, fresh>>
      BY <2>4 DEF LeaveLoop, Running
    <3>2. Typed'
      BY <2>1, <3>1 DEF Typed, Domains, ProcessType
    <3>3. InStep'
      BY <2>1, <3>1 DEF InStep, Typed, Domains
    <3> QED
      BY <2>2, <3>2, <3>3
  <2>5. CASE CleanupWrite(d)
    <3>1. /\ pc' = [pc EXCEPT ![d] = "done"] /\ (Written(d, {}) \/ NotWritten(d))
          /\ UNCHANGED retries
      BY <2>5 DEF CleanupWrite
    <3>2. /\ DOMAIN online' = Devices /\ DOMAIN host' = Devices /\ fresh' \subseteq Devices
          /\ \A c \in Devices : online'[c] \in BOOLEAN /\ host'[c] \subseteq Held(c)
          /\ \A c \in Devices : c # d => /\ online'[c] = online[c] /\ host'[c] = host[c]
                                         /\ c \in fresh' <=> c \in fresh
      BY <2>3, <3>1, WriteTypes
    <3>3. /\ Written(d, {}) => host'[d] = {} /\ d \notin fresh' /\ online'[d]
          /\ NotWritten(d) => host'[d] = host[d] /\ (d \in fresh' <=> d \in fresh) /\ ~online'[d]
      BY WriteEffect
    <3>4. Typed'
      BY <2>1, <3>1, <3>2 DEF Typed, Domains, ProcessType
    <3>5. InStep'
      BY <2>1, <3>1, <3>2, <3>3 DEF InStep, Typed, Domains
    <3> QED
      BY <2>2, <3>4, <3>5
  <2>6. CASE RetryReport(d) \/ NotConfigured(d)
    <3>1. /\ UNCHANGED pc /\ pc[d] = "loop"
          /\ Written(d, pressed[d]) \/ NotWritten(d)
      BY <2>6 DEF RetryReport, NotConfigured, Idle, Running, device
    <3>2. /\ DOMAIN retries' = Devices /\ retries'[d] \in 0 .. WriteRetries
          /\ \A c \in Devices : c # d => retries'[c] = retries[c]
      BY <2>6, HidOtgAssumption
         DEF RetryReport, NotConfigured, device, Typed, Domains, ProcessType
    <3>3. /\ DOMAIN online' = Devices /\ DOMAIN host' = Devices /\ fresh' \subseteq Devices
          /\ \A c \in Devices : online'[c] \in BOOLEAN /\ host'[c] \subseteq Held(c)
          /\ \A c \in Devices : c # d => /\ online'[c] = online[c] /\ host'[c] = host[c]
                                         /\ c \in fresh' <=> c \in fresh
      BY <2>3, <3>1, WriteTypes
    <3>4. /\ Written(d, pressed[d]) => host'[d] = pressed[d] /\ d \notin fresh' /\ online'[d]
          /\ NotWritten(d) => host'[d] = host[d] /\ (d \in fresh' <=> d \in fresh) /\ ~online'[d]
      BY WriteEffect
    <3>5. Typed'
      BY <2>1, <3>1, <3>2, <3>3 DEF Typed, Domains, ProcessType
    <3>6. InStep'
      BY <2>1, <3>1, <3>2, <3>3, <3>4 DEF InStep
    <3> QED
      BY <2>2, <3>5, <3>6
  <2> QED
    BY <1>3, <2>4, <2>5, <2>6
<1> QED
  BY <1>1, <1>2, <1>3 DEF Process

\* The port.
LEMMA PortKeeps == IInv /\ (Suspend \/ Resume \/ Unplug) => IInv'
<1> SUFFICES ASSUME IInv, Suspend \/ Resume \/ Unplug PROVE IInv'
  OBVIOUS
<1> USE DEF IInv
<1>1. /\ UNCHANGED <<mode, stop, queue, pc, pending, pressed, retries, online, wanted>>
      /\ port' \in {"ready", "suspended", "unplugged"}
      /\ \/ UNCHANGED <<host, fresh>>
         \/ host' = [d \in Devices |-> {}] /\ fresh' = Devices
  BY DEF Suspend, Resume, Unplug, PortBecomes, device
<1>2. Typed'
  BY <1>1 DEF Typed, Domains, ProcessType
<1>3. LetGo'
  BY <1>1 DEF LetGo, Final
<1>4. InStep'
  BY <1>1 DEF InStep
<1> QED
  BY <1>2, <1>3, <1>4

-----------------------------------------------------------------------------

\* The strengthened invariant holds at the start.
LEMMA InitIInv == Init => IInv
<1> SUFFICES ASSUME Init PROVE IInv
  OBVIOUS
<1>1. \A d \in Devices : {} \in Fits(d) /\ <<>> \in Seq(Fits(d)) /\ Len(<<>>) <= 2
  BY NothingFits
<1>2. \A d \in Devices : <<>> \in Seq(Events(d))
  OBVIOUS
<1>3. stop \in BOOLEAN /\ \A d \in Devices : online[d] \in BOOLEAN
  BY Zenon DEF Init
<1>4. Domains /\ ProcessType
  BY <1>1, HidOtgAssumption DEF Init, Domains, ProcessType
<1>5. Typed
  BY <1>2, <1>3, <1>4, HidOtgAssumption DEF Init, Typed
<1>6. LetGo
  BY UpAfterNothing DEF Init, LetGo, Final
<1>7. InStep
  BY DEF Init, InStep
<1> QED
  BY <1>5, <1>6, <1>7 DEF IInv

\* Every step keeps it.
LEMMA NextIInv == IInv /\ [Next]_vars => IInv'
<1> SUFFICES ASSUME IInv, [Next]_vars PROVE IInv'
  OBVIOUS
<1>1. CASE UNCHANGED vars
  BY <1>1 DEF vars, device, outside, IInv, Typed, Domains, ProcessType, LetGo, Final, InStep
<1> QED
  BY <1>1, CallsKeep, ProcessKeeps, PortKeeps DEF Next

\* The strengthened invariant holds in every reachable state.
THEOREM Inductive == Spec => []IInv
  BY InitIInv, NextIInv, PTL DEF Spec

\* Every variable keeps its type: no event has more than two reports, and a
\* report of the keyboard never more keys than there are slots.
THEOREM TypeCorrect == Spec => []TypeOK
<1>1. IInv => TypeOK
  <2> SUFFICES ASSUME IInv PROVE TypeOK
    OBVIOUS
  <2> USE DEF IInv, Typed
  <2>1. ASSUME NEW d \in Devices
        PROVE  /\ queue[d] \in Seq(Events(d))
               /\ pending[d] \in Seq(SUBSET Held(d)) /\ Len(pending[d]) <= 2
               /\ pressed[d] \cup host[d] \cup wanted[d] \subseteq Held(d)
               /\ d = Keyboard => Cardinality(pressed[d] \ Mods) <= Slots
    <3>1. Fits(d) \subseteq SUBSET Held(d)
      BY DEF Fits
    <3>2. queue[d] \in Seq(Events(d))
      OBVIOUS
    <3>3. pending[d] \in Seq(SUBSET Held(d)) /\ Len(pending[d]) <= 2
      BY <3>1 DEF ProcessType
    <3>4. pressed[d] \in Fits(d)
      BY DEF ProcessType
    <3>5. pressed[d] \subseteq Held(d) /\ (d = Keyboard => Cardinality(pressed[d] \ Mods) <= Slots)
      BY <3>4 DEF Fits
    <3> QED
      BY <3>2, <3>3, <3>5
  <2>2. /\ mode \in Modes /\ stop \in BOOLEAN
        /\ port \in {"ready", "suspended", "unplugged"}
        /\ fresh \subseteq Devices
        /\ \A d \in Devices : online[d] \in BOOLEAN
    OBVIOUS
  <2>3. \A d \in Devices : pc[d] \in {"loop", "off", "done"} /\ retries[d] \in 0 .. WriteRetries
    BY DEF ProcessType
  <2> HIDE DEF IInv, Typed
  <2> QED
    BY <2>1, <2>2, <2>3, Zenon DEF TypeOK
<1> QED
  BY <1>1, Inductive, PTL

\* A device that is online and at rest is in step with a host that is not new,
\* nothing is down that the clients have let go, and nothing after the cleanup.
THEOREM HostInStep == Spec => []HostFollows
<1>1. IInv => HostFollows
  <2> SUFFICES ASSUME IInv, NEW d \in Devices, online[d]
               PROVE  /\ AtRest(d) => /\ host[d] = pressed[d] \/ d \in fresh
                                      /\ pressed[d] \cup host[d] \subseteq wanted[d]
                      /\ pc[d] = "done" => host[d] = {}
    BY DEF HostFollows
  <2>1. pc[d] = "done" => host[d] = {}
    BY DEF IInv, InStep
  <2>2. ASSUME AtRest(d)
        PROVE  /\ host[d] = pressed[d] \/ d \in fresh
               /\ pressed[d] \cup host[d] \subseteq wanted[d]
    <3>1. host[d] = pressed[d] \/ (d \in fresh /\ host[d] = {})
      BY <2>2 DEF IInv, InStep, AtRest
    <3>2. \A k \in Held(d) \ wanted[d] : k \notin pressed[d]
      BY <2>2, UpAfterNothing DEF IInv, LetGo, AtRest, Final
    <3>3. pressed[d] \subseteq Held(d)
      BY DEF IInv, Typed, ProcessType, Fits
    <3> QED
      BY <3>1, <3>2, <3>3
  <2> QED
    BY <2>1, <2>2
<1> QED
  BY <1>1, Inductive, PTL

=============================================================================
