---------------------------- MODULE ClientProofs ----------------------------
(***************************************************************************)
(* Proofs about the clients of KVMD: AuthSessions, for any tokens, users,  *)
(* websockets and limits; and Vnc, for any sizes, codes, keys, encodings   *)
(* and bounds.                                                             *)
(*                                                                         *)
(* Vnc: whatever is in the queue, the loop that empties it keeps a picture *)
(* that the client can show: one that begins with a key frame, or goes on  *)
(* where the last one it was sent ends (Shows).  And KVMD holds a key for  *)
(* something the client holds down, as every event of input keeps (Told).  *)
(***************************************************************************)
EXTENDS AuthSessions, Vnc, FiniteSetTheorems, WellFoundedInduction, TLAPS

-----------------------------------------------------------------------------
(* AuthSessions *)

\* Only a running handler has a registered socket.
RegisteredIsOpen == \A w \in wss : phase[w] = "open"

-----------------------------------------------------------------------------
(* Type correctness *)

\* A deadline that is computed is a natural number.
LEMMA MakeExpireTsType ==
  ASSUME TypeOK, NEW req \in Nat
  PROVE  MakeExpireTs(req) \in Nat
  BY AuthAssumption DEF TypeOK, MakeExpireTs, Limit

\* A session whose websockets are recounted is still a session.
LEMMA RenewedType ==
  ASSUME TypeOK, NEW s \in Session, NEW n \in Int
  PROVE  Renewed(s, n) \in Session
<1>1. MakeExpireTs(s.expire_req) \in Nat
  BY MakeExpireTsType DEF Session
<1>2. QED
  BY <1>1 DEF Session, Renewed

\* Storing a session adds its token and keeps the store's type.
LEMMA StoreType ==
  ASSUME TypeOK, NEW t \in Tokens, NEW s \in Session, Store(t, s)
  PROVE  live' = live \cup {t} /\ sessions' \in [live' -> Session]
  BY DEF TypeOK, Store, live

\* Closing sessions leaves exactly the retained ones, of the same type.
LEMMA RetainType ==
  ASSUME TypeOK, NEW S \in SUBSET live, Retain(S)
  PROVE  live' = S /\ sessions' \in [live' -> Session]
  BY DEF TypeOK, Retain, live

\* Counting a websocket in or out creates and closes no session.
LEMMA RenewWsType ==
  ASSUME TypeOK, NEW w \in WS, NEW d \in Int, RenewWs(w, d)
  PROVE  live' = live /\ sessions' \in [live' -> Session]
<1>1. CASE Extend /\ wsToken[w] \in live
  <2>1. sessions[wsToken[w]] \in Session
    BY <1>1 DEF TypeOK
  <2>2. sessions[wsToken[w]].ws_started + d \in Int
    BY <2>1 DEF Session
  <2>3. Renewed(sessions[wsToken[w]], sessions[wsToken[w]].ws_started + d) \in Session
    BY <2>1, <2>2, RenewedType
  <2>4. wsToken[w] \in Tokens
    BY <1>1 DEF TypeOK
  <2>5. QED
    BY <1>1, <2>3, <2>4, StoreType DEF RenewWs
<1>2. CASE ~(Extend /\ wsToken[w] \in live)
  BY <1>2 DEF RenewWs, TypeOK, live
<1>3. QED
  BY <1>1, <1>2

\* The server starts with variables of their types.
LEMMA InitType == AuthInit => TypeOK
<1> SUFFICES ASSUME AuthInit PROVE TypeOK
  OBVIOUS
<1>1. live = {}
  BY DEF AuthInit, live
<1>2. sessions \in [live -> Session]
  BY <1>1 DEF AuthInit
<1>3. QED
  BY <1>1, <1>2 DEF AuthInit, TypeOK

\* No step of the server takes a variable out of its type.
LEMMA NextType == TypeOK /\ [AuthNext]_authVars => TypeOK'
<1> SUFFICES ASSUME TypeOK, [AuthNext]_authVars
             PROVE  TypeOK'
  OBVIOUS
<1>1. ASSUME NEW t \in Tokens, NEW u \in Users, NEW req \in Requests, Login(t, u, req)
      PROVE  TypeOK'
  <2>1. [user |-> u, expire_req |-> req, expire_ts |-> MakeExpireTs(req),
         ws_started |-> 0] \in Session
    BY AuthAssumption, MakeExpireTsType DEF Session
  <2>2. live' = live \cup {t} /\ sessions' \in [live' -> Session]
    BY <1>1, <2>1, StoreType DEF Login
  <2>3. QED
    BY <1>1, <2>2 DEF Login, TypeOK
<1>2. ASSUME NEW t \in Tokens, Logout(t)
      PROVE  TypeOK'
  BY <1>2, RetainType DEF Logout, TypeOK
<1>3. ASSUME NEW t \in Tokens, CheckExpired(t)
      PROVE  TypeOK'
  BY <1>3, RetainType DEF CheckExpired, TypeOK
<1>4. ASSUME NEW w \in WS, NEW t \in Tokens, RequestByToken(w, t)
      PROVE  TypeOK'
  BY <1>4 DEF RequestByToken, TypeOK, live
<1>5. ASSUME NEW w \in WS, RequestByHeader(w)
      PROVE  TypeOK'
  BY <1>5 DEF RequestByHeader, TypeOK, live
<1>6. ASSUME NEW w \in WS, PrepareFails(w)
      PROVE  TypeOK'
  BY <1>6 DEF PrepareFails, Forget, TypeOK, live
<1>7. ASSUME NEW w \in WS, OpenWs(w)
      PROVE  TypeOK'
  <2>1. live' = live /\ sessions' \in [live' -> Session]
    BY <1>7, RenewWsType DEF OpenWs
  <2>2. QED
    BY <1>7, <2>1 DEF OpenWs, TypeOK
<1>8. ASSUME NEW w \in WS, CloseWs(w)
      PROVE  TypeOK'
  <2>1. live' = live /\ sessions' \in [live' -> Session]
    BY <1>8, RenewWsType DEF CloseWs, TypeOK, live
  <2>2. QED
    BY <1>8, <2>1 DEF CloseWs, Forget, TypeOK
<1>9. CASE CloseAllWs
  <2>1. ASSUME NEW t \in live, OpenWith(t) # {}
        PROVE  Renewed(sessions[t], sessions[t].ws_started - Cardinality(OpenWith(t)))
                 \in Session
    <3>1. Cardinality(OpenWith(t)) \in Nat
      BY AuthAssumption, FS_Subset, FS_CardinalityType DEF OpenWith, TypeOK
    <3>2. sessions[t] \in Session
      BY DEF TypeOK
    <3>3. sessions[t].ws_started - Cardinality(OpenWith(t)) \in Int
      BY <3>1, <3>2 DEF Session
    <3>4. QED
      BY <3>2, <3>3, RenewedType
  <2>2. live' = live /\ sessions' \in [live' -> Session]
    BY <1>9, <2>1 DEF CloseAllWs, TypeOK, live
  <2>3. QED
    BY <1>9, <2>2 DEF CloseAllWs, TypeOK
<1>10. CASE Tick
  BY <1>10 DEF Tick, TypeOK, live
<1>11. CASE UNCHANGED authVars
  BY <1>11 DEF authVars, TypeOK, live
<1>12. QED
  BY <1>1, <1>2, <1>3, <1>4, <1>5, <1>6, <1>7, <1>8, <1>9, <1>10, <1>11 DEF
     AuthNext

\* The state variables always have their types.
THEOREM AuthTypeCorrect == AuthSpec => []TypeOK
  BY InitType, NextType, PTL DEF AuthSpec

-----------------------------------------------------------------------------
(* The session accounting *)

AuthIInv == TypeOK /\ RegisteredIsOpen /\ WsAccounting /\ OpenSessionIsInfinite

\* The registered websockets of a token are finitely many.
LEMMA OpenWithFinite ==
  ASSUME TypeOK, NEW t
  PROVE  IsFiniteSet(OpenWith(t)) /\ Cardinality(OpenWith(t)) \in Nat
  BY AuthAssumption, FS_Subset, FS_CardinalityType DEF OpenWith, TypeOK

\* The strengthened invariant holds when the server starts.
LEMMA AuthInitIInv == AuthInit => AuthIInv
  BY InitType DEF AuthInit, AuthIInv, RegisteredIsOpen, WsAccounting,
     OpenSessionIsInfinite, live

\* What RenewWs does to one session when the websocket w is added to (d = 1) or
\* removed from (d = -1) the websockets of its token.
LEMMA RenewWsEffect ==
  ASSUME TypeOK, NEW w \in WS, NEW d \in Int, RenewWs(w, d), NEW t \in live
  PROVE  /\ live' = live
         /\ sessions'[t] = IF Extend /\ wsToken[w] = t
                           THEN Renewed(sessions[t], sessions[t].ws_started + d)
                           ELSE sessions[t]
  BY DEF RenewWs, Store, TypeOK, live

\* No step of the server breaks the strengthened invariant.
LEMMA AuthNextIInv == AuthIInv /\ [AuthNext]_authVars => AuthIInv'
<1> SUFFICES ASSUME AuthIInv, [AuthNext]_authVars
             PROVE  AuthIInv'
  OBVIOUS
<1> USE DEF AuthIInv
<1>0. TypeOK'
  BY NextType
<1>1. ASSUME NEW t \in Tokens, NEW u \in Users, NEW req \in Requests, Login(t, u, req)
      PROVE  AuthIInv'
  <2>1. OpenWith(t) = {}
    BY <1>1, AuthAssumption DEF Login, OpenWith, TypeOK
  <2>2. \A o : OpenWith(o)' = OpenWith(o)
    BY <1>1 DEF Login, OpenWith
  <2>3. sessions'[t].ws_started = 0 /\ t \notin live /\ live' = live \cup {t}
    BY <1>1 DEF Login, Store, live, TypeOK
  <2>4. \A o \in live : sessions'[o] = sessions[o]
    BY <1>1, <2>3 DEF Login, Store
  <2>5. WsAccounting'
    BY <2>1, <2>2, <2>3, <2>4, FS_EmptySet DEF WsAccounting
  <2>6. OpenSessionIsInfinite'
    BY <2>1, <2>2, <2>3, <2>4 DEF OpenSessionIsInfinite
  <2>7. RegisteredIsOpen'
    BY <1>1 DEF Login, RegisteredIsOpen
  <2>8. QED
    BY <1>0, <2>5, <2>6, <2>7
<1>2. ASSUME live' \subseteq live, \A t \in live' : sessions'[t] = sessions[t],
             \A t : OpenWith(t)' = OpenWith(t), RegisteredIsOpen'
      PROVE  AuthIInv'
  BY <1>0, <1>2 DEF WsAccounting, OpenSessionIsInfinite
<1>3. ASSUME NEW t \in Tokens, Logout(t)
      PROVE  AuthIInv'
  BY <1>2, <1>3 DEF Logout, Retain, live, OpenWith, RegisteredIsOpen
<1>4. ASSUME NEW t \in Tokens, CheckExpired(t)
      PROVE  AuthIInv'
  BY <1>2, <1>4 DEF CheckExpired, Retain, live, OpenWith, RegisteredIsOpen
<1>5. ASSUME NEW w \in WS, NEW t \in Tokens, RequestByToken(w, t)
      PROVE  AuthIInv'
  BY <1>2, <1>5 DEF RequestByToken, live, OpenWith, RegisteredIsOpen, TypeOK
<1>6. ASSUME NEW w \in WS, RequestByHeader(w)
      PROVE  AuthIInv'
  BY <1>2, <1>6 DEF RequestByHeader, live, OpenWith, RegisteredIsOpen, TypeOK
<1>7. ASSUME NEW w \in WS, PrepareFails(w)
      PROVE  AuthIInv'
  BY <1>2, <1>7 DEF PrepareFails, Forget, live, OpenWith, RegisteredIsOpen,
     TypeOK
<1>8. ASSUME NEW w \in WS, OpenWs(w)
      PROVE  AuthIInv'
  <2>1. w \notin wss /\ RenewWs(w, 1)
    BY <1>8 DEF OpenWs, RegisteredIsOpen
  <2>2. \A t : OpenWith(t)' = IF wsToken[w] = t THEN OpenWith(t) \cup {w} ELSE OpenWith(t)
    BY <1>8 DEF OpenWs, OpenWith
  <2>3. ASSUME NEW t \in live, Extend, wsToken[w] = t
        PROVE  /\ sessions'[t].ws_started = Cardinality(OpenWith(t)')
               /\ sessions'[t].expire_ts = 0
    <3>1. Cardinality(OpenWith(t)') = Cardinality(OpenWith(t)) + 1
      <4>1. OpenWith(t)' = OpenWith(t) \cup {w} /\ w \notin OpenWith(t)
        BY <2>1, <2>2, <2>3 DEF OpenWith
      <4>2. Cardinality(OpenWith(t) \cup {w}) = Cardinality(OpenWith(t)) + 1
        BY <4>1, OpenWithFinite, FS_AddElement
      <4>3. QED
        BY <4>1, <4>2
    <3>2. sessions[t].ws_started = Cardinality(OpenWith(t))
      BY <2>3 DEF WsAccounting
    <3>3. sessions[t] \in Session /\ Cardinality(OpenWith(t)) \in Nat
      BY OpenWithFinite DEF TypeOK
    <3>4. sessions'[t] = Renewed(sessions[t], Cardinality(OpenWith(t)) + 1)
      BY <2>1, <2>3, <3>2, RenewWsEffect
    <3>5. QED
      BY <3>1, <3>3, <3>4 DEF Renewed, Session
  <2>4. ASSUME NEW t \in live, ~(Extend /\ wsToken[w] = t)
        PROVE  sessions'[t] = sessions[t] /\ (Extend => OpenWith(t)' = OpenWith(t))
    BY <2>1, <2>2, <2>4, RenewWsEffect
  <2>5. live' = live
    BY <2>1, RenewWsType
  <2>6. WsAccounting' /\ OpenSessionIsInfinite'
    BY <2>3, <2>4, <2>5 DEF WsAccounting, OpenSessionIsInfinite
  <2>7. RegisteredIsOpen'
    BY <1>8 DEF OpenWs, RegisteredIsOpen, TypeOK
  <2>8. QED
    BY <1>0, <2>6, <2>7
<1>9. ASSUME NEW w \in WS, CloseWs(w)
      PROVE  AuthIInv'
  <2>1. \A t : OpenWith(t)' = OpenWith(t) \ {w}
    BY <1>9 DEF CloseWs, Forget, OpenWith, TypeOK
  <2>2. RegisteredIsOpen'
    BY <1>9 DEF CloseWs, Forget, RegisteredIsOpen, TypeOK
  <2>3. CASE w \notin wss
    BY <1>2, <1>9, <2>1, <2>2, <2>3 DEF CloseWs, OpenWith, live
  <2>4. CASE w \in wss
    <3>1. RenewWs(w, -1)
      BY <1>9, <2>4 DEF CloseWs
    <3>2. ASSUME NEW t \in live, Extend, wsToken[w] = t
          PROVE  /\ sessions'[t].ws_started = Cardinality(OpenWith(t)')
                 /\ OpenWith(t)' # {} => sessions'[t].expire_ts = 0
      <4>1. /\ Cardinality(OpenWith(t)') = Cardinality(OpenWith(t)) - 1
            /\ Cardinality(OpenWith(t)') \in Nat
            /\ OpenWith(t)' # {} => Cardinality(OpenWith(t)') # 0
        <5>1. OpenWith(t)' = OpenWith(t) \ {w} /\ w \in OpenWith(t)
          BY <2>1, <2>4, <3>2 DEF OpenWith
        <5>2. /\ IsFiniteSet(OpenWith(t) \ {w})
              /\ Cardinality(OpenWith(t) \ {w}) = Cardinality(OpenWith(t)) - 1
          BY <5>1, OpenWithFinite, FS_RemoveElement
        <5>3. /\ Cardinality(OpenWith(t) \ {w}) \in Nat
              /\ Cardinality(OpenWith(t) \ {w}) = 0 => OpenWith(t) \ {w} = {}
          BY <5>2, FS_CardinalityType, FS_EmptySet
        <5>4. QED
          BY <5>1, <5>2, <5>3
      <4>2. sessions[t].ws_started = Cardinality(OpenWith(t))
        BY <3>2 DEF WsAccounting
      <4>3. sessions[t] \in Session /\ Cardinality(OpenWith(t)) \in Nat
        BY OpenWithFinite DEF TypeOK
      <4>4. sessions'[t] = Renewed(sessions[t], Cardinality(OpenWith(t)) + (-1))
        BY <3>1, <3>2, <4>2, RenewWsEffect
      <4>5. QED
        BY <4>1, <4>3, <4>4 DEF Renewed, Session
    <3>3. ASSUME NEW t \in live, ~(Extend /\ wsToken[w] = t)
          PROVE  sessions'[t] = sessions[t] /\ (Extend => OpenWith(t)' = OpenWith(t))
      BY <2>1, <3>1, <3>3, RenewWsEffect DEF OpenWith
    <3>4. live' = live
      BY <3>1, RenewWsType
    <3>5. WsAccounting' /\ OpenSessionIsInfinite'
      BY <3>2, <3>3, <3>4 DEF WsAccounting, OpenSessionIsInfinite
    <3>6. QED
      BY <1>0, <2>2, <3>5
  <2>5. QED
    BY <2>3, <2>4
<1>10. CASE CloseAllWs
  <2>1. \A t : OpenWith(t)' = {}
    BY <1>10 DEF CloseAllWs, OpenWith
  <2>2. ASSUME NEW t \in live
        PROVE  sessions'[t].ws_started = 0
    <3>1. sessions[t] \in Session /\ Cardinality(OpenWith(t)) \in Nat
      BY OpenWithFinite DEF TypeOK
    <3>2. sessions[t].ws_started = IF Extend THEN Cardinality(OpenWith(t)) ELSE 0
      BY DEF WsAccounting
    <3>3. CASE Extend /\ OpenWith(t) # {}
      <4>1. sessions'[t] =
              Renewed(sessions[t], sessions[t].ws_started - Cardinality(OpenWith(t)))
        BY <1>10, <3>3 DEF CloseAllWs
      <4>2. QED
        BY <3>1, <3>2, <3>3, <4>1 DEF Renewed, Session
    <3>4. CASE ~(Extend /\ OpenWith(t) # {})
      BY <1>10, <3>2, <3>4, FS_EmptySet DEF CloseAllWs
    <3>5. QED
      BY <3>3, <3>4
  <2>3. live' = live
    BY <1>10 DEF CloseAllWs, live
  <2>4. WsAccounting' /\ OpenSessionIsInfinite'
    BY <2>1, <2>2, <2>3, FS_EmptySet DEF WsAccounting, OpenSessionIsInfinite
  <2>5. QED
    BY <1>0, <1>10, <2>4 DEF CloseAllWs, RegisteredIsOpen
<1>11. CASE Tick
  BY <1>2, <1>11 DEF Tick, live, OpenWith, RegisteredIsOpen
<1>12. CASE UNCHANGED authVars
  BY <1>2, <1>12 DEF authVars, live, OpenWith, RegisteredIsOpen
<1>13. QED
  BY <1>1, <1>3, <1>4, <1>5, <1>6, <1>7, <1>8, <1>9, <1>10, <1>11, <1>12 DEF
     AuthNext

\* The counter of every stored session is the number of its registered sockets.
THEOREM WsAccountingHolds == AuthSpec => []WsAccounting
<1>1. AuthIInv => WsAccounting
  BY DEF AuthIInv
<1>2. QED
  BY AuthInitIInv, AuthNextIInv, <1>1, PTL DEF AuthSpec

\* With extending enabled, a session with an open websocket has no deadline.
THEOREM OpenSessionNeverExpires == AuthSpec => []OpenSessionIsInfinite
<1>1. AuthIInv => OpenSessionIsInfinite
  BY DEF AuthIInv
<1>2. QED
  BY AuthInitIInv, AuthNextIInv, <1>1, PTL DEF AuthSpec

-----------------------------------------------------------------------------
(* Deadlines *)

\* A deadline that is computed is set, and at most the limiting time away.
LEMMA MakeExpireTsBound ==
  ASSUME TypeOK, NEW req \in Nat, NEW n \in {req, Expire}, n > 0
  PROVE  MakeExpireTs(req) > 0 /\ MakeExpireTs(req) <= now + n
  BY AuthAssumption DEF TypeOK, MakeExpireTs, Limit

\* When the server starts there is no session to limit.
LEMMA InitLimited == AuthInit => ClosedSessionIsLimited
  BY DEF AuthInit, ClosedSessionIsLimited, live

\* What a step may do to the deadline of a session: nothing, set it anew, or
\* lift it because a websocket is open.
LEMMA StepDeadline ==
  ASSUME AuthIInv, [AuthNext]_authVars, AuthIInv', NEW t \in live',
         ~Extend \/ OpenWith(t)' = {}
  PROVE  \/ sessions'[t].expire_ts = MakeExpireTs(sessions'[t].expire_req)
         \/ /\ t \in live
            /\ ~Extend \/ OpenWith(t) = {}
            /\ sessions'[t] = sessions[t]
<1> DEFINE Fresh == sessions'[t].expire_ts = MakeExpireTs(sessions'[t].expire_req)
           Same == t \in live /\ sessions'[t] = sessions[t] /\ OpenWith(t)' = OpenWith(t)
<1> SUFFICES Fresh \/ Same \/ (t \in live /\ ~Extend /\ sessions'[t] = sessions[t])
  OBVIOUS
<1> USE DEF AuthIInv
<1>1. ASSUME NEW o \in Tokens, NEW u \in Users, NEW req \in Requests, Login(o, u, req)
      PROVE  Fresh \/ Same
  <2>1. OpenWith(t)' = OpenWith(t)
    BY <1>1 DEF Login, OpenWith
  <2>2. QED
    BY <1>1, <2>1 DEF Login, Store, live
<1>2. ASSUME NEW o \in Tokens, Logout(o) \/ CheckExpired(o)
      PROVE  Same
  BY <1>2 DEF Logout, CheckExpired, Retain, live, OpenWith
<1>3. ASSUME NEW w \in WS, \/ \E o \in Tokens : RequestByToken(w, o)
                          \/ RequestByHeader(w)
                          \/ PrepareFails(w)
      PROVE  Same
  BY <1>3 DEF RequestByToken, RequestByHeader, PrepareFails, Forget, live, OpenWith,
     RegisteredIsOpen, TypeOK
<1>4. ASSUME NEW w \in WS, NEW d \in {1, -1}, RenewWs(w, d)
      PROVE  \/ Fresh
             \/ t \in live /\ sessions'[t] = sessions[t] /\ (~Extend \/ wsToken[w] # t)
  <2>1. live' = live
    BY <1>4, RenewWsType
  <2>2. CASE ~(Extend /\ wsToken[w] = t)
    BY <1>4, <2>1, <2>2, RenewWsEffect
  <2>3. CASE Extend /\ wsToken[w] = t
    <3>1. sessions'[t] = Renewed(sessions[t], sessions[t].ws_started + d)
      BY <1>4, <2>1, <2>3, RenewWsEffect
    <3>2. sessions'[t].ws_started = 0
      BY <2>3, FS_EmptySet DEF WsAccounting
    <3>3. QED
      BY <3>1, <3>2 DEF Renewed
  <2>4. QED
    BY <2>2, <2>3
<1>5. ASSUME NEW w \in WS, OpenWs(w)
      PROVE  Fresh \/ Same \/ (t \in live /\ ~Extend /\ sessions'[t] = sessions[t])
  <2>1. wsToken[w] # t => OpenWith(t)' = OpenWith(t)
    BY <1>5 DEF OpenWs, OpenWith
  <2>2. QED
    BY <1>4, <1>5, <2>1 DEF OpenWs
<1>6. ASSUME NEW w \in WS, CloseWs(w)
      PROVE  Fresh \/ Same \/ (t \in live /\ ~Extend /\ sessions'[t] = sessions[t])
  <2>1. OpenWith(t)' = OpenWith(t) \ {w}
    BY <1>6 DEF CloseWs, Forget, OpenWith, TypeOK
  <2>2. CASE w \notin wss
    BY <1>6, <2>1, <2>2 DEF CloseWs, OpenWith, live
  <2>3. CASE w \in wss
    <3>1. wsToken[w] # t => OpenWith(t)' = OpenWith(t)
      BY <2>1 DEF OpenWith
    <3>2. QED
      BY <1>4, <1>6, <2>3, <3>1 DEF CloseWs
  <2>4. QED
    BY <2>2, <2>3
<1>7. CASE CloseAllWs
  <2>1. t \in live /\ live' = live
    BY <1>7 DEF CloseAllWs, live
  <2>2. CASE Extend /\ OpenWith(t) # {}
    <3>1. sessions'[t] =
            Renewed(sessions[t], sessions[t].ws_started - Cardinality(OpenWith(t)))
      BY <1>7, <2>1, <2>2 DEF CloseAllWs
    <3>2. sessions'[t].ws_started = 0
      BY <2>2, FS_EmptySet DEF WsAccounting
    <3>3. QED
      BY <3>1, <3>2 DEF Renewed
  <2>3. CASE ~(Extend /\ OpenWith(t) # {})
    BY <1>7, <2>1, <2>3 DEF CloseAllWs, OpenWith
  <2>4. QED
    BY <2>2, <2>3
<1>8. CASE Tick
  BY <1>8 DEF Tick, live, OpenWith
<1>9. CASE UNCHANGED authVars
  BY <1>9 DEF authVars, live, OpenWith
<1>10. QED
  BY <1>1, <1>2, <1>3, <1>5, <1>6, <1>7, <1>8, <1>9 DEF AuthNext

\* No step gives a session without websockets more time than its limits.
LEMMA NextLimited ==
  AuthIInv /\ AuthIInv' /\ ClosedSessionIsLimited /\ [AuthNext]_authVars => ClosedSessionIsLimited'
<1> SUFFICES ASSUME AuthIInv, AuthIInv', ClosedSessionIsLimited, [AuthNext]_authVars,
                    NEW t \in live', NEW n \in {sessions'[t].expire_req, Expire},
                    ~Extend \/ OpenWith(t)' = {}, n > 0
             PROVE  sessions'[t].expire_ts > 0 /\ sessions'[t].expire_ts <= now' + n
  BY DEF ClosedSessionIsLimited
<1>1. now \in Nat /\ now' \in Nat /\ now <= now'
  <2>1. now' = now \/ now' = now + 1
    <3>1. CASE UNCHANGED authVars \/ Tick
      BY <3>1 DEF authVars, Tick
    <3>2. CASE ~(UNCHANGED authVars \/ Tick)
      BY <3>2 DEF AuthNext, Login, Logout, CheckExpired, RequestByToken,
         RequestByHeader, PrepareFails, OpenWs, CloseWs, CloseAllWs
    <3>3. QED
      BY <3>1, <3>2
  <2>2. QED
    BY <2>1 DEF AuthIInv, TypeOK
<1>2. sessions'[t] \in Session /\ Expire \in Nat
  BY AuthAssumption DEF AuthIInv, TypeOK
<1>3. CASE sessions'[t].expire_ts = MakeExpireTs(sessions'[t].expire_req)
  <2>1. sessions'[t].expire_ts > 0 /\ sessions'[t].expire_ts <= now + n
    BY <1>2, <1>3, MakeExpireTsBound DEF AuthIInv, Session
  <2>2. n \in Nat /\ sessions'[t].expire_ts \in Nat
    BY <1>2 DEF Session
  <2>3. QED
    BY <1>1, <2>1, <2>2
<1>4. CASE t \in live /\ (~Extend \/ OpenWith(t) = {}) /\ sessions'[t] = sessions[t]
  <2>1. sessions'[t].expire_ts > 0 /\ sessions'[t].expire_ts <= now + n
    BY <1>4 DEF ClosedSessionIsLimited
  <2>2. n \in Nat /\ sessions'[t].expire_ts \in Nat
    BY <1>2 DEF Session
  <2>3. QED
    BY <1>1, <2>1, <2>2
<1>5. QED
  BY <1>3, <1>4, StepDeadline

\* A session no websocket extends has no more time left than its limits allow.
THEOREM ClosedSessionLimited == AuthSpec => []ClosedSessionIsLimited
  BY AuthInitIInv, AuthNextIInv, InitLimited, NextLimited, PTL DEF AuthSpec

-----------------------------------------------------------------------------
(* Removed sessions *)

\* No step stores again a token that was used and is closed.
LEMMA StepNoResurrection == TypeOK /\ [AuthNext]_authVars => (used \ live) \cap live' = {}
<1> SUFFICES ASSUME TypeOK, [AuthNext]_authVars
             PROVE  (used \ live) \cap live' = {}
  OBVIOUS
<1>1. ASSUME NEW t \in Tokens, NEW u \in Users, NEW req \in Requests, Login(t, u, req)
      PROVE  live' = live \cup {t} /\ t \notin used
  BY <1>1 DEF Login, Store, live
<1>2. ASSUME NEW t \in Tokens, Logout(t) \/ CheckExpired(t)
      PROVE  live' \subseteq live
  BY <1>2 DEF Logout, CheckExpired, Retain, live
<1>3. ASSUME NEW w \in WS, OpenWs(w) \/ CloseWs(w)
      PROVE  live' = live
  <2>1. CASE UNCHANGED sessions
    BY <2>1 DEF live
  <2>2. CASE RenewWs(w, 1) \/ RenewWs(w, -1)
    BY <2>2, RenewWsType
  <2>3. QED
    BY <1>3, <2>1, <2>2 DEF OpenWs, CloseWs
<1>4. ASSUME \/ \E w \in WS, t \in Tokens : RequestByToken(w, t)
             \/ \E w \in WS : RequestByHeader(w) \/ PrepareFails(w)
             \/ CloseAllWs
             \/ Tick
             \/ UNCHANGED authVars
      PROVE  live' = live
  BY <1>4 DEF RequestByToken, RequestByHeader, PrepareFails, CloseAllWs, Tick,
     authVars, live
<1>5. QED
  BY <1>1, <1>2, <1>3, <1>4 DEF AuthNext

\* A session that was closed never comes back.
THEOREM ClosedStaysClosed == AuthSpec => NoResurrection
  BY AuthTypeCorrect, StepNoResurrection, PTL DEF AuthSpec, NoResurrection

-----------------------------------------------------------------------------
(* Why sessions go *)

\* The sessions that one step removes: those of one user, or a single one that
\* is past its deadline, which an open websocket would have lifted.
LEMMA StepRemoves ==
  OpenSessionIsInfinite /\ TypeOK /\ [AuthNext]_authVars =>
    \A t \in live \ live' :
      \/ \A o \in live : sessions[o].user = sessions[t].user => o \notin live'
      \/ Expired(t) /\ (Extend => OpenWith(t) = {})
<1> SUFFICES ASSUME OpenSessionIsInfinite, TypeOK, [AuthNext]_authVars, NEW t \in live \ live'
             PROVE  \/ \A o \in live : sessions[o].user = sessions[t].user => o \notin live'
                    \/ Expired(t) /\ (Extend => OpenWith(t) = {})
  OBVIOUS
<1>1. ASSUME NEW o \in Tokens, NEW u \in Users, NEW req \in Requests, Login(o, u, req)
      PROVE  FALSE
  BY <1>1 DEF Login, Store, live
<1>2. ASSUME NEW o \in Tokens, Logout(o)
      PROVE  \A other \in live : sessions[other].user = sessions[t].user => other \notin live'
  <2>1. live' = {other \in live : sessions[other].user # sessions[o].user}
    BY <1>2 DEF Logout, Retain, live
  <2>2. sessions[t].user = sessions[o].user
    BY <2>1
  <2>3. QED
    BY <2>1, <2>2
<1>3. ASSUME NEW o \in Tokens, CheckExpired(o)
      PROVE  Expired(t) /\ (Extend => OpenWith(t) = {})
  <2>1. t = o
    BY <1>3 DEF CheckExpired, Retain, live
  <2>2. Expired(t)
    BY <1>3, <2>1 DEF CheckExpired
  <2>3. sessions[t].expire_ts # 0
    BY <2>2 DEF Expired, TypeOK, Session
  <2>4. QED
    BY <2>2, <2>3 DEF OpenSessionIsInfinite
<1>4. ASSUME NEW w \in WS, OpenWs(w) \/ CloseWs(w)
      PROVE  FALSE
  <2>1. CASE UNCHANGED sessions
    BY <2>1 DEF live
  <2>2. CASE RenewWs(w, 1) \/ RenewWs(w, -1)
    BY <2>2, RenewWsType
  <2>3. QED
    BY <1>4, <2>1, <2>2 DEF OpenWs, CloseWs
<1>5. ASSUME \/ \E w \in WS, o \in Tokens : RequestByToken(w, o)
             \/ \E w \in WS : RequestByHeader(w) \/ PrepareFails(w)
             \/ CloseAllWs
             \/ Tick
             \/ UNCHANGED authVars
      PROVE  FALSE
  BY <1>5 DEF RequestByToken, RequestByHeader, PrepareFails, CloseAllWs, Tick,
     authVars, live
<1>6. QED
  BY <1>1, <1>2, <1>3, <1>4, <1>5 DEF AuthNext

\* A session goes by the logout of its user, who keeps none, or because it is
\* past its deadline and no websocket was extending it.
THEOREM NoneIsDropped == AuthSpec => RemovedForAReason
  BY AuthTypeCorrect, OpenSessionNeverExpires, StepRemoves, PTL DEF AuthSpec,
     RemovedForAReason

-----------------------------------------------------------------------------
(* The refinement of Leases *)

\* With no more or other sessions and the same registered websockets, leases stay.
LEMMA SameLeases ==
  ASSUME NEW S \in SUBSET live, live' = S, \A t \in S : sessions'[t] = sessions[t],
         \A t \in S : Extend => OpenWith(t)' = OpenWith(t)
  PROVE  [t \in live |-> LeaseOf(t)]' = [t \in S |-> LeaseOf(t)]
<1>1. ASSUME NEW t \in S PROVE LeaseOf(t)' = LeaseOf(t)
  BY <1>1 DEF LeaseOf, Limit
<1>2. QED
  BY <1>1

\* A session whose websockets were recounted is the lease with these websockets: the
\* counter says correctly whether the last one is gone.
LEMMA RecountedLease ==
  ASSUME AuthIInv, AuthIInv', Extend, now' = now, NEW t \in live, t \in live', NEW n \in Int,
         sessions'[t] = Renewed(sessions[t], n), NEW H, OpenWith(t)' = H
  PROVE  LeaseOf(t)' = Lease!HeldBy(LeaseOf(t), H)
<1> USE DEF AuthIInv
<1>1. sessions[t] \in Session /\ sessions'[t] \in Session
  BY DEF TypeOK
<1>2. sessions'[t].expire_ts =
        IF OpenWith(t)' = {} THEN MakeExpireTs(sessions[t].expire_req) ELSE 0
  <2>1. CASE OpenWith(t)' = {}
    <3>1. n = 0
      <4>1. sessions'[t].ws_started = Cardinality(OpenWith(t)')
        BY DEF WsAccounting
      <4>2. sessions'[t].ws_started = n
        BY DEF Renewed
      <4>3. QED
        BY <2>1, <4>1, <4>2, FS_EmptySet
    <3>2. QED
      BY <2>1, <3>1 DEF Renewed
  <2>2. CASE OpenWith(t)' # {}
    BY <2>2 DEF OpenSessionIsInfinite
  <2>3. QED
    BY <2>1, <2>2
<1>3. /\ sessions'[t].user = sessions[t].user
      /\ Limit(sessions'[t].expire_req) = Limit(sessions[t].expire_req)
  BY DEF Renewed
<1>4. MakeExpireTs(sessions[t].expire_req) = Lease!Deadline(LeaseOf(t).limit)
  BY DEF MakeExpireTs, Lease!Deadline, LeaseOf
<1>5. LeaseOf(t)' =
        [user |-> sessions'[t].user, limit |-> Limit(sessions'[t].expire_req),
         until |-> sessions'[t].expire_ts, holders |-> OpenWith(t)']
  BY DEF LeaseOf, Limit
<1>6. QED
  BY <1>2, <1>3, <1>4, <1>5 DEF Lease!HeldBy, LeaseOf

\* One websocket more or less is one holder more or less of its session, if that is
\* still there, and of no other.
LEMMA RenewWsLease ==
  ASSUME AuthIInv, AuthIInv', NEW w \in WS, NEW d \in Int, RenewWs(w, d), now' = now,
         NEW t, wsToken[w] = t, NEW H, OpenWith(t)' = H,
         \A o : t # o => OpenWith(o)' = OpenWith(o)
  PROVE  /\ live' = live
         /\ \A o \in live : LeaseOf(o)' = IF Extend /\ o = t THEN Lease!HeldBy(LeaseOf(o), H)
                                         ELSE LeaseOf(o)
<1> USE DEF AuthIInv
<1>1. live' = live
  BY RenewWsType
<1>2. ASSUME NEW o \in live, ~(Extend /\ o = t) PROVE LeaseOf(o)' = LeaseOf(o)
  <2>1. sessions'[o] = sessions[o] /\ (Extend => OpenWith(o)' = OpenWith(o))
    BY <1>2, RenewWsEffect
  <2>2. QED
    BY <2>1 DEF LeaseOf, Limit
<1>3. ASSUME Extend, t \in live PROVE LeaseOf(t)' = Lease!HeldBy(LeaseOf(t), H)
  <2>1. sessions'[t] = Renewed(sessions[t], sessions[t].ws_started + d)
    BY <1>3, RenewWsEffect
  <2>2. sessions[t].ws_started + d \in Int
    BY <1>3 DEF TypeOK, Session
  <2>3. QED
    BY <1>1, <1>3, <2>1, <2>2, RecountedLease
<1>4. QED
  BY <1>1, <1>2, <1>3

\* Leases that stay one by one stay together.
LEMMA LeasesStay ==
  ASSUME live' = live, now' = now, used' = used, \A o \in live : LeaseOf(o)' = LeaseOf(o)
  PROVE  UNCHANGED Lease!vars
<1>1. [o \in live |-> LeaseOf(o)]' = [o \in live |-> LeaseOf(o)]
  OBVIOUS
<1>2. QED
  BY <1>1 DEF Lease!vars

\* Leases with new holders change as Leases says.
LEMMA LeaseChanges ==
  ASSUME live' = live, now' = now, used' = used, NEW t \in live, NEW H,
         \A o \in live : LeaseOf(o)' = IF o = t THEN Lease!HeldBy(LeaseOf(o), H)
                                       ELSE LeaseOf(o)
  PROVE  /\ \A h : /\ h \notin LeaseOf(t).holders /\ H = LeaseOf(t).holders \cup {h}
                  => Lease!Join(t, h)
         /\ \A h : /\ h \in LeaseOf(t).holders /\ H = LeaseOf(t).holders \ {h}
                  => Lease!Leave(t, h)
<1>1. [o \in live |-> LeaseOf(o)]' =
        [o \in live |-> IF o \in DOMAIN [p \in {t} |-> H]
                       THEN Lease!HeldBy(LeaseOf(o), [p \in {t} |-> H][o]) ELSE LeaseOf(o)]
  OBVIOUS
<1>2. Lease!Change([p \in {t} |-> H])
  BY <1>1 DEF Lease!Change, Lease!Running
<1>3. QED
  BY <1>2 DEF Lease!Join, Lease!Leave, Lease!Running

\* Every step of the server is one step of the leases, or changes nothing of them.
LEMMA StepLeases == AuthIInv /\ AuthIInv' /\ [AuthNext]_authVars => [Lease!Next]_(Lease!vars)
<1> SUFFICES ASSUME AuthIInv, AuthIInv', [AuthNext]_authVars
             PROVE  [Lease!Next]_(Lease!vars)
  OBVIOUS
<1> USE DEF AuthIInv
<1>1. ASSUME NEW t \in Tokens, NEW u \in Users, NEW req \in Requests, Login(t, u, req)
      PROVE  Lease!Next
  <2>1. OpenWith(t)' = {}
    BY <1>1, AuthAssumption DEF Login, OpenWith, TypeOK
  <2>2. /\ t \notin live /\ live' = live \cup {t}
        /\ sessions'[t] = [user |-> u, expire_req |-> req, expire_ts |-> MakeExpireTs(req),
                           ws_started |-> 0]
        /\ \A o \in live : sessions'[o] = sessions[o] /\ OpenWith(o)' = OpenWith(o)
    BY <1>1 DEF Login, Store, live, TypeOK, OpenWith
  <2>3. LeaseOf(t)' = Lease!HeldBy([user |-> u, limit |-> Limit(req)], {})
    BY <2>1, <2>2 DEF LeaseOf, Limit, Lease!HeldBy, Lease!Deadline, MakeExpireTs
  <2>4. ASSUME NEW o \in live PROVE LeaseOf(o)' = LeaseOf(o)
    BY <2>2, <2>4 DEF LeaseOf, Limit
  <2>5. [o \in live |-> LeaseOf(o)]' =
          [o \in live \cup {t} |->
             IF o = t THEN Lease!HeldBy([user |-> u, limit |-> Limit(req)], {}) ELSE LeaseOf(o)]
    BY <2>2, <2>3, <2>4
  <2>6. Lease!Grant(t, u, Limit(req))
    BY <1>1, <2>2, <2>5 DEF Lease!Grant, Lease!Running, Login
  <2>7. QED
    BY <2>6 DEF Lease!Next
<1>2. ASSUME NEW t \in Tokens, Logout(t)
      PROVE  Lease!Next
  <2>1. sessions[t].user \in Users
    BY <1>2 DEF Logout, TypeOK, Session
  <2>2. /\ live' = {o \in live : LeaseOf(o).user # sessions[t].user}
        /\ \A o \in live' : sessions'[o] = sessions[o] /\ OpenWith(o)' = OpenWith(o)
    BY <1>2 DEF Logout, Retain, live, OpenWith, LeaseOf
  <2>3. [o \in live |-> LeaseOf(o)]' =
          [o \in {o \in live : LeaseOf(o).user # sessions[t].user} |-> LeaseOf(o)]
    BY <2>2, SameLeases
  <2>4. Lease!Revoke(sessions[t].user)
    BY <1>2, <2>3 DEF Lease!Revoke, Lease!Running, Logout
  <2>5. QED
    BY <2>1, <2>4 DEF Lease!Next
<1>3. ASSUME NEW t \in Tokens, CheckExpired(t)
      PROVE  Lease!Next
  <2>1. t \in live /\ sessions[t].expire_ts > 0 /\ now >= sessions[t].expire_ts
    BY <1>3 DEF CheckExpired, Expired
  <2>2. LeaseOf(t).holders = {} /\ LeaseOf(t).until = sessions[t].expire_ts
    BY <2>1 DEF LeaseOf, OpenSessionIsInfinite
  <2>3. /\ live' = live \ {t}
        /\ \A o \in live' : sessions'[o] = sessions[o] /\ OpenWith(o)' = OpenWith(o)
    BY <1>3 DEF CheckExpired, Retain, live, OpenWith
  <2>4. [o \in live |-> LeaseOf(o)]' = [o \in live \ {t} |-> LeaseOf(o)]
    BY <2>3, SameLeases
  <2>5. Lease!Lapse(t)
    BY <1>3, <2>1, <2>2, <2>4 DEF Lease!Lapse, Lease!Running, CheckExpired
  <2>6. QED
    BY <2>5 DEF Lease!Next
<1>4. ASSUME NEW w \in WS, \/ \E o \in Tokens : RequestByToken(w, o)
                          \/ RequestByHeader(w)
                          \/ PrepareFails(w)
      PROVE  UNCHANGED Lease!vars
  <2>1. UNCHANGED <<now, used, sessions, live>> /\ \A o \in live : OpenWith(o)' = OpenWith(o)
    BY <1>4 DEF RequestByToken, RequestByHeader, PrepareFails, Forget, live, OpenWith,
       RegisteredIsOpen, TypeOK
  <2>2. [o \in live |-> LeaseOf(o)]' = [o \in live |-> LeaseOf(o)]
    BY <2>1, SameLeases
  <2>3. QED
    BY <2>1, <2>2 DEF Lease!vars
<1>5. ASSUME NEW w \in WS, OpenWs(w)
      PROVE  [Lease!Next]_(Lease!vars)
  <2>0. PICK t : wsToken[w] = t
    OBVIOUS
  <2>1. /\ w \notin wss /\ RenewWs(w, 1) /\ now' = now /\ used' = used
        /\ \A o : OpenWith(o)' = IF t = o THEN OpenWith(o) \cup {w} ELSE OpenWith(o)
    BY <1>5, <2>0 DEF OpenWs, OpenWith, RegisteredIsOpen
  <2>2. /\ live' = live
        /\ \A o \in live : LeaseOf(o)' =
             IF Extend /\ o = t THEN Lease!HeldBy(LeaseOf(o), OpenWith(t) \cup {w})
             ELSE LeaseOf(o)
    BY <2>0, <2>1, RenewWsLease
  <2>3. CASE Extend /\ t \in live
    <3>1. w \notin LeaseOf(t).holders /\ LeaseOf(t).holders = OpenWith(t)
      BY <2>1, <2>3 DEF LeaseOf, OpenWith
    <3>2. Lease!Join(t, w)
      BY <2>1, <2>2, <2>3, <3>1, LeaseChanges
    <3>3. t \in Tokens
      BY <2>3 DEF TypeOK
    <3>4. QED
      BY <3>2, <3>3 DEF Lease!Next
  <2>4. CASE ~(Extend /\ t \in live)
    BY <2>1, <2>2, <2>4, LeasesStay
  <2>5. QED
    BY <2>3, <2>4
<1>6. ASSUME NEW w \in WS, CloseWs(w)
      PROVE  [Lease!Next]_(Lease!vars)
  <2>0. PICK t : wsToken[w] = t
    OBVIOUS
  <2>1. now' = now /\ used' = used /\ \A o : OpenWith(o)' = OpenWith(o) \ {w}
    BY <1>6 DEF CloseWs, Forget, OpenWith, TypeOK
  <2>2. CASE w \notin wss
    <3>1. sessions' = sessions /\ live' = live /\ \A o : OpenWith(o)' = OpenWith(o)
      BY <1>6, <2>1, <2>2 DEF CloseWs, OpenWith, live
    <3>2. \A o \in live : LeaseOf(o)' = LeaseOf(o)
      BY <3>1 DEF LeaseOf, Limit
    <3>3. QED
      BY <2>1, <3>1, <3>2, LeasesStay
  <2>3. CASE w \in wss
    <3>1. RenewWs(w, -1) /\ \A o : t # o => OpenWith(o)' = OpenWith(o)
      BY <1>6, <2>0, <2>1, <2>3 DEF CloseWs, OpenWith
    <3>2. /\ live' = live
          /\ \A o \in live : LeaseOf(o)' =
               IF Extend /\ o = t THEN Lease!HeldBy(LeaseOf(o), OpenWith(t) \ {w})
               ELSE LeaseOf(o)
      BY <2>0, <2>1, <3>1, RenewWsLease
    <3>3. CASE Extend /\ t \in live
      <4>1. w \in LeaseOf(t).holders /\ LeaseOf(t).holders = OpenWith(t)
        BY <2>0, <2>3, <3>3 DEF LeaseOf, OpenWith
      <4>2. Lease!Leave(t, w)
        BY <2>1, <3>2, <3>3, <4>1, LeaseChanges
      <4>3. t \in Tokens
        BY <3>3 DEF TypeOK
      <4>4. QED
        BY <4>2, <4>3 DEF Lease!Next
    <3>4. CASE ~(Extend /\ t \in live)
      BY <2>1, <3>2, <3>4, LeasesStay
    <3>5. QED
      BY <3>3, <3>4
  <2>4. QED
    BY <2>2, <2>3
<1>7. CASE CloseAllWs
  <2> DEFINE Held == {o \in live : LeaseOf(o).holders # {}}
  <2>1. live' = live /\ UNCHANGED <<now, used>> /\ \A o : OpenWith(o)' = {}
    BY <1>7 DEF CloseAllWs, live, OpenWith
  <2>2. ASSUME NEW o \in Held PROVE LeaseOf(o)' = Lease!HeldBy(LeaseOf(o), {})
    <3>1. o \in live /\ Extend /\ OpenWith(o) # {}
      BY <2>2 DEF LeaseOf
    <3>2. sessions'[o] = Renewed(sessions[o], sessions[o].ws_started - Cardinality(OpenWith(o)))
      BY <1>7, <3>1 DEF CloseAllWs
    <3>3. sessions[o].ws_started - Cardinality(OpenWith(o)) \in Int
      BY <3>1, OpenWithFinite DEF TypeOK, Session
    <3>4. QED
      BY <2>1, <3>1, <3>2, <3>3, RecountedLease
  <2>3. ASSUME NEW o \in live \ Held PROVE LeaseOf(o)' = LeaseOf(o)
    <3>1. ~(Extend /\ OpenWith(o) # {})
      BY <2>3 DEF LeaseOf
    <3>2. sessions'[o] = sessions[o] /\ (Extend => OpenWith(o)' = OpenWith(o))
      BY <1>7, <2>1, <2>3, <3>1 DEF CloseAllWs
    <3>3. QED
      BY <3>2 DEF LeaseOf, Limit
  <2>4. [o \in live |-> LeaseOf(o)]' =
          [o \in live |-> IF o \in Held THEN Lease!HeldBy(LeaseOf(o), {}) ELSE LeaseOf(o)]
    BY <2>1, <2>2, <2>3
  <2>5. Lease!LeaveAll
    BY <2>1, <2>4 DEF Lease!LeaveAll, Lease!Change, Lease!Running
  <2>6. QED
    BY <2>5 DEF Lease!Next
<1>8. CASE Tick
  <2>1. UNCHANGED <<sessions, live>> /\ \A o : OpenWith(o)' = OpenWith(o)
    BY <1>8 DEF Tick, live, OpenWith
  <2>2. [o \in live |-> LeaseOf(o)]' = [o \in live |-> LeaseOf(o)]
    BY <2>1, SameLeases
  <2>3. QED
    BY <1>8, <2>2 DEF Tick, Lease!Pass, Lease!Next
<1>9. CASE UNCHANGED authVars
  <2>1. UNCHANGED <<now, used, sessions, live>> /\ \A o : OpenWith(o)' = OpenWith(o)
    BY <1>9 DEF authVars, live, OpenWith
  <2>2. [o \in live |-> LeaseOf(o)]' = [o \in live |-> LeaseOf(o)]
    BY <2>1, SameLeases
  <2>3. QED
    BY <2>1, <2>2 DEF Lease!vars
<1>10. QED
  BY <1>1, <1>2, <1>3, <1>4, <1>5, <1>6, <1>7, <1>8, <1>9 DEF AuthNext

\* The session store implements the leases of Leases, for any users, tokens, limits
\* and websockets.
THEOREM StoreImplementsLeases == AuthSpec => ImplementsLeases
<1>1. AuthInit => Lease!Init
  BY DEF AuthInit, Lease!Init, live
<1>2. QED
  BY <1>1, AuthInitIInv, AuthNextIInv, StepLeases, PTL DEF AuthSpec, ImplementsLeases, Lease!Spec

-----------------------------------------------------------------------------
(* Vnc *)

\* The loop has some picture and __fb_has_key, which the client can show: it begins
\* with a key frame, or the client has what comes before it.
Shows(taken, key) ==
  key /\ taken.format = "h264" =>
    taken.data = "whole" \/ (decoder = "ok" /\ ~reset /\ taken.size = size)

\* The types of what the frames go through.
FramesType ==
  /\ queue \in Seq(StreamFrames)
  /\ size \in AllSizes /\ shared \in AllSizes /\ hasKey \in BOOLEAN
  /\ last = NoFrame \/ last \in Pictures

\* What is about to be sent can be shown, now or when the client has the new size.
FramesShow ==
  /\ sender \in {"resize", "message", "send"} => last \in Pictures /\ last.data # "nothing"
  /\ sender \in {"resize", "message"} => last.size # size
  /\ sender = "send" => last.size = size /\ (last.format = "h264" => hasKey)
  /\ hasKey => last \in Pictures
  /\ Shows(last, hasKey)
  /\ decoder # "broken"

\* KVMD holds no button that has been let go without telling it.
InputInv ==
  /\ mods \subseteq Modifiers
  /\ NoKey \notin held
  /\ ws => held \cap Buttons \subseteq buttons

VncIInv == FramesType /\ FramesShow /\ InputInv /\ NoStuckKeys

-----------------------------------------------------------------------------
(* The frames of a queue *)

\* What the loop keeps of a frame and of the picture before it.
Kept == [last : Pictures \cup {NoFrame}, hasKey : BOOLEAN]

\* One turn of the loop keeps what can be shown, and leaves something to send.
LEMMA MergeKeeps ==
  ASSUME NEW s \in Kept, NEW frame \in StreamFrames, Shows(s.last, s.hasKey)
  PROVE  /\ Merge(s, frame) \in Kept
         /\ Merge(s, frame).last \in Pictures /\ Merge(s, frame).last.data # "nothing"
         /\ Shows(Merge(s, frame).last, Merge(s, frame).hasKey)
<1> DEFINE r == Merge(s, frame)
<1>1. CASE Continues(s.last, frame)
  <2> DEFINE data == IF s.last.data = "nothing" THEN "delta" ELSE s.last.data
  <2>1. s.last \in Pictures
    BY <1>1 DEF Continues, Kept
  <2>2. r = [last |-> [format |-> s.last.format, size |-> s.last.size, data |-> data],
             hasKey |-> s.hasKey]
    BY <1>1, <2>1 DEF Merge, Kept, Pictures
  <2>3. data \in {"whole", "delta"} /\ (s.last.data = "whole" => data = "whole")
    BY <2>1 DEF Pictures
  <2> HIDE DEF r, data
  <2>4. r.last \in Pictures /\ r.hasKey = s.hasKey /\ r.last.data = data
        /\ r.last.format = s.last.format /\ r.last.size = s.last.size
    BY <2>1, <2>2, <2>3 DEF Pictures
  <2>5. r \in Kept
    BY <2>2, <2>4 DEF Kept
  <2>6. Shows(r.last, r.hasKey)
    BY <2>3, <2>4 DEF Shows
  <2> QED
    BY <2>3, <2>4, <2>5, <2>6 DEF r
<1>2. CASE ~Continues(s.last, frame)
  <2>1. r = [last |-> Taken(frame), hasKey |-> frame.key]
    BY <1>2 DEF Merge
  <2>2. /\ Taken(frame) \in Pictures /\ Taken(frame).data # "nothing"
        /\ frame.key => Taken(frame).data = "whole"
    BY DEF Taken, Data, StreamFrames, Pictures
  <2> QED
    BY <2>1, <2>2 DEF Shows, Kept, StreamFrames
<1> QED
  BY <1>1, <1>2

\* A set of numbers has a least one.
LEMMA Least ==
  ASSUME NEW S, S \subseteq Nat, S # {}
  PROVE  \E n \in S : \A m \in S : n <= m
<1>1. PICK n \in S : \A m \in S : ~(<<m, n>> \in OpToRel(<, Nat))
  BY NatLessThanWellFounded, WFMin
<1>2. \A m \in S : ~(m < n)
  BY <1>1 DEF OpToRel
<1> QED
  BY <1>2

\* What the loop keeps after each of the first n frames of a queue.
IsLoop(s, q, n, start) ==
  s = [i \in 0 .. n |-> IF i = 0 THEN start ELSE Merge(s[i - 1], q[i])]

\* There is such a function.
LEMMA LoopExists ==
  ASSUME NEW q, NEW N \in Nat, NEW start
  PROVE  \E f : IsLoop(f, q, N, start)
<1> DEFINE Without == {n \in Nat : ~ \E f : IsLoop(f, q, n, start)}
<1>1. SUFFICES ASSUME Without # {} PROVE FALSE
  OBVIOUS
<1>2. PICK n \in Without : \A m \in Without : n <= m
  <2>1. Without \subseteq Nat
    OBVIOUS
  <2> HIDE DEF Without
  <2> QED
    BY <1>1, <2>1, Least
<1>3. CASE n = 0
  <2>1. IsLoop([i \in 0 .. 0 |-> start], q, 0, start)
    BY DEF IsLoop
  <2> QED
    BY <1>2, <1>3, <2>1
<1>4. CASE n # 0
  <2>1. n - 1 \in Nat /\ n - 1 \notin Without
    <3>1. n \in Nat
      BY <1>2
    <3> HIDE DEF Without
    <3> QED
      BY <1>2, <1>4, <3>1
  <2>2. PICK f : IsLoop(f, q, n - 1, start)
    BY <2>1
  <2> DEFINE g == [i \in 0 .. n |-> IF i = n THEN Merge(f[n - 1], q[n]) ELSE f[i]]
  <2>3. \A i \in 0 .. n - 1 : g[i] = f[i]
    BY <2>1
  <2>4. \A i \in 0 .. n : g[i] = IF i = 0 THEN start ELSE Merge(g[i - 1], q[i])
    <3> SUFFICES ASSUME NEW i \in 0 .. n
                 PROVE  g[i] = IF i = 0 THEN start ELSE Merge(g[i - 1], q[i])
      OBVIOUS
    <3>1. CASE i = n
      BY <1>4, <2>1, <2>3, <3>1
    <3>2. CASE i # n
      <4>1. i \in 0 .. n - 1
        BY <2>1, <3>2
      <4>2. f[i] = IF i = 0 THEN start ELSE Merge(f[i - 1], q[i])
        BY <2>2, <4>1 DEF IsLoop
      <4>3. i # 0 => g[i - 1] = f[i - 1]
        BY <2>3, <4>1
      <4> QED
        BY <2>3, <4>1, <4>2, <4>3
    <3> QED
      BY <3>1, <3>2
  <2>5. IsLoop(g, q, n, start)
    BY <2>4 DEF IsLoop
  <2> QED
    BY <1>2, <2>5
<1> QED
  BY <1>3, <1>4

\* It goes through the whole queue, from what there was before.
LEMMA DrainedIsLoop ==
  ASSUME queue \in Seq(StreamFrames)
  PROVE  \E s : /\ s[0] = [last |-> last, hasKey |-> hasKey]
                /\ \A i \in 1 .. Len(queue) : s[i] = Merge(s[i - 1], queue[i])
                /\ Drained = s[Len(queue)]
<1> DEFINE start == [last |-> last, hasKey |-> hasKey]
           N == Len(queue)
           s == CHOOSE f : IsLoop(f, queue, N, start)
<1>1. N \in Nat
  OBVIOUS
<1>2. \E f : IsLoop(f, queue, N, start)
  BY <1>1, LoopExists
<1>3. IsLoop(s, queue, N, start)
  BY <1>2, Zenon
<1>4. Drained = s[N]
  BY Zenon DEF Drained, IsLoop
<1> HIDE DEF s
<1>5. s[0] = start /\ \A i \in 1 .. N : s[i] = Merge(s[i - 1], queue[i])
  <2> HIDE DEF start
  <2>1. s[0] = start
    BY <1>1, <1>3 DEF IsLoop
  <2>2. ASSUME NEW i \in 1 .. N PROVE s[i] = Merge(s[i - 1], queue[i])
    BY <1>1, <1>3, <2>2 DEF IsLoop
  <2> QED
    BY <2>1, <2>2
<1> QED
  BY <1>4, <1>5

\* What is left of a queue of frames can be shown, if it is sent at all.
LEMMA DrainedShows ==
  ASSUME FramesType, FramesShow, queue # <<>>
  PROVE  /\ Drained.last \in Pictures /\ Drained.last.data # "nothing"
         /\ Drained.hasKey \in BOOLEAN
         /\ Shows(Drained.last, Drained.hasKey)
<1>1. queue \in Seq(StreamFrames) /\ Len(queue) \in Nat \ {0}
  BY DEF FramesType
<1>2. PICK s : /\ s[0] = [last |-> last, hasKey |-> hasKey]
               /\ \A i \in 1 .. Len(queue) : s[i] = Merge(s[i - 1], queue[i])
               /\ Drained = s[Len(queue)]
  BY <1>1, DrainedIsLoop
<1> DEFINE Fine(i) == /\ s[i] \in Kept /\ Shows(s[i].last, s[i].hasKey)
                      /\ i > 0 => s[i].last \in Pictures /\ s[i].last.data # "nothing"
           Wrong == {i \in 0 .. Len(queue) : ~Fine(i)}
<1>3. Fine(0)
  BY <1>2 DEF FramesType, FramesShow, Kept
<1>4. ASSUME NEW i \in 1 .. Len(queue), Fine(i - 1) PROVE Fine(i)
  <2>1. queue[i] \in StreamFrames
    BY <1>1
  <2>2. s[i - 1] \in Kept /\ Shows(s[i - 1].last, s[i - 1].hasKey)
    BY <1>4
  <2>3. s[i] = Merge(s[i - 1], queue[i])
    BY <1>2
  <2> QED
    BY <2>1, <2>2, <2>3, MergeKeeps
<1> HIDE DEF Fine
<1>5. Wrong = {}
  <2>1. SUFFICES ASSUME Wrong # {} PROVE FALSE
    OBVIOUS
  <2>2. Wrong \subseteq Nat
    BY <1>1
  <2>3. PICK n \in Wrong : \A m \in Wrong : n <= m
    <3> HIDE DEF Wrong
    <3> QED
      BY <2>1, <2>2, Least
  <2>4. n # 0 /\ n \in 0 .. Len(queue)
    BY <1>3, <2>3
  <2>5. n \in 1 .. Len(queue) /\ n - 1 \in 0 .. Len(queue) /\ n - 1 < n
    BY <1>1, <2>4
  <2>6. n - 1 \notin Wrong
    <3> HIDE DEF Wrong
    <3> QED
      BY <2>2, <2>3, <2>5
  <2> QED
    BY <1>4, <2>3, <2>5, <2>6
<1>6. Fine(Len(queue)) /\ Len(queue) > 0
  BY <1>1, <1>5
<1> QED
  BY <1>2, <1>6 DEF Fine, Kept

-----------------------------------------------------------------------------
(* Steps of the frames *)

\* A frame at the end of the queue, in place of the oldest when it is full.
LEMMA QueueFrameType ==
  ASSUME FramesType, NEW frame \in StreamFrames, QueueFrame(frame)
  PROVE  queue' \in Seq(StreamFrames)
<1>1. queue \in Seq(StreamFrames)
  BY DEF FramesType
<1>2. CASE Len(queue) > QueueLimit
  <2>1. Len(queue) > 0
    BY <1>1, <1>2, QueueLimitAssumption
  <2>2. Tail(queue) \in Seq(StreamFrames)
    BY <1>1, <2>1
  <2> QED
    BY <1>2, <2>2 DEF QueueFrame
<1>3. CASE ~(Len(queue) > QueueLimit)
  BY <1>1, <1>3 DEF QueueFrame
<1> QED
  BY <1>2, <1>3

\* The reading task touches nothing but the queue.
LEMMA ReadKeeps ==
  ASSUME FramesType, FramesShow, Read
  PROVE  FramesType' /\ FramesShow'
<1>1. /\ UNCHANGED <<hasKey, last, sender, reset, size, shared, decoder>>
  BY DEF Read, StartReading, OpenStreamer, ReadFrame, StreamerFails, Source,
     client
<1>2. queue' \in Seq(StreamFrames)
  <2>1. CASE StartReading \/ OpenStreamer
    BY <2>1 DEF StartReading, OpenStreamer, FramesType
  <2>2. CASE ReadFrame
    <3>1. PICK frame \in IF format = "jpeg" THEN JpegFrames ELSE H264Frames : QueueFrame(frame)
      BY <2>2 DEF ReadFrame
    <3>2. frame \in StreamFrames
      <4>1. PICK f \in {"jpeg", "h264"}, key \in BOOLEAN, s \in Sizes : frame = Frame(f, key, s)
        <5>1. CASE frame \in JpegFrames
          BY <5>1, Zenon DEF JpegFrames
        <5>2. CASE frame \in H264Frames
          BY <5>2 DEF H264Frames
        <5> QED
          BY <3>1, <5>1, <5>2
      <4> QED
        BY <4>1 DEF Frame, StreamFrames, AllSizes
    <3> QED
      BY <3>1, <3>2, QueueFrameType
  <2>3. CASE StreamerFails
    <3>1. Frame("jpeg", FALSE, size) \in StreamFrames
      BY DEF Frame, StreamFrames, FramesType
    <3> QED
      BY <2>3, <3>1, QueueFrameType DEF StreamerFails
  <2> QED
    BY <2>1, <2>2, <2>3 DEF Read
<1> QED
  BY <1>1, <1>2 DEF FramesType, FramesShow, Shows

\* A picture that is not sent, for want of a key, counts for nothing.
LEMMA PrepareShows ==
  ASSUME NEW frame \in Pictures, NEW key \in BOOLEAN, Prepare(frame, key), hasKey' = key,
         frame.data # "nothing", frame.size = size', decoder' = decoder,
         key /\ frame.format = "h264" => frame.data = "whole" \/ (decoder = "ok" /\ ~reset')
  PROVE  /\ last' \in Pictures /\ sender' \in {"wait", "send"}
         /\ sender' = "send" => /\ last'.data # "nothing" /\ last'.size = size'
                                /\ last'.format = "h264" => hasKey'
         /\ Shows(last, hasKey)'
<1>1. CASE frame.format = "h264" /\ ~key
  BY <1>1 DEF Prepare, Pictures, Shows
<1>2. CASE ~(frame.format = "h264" /\ ~key)
  <2>1. sender' = "send" /\ last' = frame
    BY <1>2 DEF Prepare
  <2> QED
    BY <1>2, <2>1 DEF Shows
<1> QED
  BY <1>1, <1>2

\* The sending task sends what can be shown and forgets it, or keeps it.
LEMMA SendKeeps ==
  ASSUME FramesType, FramesShow, SendFrames
  PROVE  FramesType' /\ FramesShow'
<1> USE DEF Sender, reading, client
<1>1. CASE Allowed
  BY <1>1 DEF Allowed, FramesType, FramesShow, Shows
<1>2. CASE TakeFrames
  <2> DEFINE frame == Drained.last
             key == Drained.hasKey
  <2>1. /\ frame \in Pictures /\ frame.data # "nothing" /\ key \in BOOLEAN
        /\ Shows(frame, key)
    BY <1>2, DrainedShows DEF TakeFrames
  <2>2. /\ queue' = <<>> /\ hasKey' = key /\ UNCHANGED <<reset, size, decoder>>
        /\ IF frame.size = size
             THEN ~Unwanted(frame) /\ Prepare(frame, hasKey') /\ UNCHANGED shared
             ELSE /\ last' = frame /\ shared' = frame.size
                  /\ sender' = IF enc.resize THEN "resize" ELSE "message"
                  /\ UNCHANGED notified
    BY <1>2 DEF TakeFrames
  <2> HIDE DEF frame, key
  <2>3. CASE frame.size = size
    <3>1. Prepare(frame, key) /\ UNCHANGED shared
      BY <2>2, <2>3
    <3>2. key /\ frame.format = "h264" => frame.data = "whole" \/ (decoder = "ok" /\ ~reset')
      BY <2>1, <2>2 DEF Shows
    <3>3. /\ last' \in Pictures /\ sender' \in {"wait", "send"}
          /\ sender' = "send" => /\ last'.data # "nothing" /\ last'.size = size'
                                 /\ last'.format = "h264" => hasKey'
          /\ Shows(last, hasKey)'
      BY <2>1, <2>2, <2>3, <3>1, <3>2, PrepareShows
    <3> QED
      BY <2>1, <2>2, <3>1, <3>3 DEF FramesType, FramesShow
  <2>4. CASE frame.size # size
    <3>1. /\ last' = frame /\ shared' = frame.size /\ sender' \in {"resize", "message"}
      BY <2>2, <2>4
    <3>2. Shows(last, hasKey)'
      BY <2>1, <2>2, <3>1 DEF Shows
    <3>3. shared' \in AllSizes
      BY <2>1, <3>1 DEF Pictures
    <3> QED
      BY <2>1, <2>2, <2>4, <3>1, <3>2, <3>3 DEF FramesType, FramesShow
  <2> QED
    BY <2>3, <2>4
<1>3. CASE Resize
  <2>1. /\ last \in Pictures /\ last.data # "nothing" /\ last.size # size
        /\ hasKey \in BOOLEAN
    BY <1>3 DEF Resize, FramesShow, FramesType
  <2>2. /\ size' = last.size /\ Prepare(last, hasKey)
        /\ UNCHANGED <<queue, hasKey, shared, decoder>>
    BY <1>3 DEF Resize
  <2>3. hasKey /\ last.format = "h264" => last.data = "whole"
    BY <2>1 DEF FramesShow, Shows
  <2>4. /\ last' \in Pictures /\ sender' \in {"wait", "send"}
        /\ sender' = "send" => /\ last'.data # "nothing" /\ last'.size = size'
                               /\ last'.format = "h264" => hasKey'
        /\ Shows(last, hasKey)'
    BY <2>1, <2>2, <2>3, PrepareShows
  <2>5. size' \in AllSizes
    BY <2>1, <2>2 DEF Pictures
  <2> QED
    BY <2>2, <2>4, <2>5 DEF FramesType, FramesShow
<1>4. CASE SendMessage
  <2>1. /\ sender = "message" /\ sender' = "wait"
        /\ UNCHANGED <<queue, hasKey, last, size, shared, decoder>>
    BY <1>4 DEF SendMessage
  <2>2. hasKey /\ last.format = "h264" => last.data = "whole"
    BY <2>1 DEF FramesShow, Shows
  <2> QED
    BY <2>1, <2>2 DEF FramesType, FramesShow, Shows
<1>5. CASE Send
  <2>1. /\ sender = "send" /\ sender' = "wait"
        /\ last' = [last EXCEPT !.data = "nothing"]
        /\ reset' = (last.format = "jpeg")
        /\ decoder' = IF last.format = "jpeg" THEN decoder ELSE Decoded(last.data, reset)
        /\ UNCHANGED <<queue, hasKey, size, shared>>
    BY <1>5 DEF Send
  <2>2. /\ last \in Pictures /\ last.data # "nothing" /\ last.size = size
        /\ last.format = "h264" => hasKey
    BY <2>1 DEF FramesShow
  <2>3. /\ last' \in Pictures /\ last'.format = last.format /\ last'.size = size
    BY <2>1, <2>2 DEF Pictures
  <2>4. last.format = "h264" => decoder' = "ok" /\ ~reset'
    <3>1. SUFFICES ASSUME last.format = "h264" PROVE decoder' = "ok" /\ ~reset'
      OBVIOUS
    <3>2. last.data = "whole" \/ (decoder = "ok" /\ ~reset)
      BY <2>2, <3>1 DEF FramesShow, Shows
    <3>3. decoder' = Decoded(last.data, reset) /\ ~reset'
      BY <2>1, <3>1
    <3> QED
      BY <2>2, <3>2, <3>3 DEF Decoded, Pictures
  <2>5. decoder' # "broken"
    <3>1. CASE last.format = "jpeg"
      BY <2>1, <3>1 DEF FramesShow
    <3>2. CASE last.format = "h264"
      BY <2>4, <3>2
    <3> QED
      BY <2>2, <3>1, <3>2 DEF Pictures
  <2> QED
    BY <2>1, <2>3, <2>4, <2>5 DEF FramesType, FramesShow, Shows
<1> QED
  BY <1>1, <1>2, <1>3, <1>4, <1>5 DEF SendFrames

-----------------------------------------------------------------------------
(* Keys and buttons *)

\* What the client holds x down for.
MeantBy(x) == IF x \in Codes THEN KeyOf(x, {}) ELSE x

\* The keys that are meant, one by one.
LEMMA MeantIs == ASSUME NEW y PROVE y \in Meant <=> \E x \in down : y = MeantBy(x)
  BY DEF Meant, MeantBy

\* The same after a step.
LEMMA MeantIsThen == ASSUME NEW y PROVE y \in Meant' <=> \E x \in down' : y = MeantBy(x)
  BY DEF Meant, MeantBy

\* No key of a code is a button.
LEMMA KeyOfCode ==
  ASSUME NEW code \in Codes, NEW ms
  PROVE  KeyOf(code, ms) \notin Buttons
<1>1. ASSUME NEW m PROVE Variant(code, m) \notin Buttons
  BY NamesAssumption DEF Variant
<1>2. Direct(code, ms) \notin Buttons
  BY <1>1 DEF Direct
<1>3. NeedsShift(code, ms) => Symmap[code][{"shift"}] \notin Buttons
  BY NamesAssumption DEF NeedsShift
<1> QED
  BY <1>2, <1>3 DEF KeyOf

\* A code has one key, or its keys are ambiguous.
LEMMA OneKeyOrAmbiguous ==
  ASSUME NEW code \in Codes, NEW ms, ms \subseteq Modifiers
  PROVE  \/ KeyOf(code, ms) = KeyOf(code, {})
         \/ KeyOf(code, ms) \in Ambiguous /\ KeyOf(code, {}) \in Ambiguous
<1>1. ms \in SUBSET Modifiers /\ {} \in SUBSET Modifiers
  OBVIOUS
<1>2. CASE Fixed(code)
  BY <1>1, <1>2 DEF Fixed, Modifiers
<1>3. CASE ~Fixed(code)
  BY <1>1, <1>3 DEF Ambiguous, Modifiers
<1> QED
  BY <1>2, <1>3

\* What is held once a key was told of, or not.
After(h, key, state) == IF state THEN h \cup {key} ELSE h \ {key}

\* handle_key() tells of the key, if there is somebody to tell, or it is the
\* beginning of one that belongs to a shortcut.
Handles(m, h, key, state) ==
  \E n, g : /\ Handle([magic |-> m, held |-> h], key, state) = [magic |-> n, held |-> g]
            /\ ~ws => g = h
            /\ ws => g \subseteq After(h, key, state)

\* The end of a key is told of in any case.
LEMMA HandleTells ==
  ASSUME NEW m, NEW h, NEW key, NEW state \in BOOLEAN
  PROVE  Handles(m, h, key, state)
<1> DEFINE s == [magic |-> m, held |-> h]
           told == Tell(h, key, state)
           r == Handle(s, key, state)
           proxy == [magic |-> m, held |-> told]
<1>1. [s EXCEPT !.held = Tell(@, key, state)] = proxy
  OBVIOUS
<1>0. /\ ~ws => told = h
      /\ ws => told = After(h, key, state)
      /\ state => h \subseteq After(h, key, state)
  BY DEF Tell, After
<1> HIDE DEF told
<1>2. CASE r = proxy
  BY <1>0, <1>2 DEF Handles
<1>3. CASE r = [proxy EXCEPT !.magic.taps = @ + 1]
  <2>1. r = [magic |-> [m EXCEPT !.taps = @ + 1], held |-> told]
    BY <1>3
  <2> QED
    BY <1>0, <2>1 DEF Handles
<1>4. CASE r = [proxy EXCEPT !.magic = NoMagic]
  <2>1. r = [magic |-> NoMagic, held |-> told]
    BY <1>4
  <2> QED
    BY <1>0, <2>1 DEF Handles
<1>5. CASE state /\ r = [s EXCEPT !.magic = IF Complete(@, key) THEN NoMagic
                                              ELSE [@ EXCEPT !.digits = 1]]
  <2>1. r = [magic |-> IF Complete(m, key) THEN NoMagic ELSE [m EXCEPT !.digits = 1],
             held |-> h]
    BY <1>5
  <2> QED
    BY <1>0, <1>5, <2>1 DEF Handles
<1>6. \/ r = proxy \/ r = [proxy EXCEPT !.magic.taps = @ + 1]
      \/ r = [proxy EXCEPT !.magic = NoMagic]
      \/ state /\ r = [s EXCEPT !.magic = IF Complete(@, key) THEN NoMagic
                                            ELSE [@ EXCEPT !.digits = 1]]
  BY <1>1 DEF Handle
<1> QED
  BY <1>2, <1>3, <1>4, <1>5, <1>6

\* A step of input, when this is the key.
Told(key, state) ==
  /\ ~ws => held' = held
  /\ ws => held' \subseteq After(held, key, state)

\* A key that the client tells of is told of.
LEMMA QemuEventTells ==
  ASSUME NEW key, NEW state \in BOOLEAN, QemuEvent(key, state)
  PROVE  Told(key, state)
<1>1. PICK s \in Now : Becomes(Handle(s, key, state))
  BY DEF QemuEvent
<1>2. PICK m : s = [magic |-> m, held |-> held]
  BY <1>1 DEF Now
<1>3. PICK n, g : /\ Handle([magic |-> m, held |-> held], key, state) = [magic |-> n, held |-> g]
                  /\ ~ws => g = held
                  /\ ws => g \subseteq After(held, key, state)
  <2>1. Handles(m, held, key, state)
    BY HandleTells
  <2> QED
    BY <2>1, Zenon DEF Handles
<1>4. held' = g
  BY <1>1, <1>2, <1>3 DEF Becomes
<1> QED
  BY <1>3, <1>4 DEF Told

\* The Shift around a key is let go again.
LEMMA KeyEventTells ==
  ASSUME NEW code, NEW state \in BOOLEAN, KeyEvent(code, state), NoKey \notin held
  PROVE  /\ KeyOf(code, mods') = NoKey => held' = held
         /\ Told(KeyOf(code, mods'), state)
<1> DEFINE key == KeyOf(code, mods')
<1>1. PICK s \in Now :
        IF key = NoKey THEN Becomes([s EXCEPT !.magic = magic])
        ELSE IF NeedsShift(code, mods')
          THEN Becomes(Handle(Handle(Handle(s, Shift, TRUE), key, state), Shift, FALSE))
        ELSE Becomes(Handle(s, key, state))
  BY DEF KeyEvent
<1>2. PICK m : s = [magic |-> m, held |-> held]
  BY <1>1 DEF Now
<1> HIDE DEF key
<1>3. CASE key = NoKey
  <2>1. held' = held
    BY <1>1, <1>2, <1>3 DEF Becomes
  <2>2. held \subseteq After(held, key, state)
    BY <1>3 DEF After
  <2> QED
    BY <2>1, <2>2 DEF key, Told
<1>4. CASE key # NoKey /\ NeedsShift(code, mods')
  <2>1. Becomes(Handle(Handle(Handle(s, Shift, TRUE), key, state), Shift, FALSE))
    BY <1>1, <1>4
  <2>2. PICK n1, g1 : /\ Handle([magic |-> m, held |-> held], Shift, TRUE)
                           = [magic |-> n1, held |-> g1]
                      /\ ~ws => g1 = held
                      /\ ws => g1 \subseteq After(held, Shift, TRUE)
    <3>1. Handles(m, held, Shift, TRUE)
      BY HandleTells
    <3> QED
      BY <3>1, Zenon DEF Handles
  <2>3. PICK n2, g2 : /\ Handle([magic |-> n1, held |-> g1], key, state)
                           = [magic |-> n2, held |-> g2]
                      /\ ~ws => g2 = g1
                      /\ ws => g2 \subseteq After(g1, key, state)
    <3>1. Handles(n1, g1, key, state)
      BY HandleTells
    <3> QED
      BY <3>1, Zenon DEF Handles
  <2>4. PICK n3, g3 : /\ Handle([magic |-> n2, held |-> g2], Shift, FALSE)
                           = [magic |-> n3, held |-> g3]
                      /\ ~ws => g3 = g2
                      /\ ws => g3 \subseteq After(g2, Shift, FALSE)
    <3>1. Handles(n2, g2, Shift, FALSE)
      BY HandleTells
    <3> QED
      BY <3>1, Zenon DEF Handles
  <2>5. held' = g3
    <3>1. Becomes([magic |-> n3, held |-> g3])
      BY <1>2, <2>1, <2>2, <2>3, <2>4, Zenon
    <3> QED
      BY <3>1 DEF Becomes
  <2>6. ~ws => held' = held
    BY <2>2, <2>3, <2>4, <2>5
  <2>7. ws => held' \subseteq After(held, key, state)
    BY <2>2, <2>3, <2>4, <2>5 DEF After
  <2> QED
    BY <1>4, <2>6, <2>7 DEF key, Told
<1>5. CASE key # NoKey /\ ~NeedsShift(code, mods')
  <2>1. Becomes(Handle(s, key, state))
    BY <1>1, <1>5
  <2>2. PICK n, g : /\ Handle([magic |-> m, held |-> held], key, state) = [magic |-> n, held |-> g]
                    /\ ~ws => g = held
                    /\ ws => g \subseteq After(held, key, state)
    <3>1. Handles(m, held, key, state)
      BY HandleTells
    <3> QED
      BY <3>1, Zenon DEF Handles
  <2>3. held' = g
    BY <1>2, <2>1, <2>2 DEF Becomes
  <2> QED
    BY <1>5, <2>2, <2>3 DEF key, Told
<1> QED
  BY <1>3, <1>4, <1>5

\* What may be down when one event was told of: its key, if this is what the client
\* holds, or if it is ambiguous, and otherwise what was down before.
LEMMA TellingKeeps ==
  ASSUME InputInv, NoStuckKeys, NEW x, NEW key, NEW state \in BOOLEAN,
         Holds(x, state), Told(key, state), ws' = ws, closing' = closing,
         key = MeantBy(x) \/ (key \in Ambiguous /\ MeantBy(x) \in Ambiguous)
  PROVE  NoStuckKeys'
<1>1. ~ws /\ ~closing => held' = {}
  BY DEF NoStuckKeys, Told
<1>2. ASSUME ws, NEW y \in held' PROVE y \in Meant' \cup Ambiguous
  <2>1. held' \subseteq After(held, key, state)
    BY <1>2 DEF Told
  <2>2. CASE state /\ y = key
    <3>1. x \in down'
      BY <2>2 DEF Holds
    <3>2. MeantBy(x) \in Meant'
      BY <3>1, MeantIsThen
    <3> QED
      BY <2>2, <3>2
  <2>3. CASE y \in held /\ ~(~state /\ y = key)
    <3>1. y \in Ambiguous \/ y \in Meant
      BY <1>2, <2>3 DEF NoStuckKeys
    <3>2. ASSUME y \in Meant, y \notin Ambiguous PROVE y \in Meant'
      <4>1. PICK z \in down : y = MeantBy(z)
        BY <3>2, MeantIs
      <4>2. z \in down'
        BY <2>3, <3>2, <4>1 DEF Holds
      <4> QED
        BY <4>1, <4>2, MeantIsThen
    <3> QED
      BY <3>1, <3>2
  <2> QED
    BY <2>1, <2>2, <2>3 DEF After
<1>3. ws' => held' \subseteq Meant' \cup Ambiguous
  BY <1>2
<1> QED
  BY <1>1, <1>3 DEF NoStuckKeys

\* One message of the client about a key or a button.
LEMMA InputKeeps ==
  ASSUME VncIInv, Input
  PROVE  InputInv' /\ NoStuckKeys'
<1> USE DEF VncIInv
<1>1. UNCHANGED <<ws, closing>>
  BY DEF Input, Message, Running, KeyEvent, QemuEvent, PointerEvent
<1>2. ASSUME NEW state \in BOOLEAN, NEW code \in Codes, KeyEvent(code, state)
      PROVE  InputInv' /\ NoStuckKeys'
  <2> DEFINE key == KeyOf(code, mods')
  <2>1. NoKey \notin held /\ mods \subseteq Modifiers
    BY DEF InputInv
  <2>2. mods' \subseteq Modifiers /\ buttons' = buttons /\ Holds(code, state)
    BY <1>2, <2>1 DEF KeyEvent, Switched, Modifiers
  <2>3. (key = NoKey => held' = held) /\ Told(key, state)
    BY <1>2, <2>1, KeyEventTells
  <2>4. key \notin Buttons
    BY KeyOfCode
  <2>5. key = MeantBy(code) \/ (key \in Ambiguous /\ MeantBy(code) \in Ambiguous)
    BY <2>2, OneKeyOrAmbiguous DEF MeantBy
  <2> HIDE DEF key
  <2>6. InputInv'
    BY <1>1, <2>1, <2>2, <2>3, <2>4 DEF InputInv, Told, After
  <2>7. NoStuckKeys'
    BY <1>1, <2>2, <2>3, <2>5, TellingKeeps
  <2> QED
    BY <2>6, <2>7
<1>3. ASSUME NEW state \in BOOLEAN, NEW key \in Keys, QemuEvent(key, state)
      PROVE  InputInv' /\ NoStuckKeys'
  <2>1. Told(key, state)
    BY <1>3, QemuEventTells
  <2>2. mods' \subseteq Modifiers /\ buttons' = buttons /\ Holds(key, state)
    BY <1>3 DEF QemuEvent, Switched, Modifiers, InputInv
  <2>3. key = MeantBy(key) /\ key \notin Buttons /\ key # NoKey
    BY NamesAssumption DEF MeantBy
  <2>4. InputInv'
    BY <1>1, <2>1, <2>2, <2>3 DEF InputInv, Told, After
  <2>5. NoStuckKeys'
    BY <1>1, <2>1, <2>2, <2>3, TellingKeeps
  <2> QED
    BY <2>4, <2>5
<1>4. ASSUME NEW state \in BOOLEAN, NEW button \in Buttons, PointerEvent(button, state)
      PROVE  InputInv' /\ NoStuckKeys'
  <2>1. /\ Holds(button, state) /\ mods' = mods
        /\ buttons' = IF state THEN buttons \cup {button} ELSE buttons \ {button}
        /\ held' = IF (button \in buttons) # state THEN Tell(held, button, state) ELSE held
    BY <1>4 DEF PointerEvent
  <2>2. Told(button, state)
    <3>1. CASE state = TRUE
      BY <2>1, <3>1 DEF Told, After, Tell
    <3>2. CASE state = FALSE
      BY <2>1, <3>2 DEF Told, After, Tell, InputInv
    <3> QED
      BY <3>1, <3>2
  <2>3. button = MeantBy(button) /\ button # NoKey
    BY NamesAssumption DEF MeantBy
  <2>4. InputInv'
    <3>1. ws => held' \cap Buttons \subseteq buttons'
      <4>1. CASE state = TRUE
        BY <2>1, <2>2, <4>1 DEF InputInv, Told, After
      <4>2. CASE state = FALSE
        BY <2>1, <2>2, <4>2 DEF InputInv, Told, After
      <4> QED
        BY <4>1, <4>2
    <3>2. NoKey \notin held'
      BY <2>1, <2>3 DEF InputInv, Tell
    <3> QED
      BY <1>1, <2>1, <3>1, <3>2 DEF InputInv
  <2>5. NoStuckKeys'
    BY <1>1, <2>1, <2>2, <2>3, TellingKeeps
  <2> QED
    BY <2>4, <2>5
<1> QED
  BY <1>2, <1>3, <1>4 DEF Input

-----------------------------------------------------------------------------
(* The connection *)

\* An empty queue has the type of one.
LEMMA NoneQueued == <<>> \in Seq(StreamFrames)
  OBVIOUS

\* The first client finds nothing sent and nothing held.
LEMMA VncInitIInv == Init => VncIInv
<1> SUFFICES ASSUME Init PROVE VncIInv
  OBVIOUS
<1>1. FramesType /\ FramesShow
  <2>1. /\ queue = <<>> /\ hasKey = FALSE /\ last = NoFrame /\ sender = "wait"
        /\ size = FirstSize /\ shared = FirstSize /\ decoder = "empty"
    BY DEF Init, FramesInit
  <2>2. FramesType
    BY <2>1, NoneQueued DEF FramesType, AllSizes
  <2>3. FramesShow
    BY <2>1 DEF FramesShow, Shows
  <2> QED
    BY <2>2, <2>3
<1>2. InputInv /\ NoStuckKeys
  BY DEF Init, InputInit, InputInv, NoStuckKeys
<1> QED
  BY <1>1, <1>2 DEF VncIInv

\* Frames and input do not touch each other.
LEMMA FramesUnchanged ==
  ASSUME FramesType, FramesShow, UNCHANGED <<queue, hasKey, last, sender, reset, size, shared, decoder>>
  PROVE  FramesType' /\ FramesShow'
  BY DEF FramesType, FramesShow, Shows

\* Nor do the steps of the connection disturb either.
LEMMA InputUnchanged ==
  ASSUME InputInv, NoStuckKeys, UNCHANGED <<mods, buttons, down, ws, held, closing>>
  PROVE  InputInv' /\ NoStuckKeys'
  BY DEF InputInv, NoStuckKeys, Meant

\* Every step keeps the invariant.
LEMMA VncNextIInv == VncIInv /\ [Next]_vars => VncIInv'
<1> SUFFICES ASSUME VncIInv, [Next]_vars PROVE VncIInv'
  OBVIOUS
<1> USE DEF VncIInv
<1> DEFINE SameFrames == UNCHANGED <<queue, hasKey, last, sender, reset, size, shared, decoder>>
           SameInput == UNCHANGED <<mods, buttons, down, ws, held, closing>>
<1>1. CASE Connect \/ TaskFails \/ NoEncodingsInTime \/ Unaccepted
  <2>1. SameFrames /\ SameInput
    BY <1>1 DEF Connect, TaskFails, NoEncodingsInTime, Unaccepted, Fail, Running,
       frameVars, inputVars, reading, client
  <2> QED
    BY <2>1, FramesUnchanged, InputUnchanged
<1>2. CASE Cleanup
  <2>1. FramesType' /\ FramesShow'
    <3>1. /\ queue' = <<>> /\ hasKey' = FALSE /\ last' = NoFrame /\ sender' = "wait"
          /\ size' = shared /\ shared' = shared /\ decoder' = "empty"
      BY <1>2 DEF Cleanup, NextClient
    <3>2. FramesType'
      BY <3>1, NoneQueued DEF FramesType
    <3>3. FramesShow'
      BY <3>1 DEF FramesShow, Shows
    <3> QED
      BY <3>2, <3>3
  <2>2. InputInv' /\ NoStuckKeys'
    BY <1>2 DEF Cleanup, NextInput, InputInv, NoStuckKeys
  <2> QED
    BY <2>1, <2>2
<1>3. CASE Accepted \/ Event
  <2>1. SameFrames /\ SameInput
    BY <1>3 DEF Accepted, Event, SwitchEvent, KvmdTask, Running, frameVars, inputVars,
       reading, client
  <2> QED
    BY <2>1, FramesUnchanged, InputUnchanged
<1>4. CASE OpenKvmdWs \/ RemoveWs
  <2>1. SameFrames /\ held' = {} /\ UNCHANGED mods
    BY <1>4 DEF OpenKvmdWs, RemoveWs, KvmdTask, frameVars, reading, client
  <2>2. InputInv' /\ NoStuckKeys'
    BY <2>1 DEF InputInv, NoStuckKeys
  <2> QED
    BY <2>1, <2>2, FramesUnchanged
<1>5. CASE MainTask
  <2>1. CASE Input
    <3>1. SameFrames
      BY <2>1 DEF Input, frameVars, reading, client
    <3> QED
      BY <2>1, <3>1, FramesUnchanged, InputKeeps
  <2>2. CASE ~Input
    <3>1. SameFrames /\ SameInput
      BY <1>5, <2>2 DEF MainTask, Authorize, AcceptEncodings, ApplyParams, Request,
         ContUpdates, SetEncodings, UpdateRequest, EnableContUpdates, Asking, Message,
         Running, frameVars, inputVars, reading, client
    <3> QED
      BY <3>1, FramesUnchanged, InputUnchanged
  <2> QED
    BY <2>1, <2>2
<1>6. CASE ReadTask \/ SendTask
  <2>1. FramesType' /\ FramesShow'
    BY <1>6, ReadKeeps, SendKeeps DEF ReadTask, SendTask
  <2>2. SameInput
    BY <1>6 DEF ReadTask, SendTask, Frames, Running, inputVars
  <2> QED
    BY <2>1, <2>2, InputUnchanged
<1>7. CASE UNCHANGED vars
  <2>1. SameFrames /\ SameInput
    BY <1>7 DEF vars, frameVars, inputVars, reading, client
  <2> QED
    BY <2>1, FramesUnchanged, InputUnchanged
<1> QED
  BY <1>1, <1>2, <1>3, <1>4, <1>5, <1>6, <1>7 DEF Next

-----------------------------------------------------------------------------
(* The types and stages of a connection *)

\* The types of the four tasks and of what they share about frames.
TaskTypes ==
  /\ life \in {"none", "open", "ending"}
  /\ main \in {"security", "loop", "encodings", "params"}
  /\ kvmd \in {"stage1", "stage2", "params", "ws"}
  /\ accepted \in BOOLEAN /\ closing \in BOOLEAN

FrameTypes ==
  /\ required \in BOOLEAN /\ notified \in BOOLEAN /\ cont \in BOOLEAN
  /\ reset \in BOOLEAN /\ owed \in BOOLEAN
  /\ enc \in Abilities \cup {NoEncodings}
  /\ source \in {"stage3", "closed", "read"} /\ format \in {"jpeg", "h264"}
  /\ Len(queue) <= QueueLimit + 1
  /\ sender \in {"wait", "frame", "resize", "message", "send"}
  /\ decoder \in {"empty", "ok", "broken"}

InputTypes ==
  /\ mods \subseteq Modifiers /\ buttons \subseteq Buttons
  /\ magic \in [taps : 0 .. Trigger, digits : {0, 1}]
  /\ units \in Units \cup {0} /\ ws \in BOOLEAN
  /\ down \subseteq Codes \cup Keys \cup Buttons /\ held \subseteq Holdable

\* Together with the types of the frames they are those of all variables.
LEMMA VncTypeParts ==
  ASSUME TaskTypes, FrameTypes, FramesType, InputTypes
  PROVE  VncTypeOK
<1>1. {accepted, closing, required, hasKey, notified, cont, reset, owed, ws} \subseteq BOOLEAN
  BY DEF TaskTypes, FrameTypes, FramesType, InputTypes
<1>2. last \in Pictures \cup {NoFrame} /\ {size, shared} \subseteq AllSizes
  BY DEF FramesType
<1> QED
  BY <1>1, <1>2 DEF VncTypeOK, TaskTypes, FrameTypes, FramesType, InputTypes

\* The tasks only know the positions they have.
LEMMA TaskTypesStep ==
  ASSUME TaskTypes, InputTypes, [Next]_vars
  PROVE  TaskTypes'
<1> USE DEF TaskTypes
<1>1. CASE Connect \/ TaskFails \/ NoEncodingsInTime \/ Unaccepted
  BY <1>1 DEF Connect, TaskFails, NoEncodingsInTime, Unaccepted, Fail, Running
<1>2. CASE Cleanup
  BY <1>2 DEF Cleanup, InputTypes
<1>3. CASE Accepted \/ OpenKvmdWs \/ Event \/ RemoveWs
  BY <1>3 DEF Accepted, OpenKvmdWs, Event, RemoveWs, KvmdTask, Running, tasks
<1>4. CASE MainTask
  BY <1>4 DEF MainTask, Authorize, AcceptEncodings, ApplyParams, Input, Request,
     ContUpdates, SetEncodings, Message, Running
<1>5. CASE ReadTask \/ SendTask
  BY <1>5 DEF ReadTask, SendTask, Frames, Running, tasks
<1>6. CASE UNCHANGED vars
  BY <1>6 DEF vars, tasks
<1> QED
  BY <1>1, <1>2, <1>3, <1>4, <1>5, <1>6 DEF Next

\* An empty queue is not full.
LEMMA EmptyIsShort == Len(<<>>) <= QueueLimit + 1
  BY QueueLimitAssumption

\* Without a tap there is no shortcut.
LEMMA NoMagicType == NoMagic \in [taps : 0 .. Trigger, digits : {0, 1}]
  BY TriggerAssumption DEF NoMagic

\* A queue that is full loses a frame before it gets another.
LEMMA QueueStaysShort ==
  ASSUME FramesType, FrameTypes, NEW frame, QueueFrame(frame)
  PROVE  Len(queue') <= QueueLimit + 1
<1>1. queue \in Seq(StreamFrames) /\ Len(queue) \in Nat /\ QueueLimit \in Nat
  BY QueueLimitAssumption DEF FramesType
<1>2. CASE Len(queue) > QueueLimit
  <2>1. Len(Tail(queue)) = Len(queue) - 1
    BY <1>1, <1>2
  <2>2. Len(queue') = Len(Tail(queue)) + 1
    BY <1>1, <1>2 DEF QueueFrame
  <2> QED
    BY <1>1, <2>1, <2>2 DEF FrameTypes
<1>3. CASE ~(Len(queue) > QueueLimit)
  <2>1. Len(queue') = Len(queue) + 1
    BY <1>1, <1>3 DEF QueueFrame
  <2> QED
    BY <1>1, <1>3, <2>1
<1> QED
  BY <1>2, <1>3

\* The tasks of the frames and the messages about them keep these types.
LEMMA FrameTypesStep ==
  ASSUME FrameTypes, FramesType, FramesShow, [Next]_vars
  PROVE  FrameTypes'
<1>1. ASSUME UNCHANGED frameVars PROVE FrameTypes'
  BY <1>1 DEF FrameTypes, frameVars, reading, client
<1>2. CASE \/ Connect \/ TaskFails \/ NoEncodingsInTime \/ Unaccepted \/ Accepted
           \/ OpenKvmdWs \/ Event \/ RemoveWs \/ Authorize \/ AcceptEncodings
           \/ ApplyParams \/ Input \/ UNCHANGED vars
  BY <1>1, <1>2 DEF Connect, TaskFails, NoEncodingsInTime, Unaccepted, Fail, Accepted,
     OpenKvmdWs, Event, RemoveWs, KvmdTask, Authorize, AcceptEncodings, ApplyParams,
     Input, vars
<1>3. CASE Cleanup
  <2>1. NextClient
    BY <1>3 DEF Cleanup
  <2> QED
    BY <2>1, EmptyIsShort DEF NextClient, FrameTypes
<1>4. CASE Request \/ ContUpdates
  <2>1. UNCHANGED <<enc, source, format, required, queue, sender, reset, decoder>>
    BY <1>4 DEF Request, ContUpdates, UpdateRequest, EnableContUpdates, Asking, reading
  <2>2. notified' \in BOOLEAN /\ cont' \in BOOLEAN /\ owed' \in BOOLEAN
    <3>1. CASE Request
      BY <3>1 DEF Request, UpdateRequest, FrameTypes
    <3>2. CASE ContUpdates
      <4>1. PICK enabled \in BOOLEAN : EnableContUpdates(enabled)
        BY <3>2 DEF ContUpdates
      <4>2. cont' = enabled /\ owed' = enabled /\ notified' = (notified \/ enabled)
        BY <4>1 DEF EnableContUpdates
      <4> QED
        BY <4>2
    <3> QED
      BY <1>4, <3>1, <3>2
  <2> QED
    BY <2>1, <2>2 DEF FrameTypes
<1>5. ASSUME NEW e \in Abilities, SetEncodings(e) PROVE FrameTypes'
  BY <1>5 DEF SetEncodings, FrameTypes, reading, client
<1>6. CASE ReadTask
  <2>1. Len(queue') <= QueueLimit + 1
    <3>1. UNCHANGED queue \/ \E frame : QueueFrame(frame)
      BY <1>6 DEF ReadTask, Read, StartReading, OpenStreamer, ReadFrame, StreamerFails
    <3> QED
      BY <3>1, QueueStaysShort DEF FrameTypes
  <2>2. /\ source' \in {"stage3", "closed", "read"} /\ format' \in {"jpeg", "h264"}
        /\ required' \in BOOLEAN
    BY <1>6 DEF ReadTask, Read, StartReading, OpenStreamer, ReadFrame, StreamerFails,
       FrameTypes, FramesType
  <2>3. UNCHANGED <<enc, sender, notified, cont, reset, decoder, owed>>
    BY <1>6 DEF ReadTask, Read, StartReading, OpenStreamer, ReadFrame, StreamerFails,
       Source, client
  <2> QED
    BY <2>1, <2>2, <2>3 DEF FrameTypes
<1>7. CASE SendTask
  <2>1. UNCHANGED <<enc, source, format, required, cont>>
    BY <1>7 DEF SendTask, SendFrames, Allowed, TakeFrames, Resize, SendMessage, Send,
       Sender, reading
  <2>2. Len(queue') <= QueueLimit + 1
    <3>1. UNCHANGED queue \/ queue' = <<>>
      BY <1>7 DEF SendTask, SendFrames, Allowed, TakeFrames, Resize, SendMessage, Send
    <3> QED
      BY <3>1, QueueLimitAssumption DEF FrameTypes
  <2>3. /\ sender' \in {"wait", "frame", "resize", "message", "send"}
        /\ notified' \in BOOLEAN /\ reset' \in BOOLEAN /\ owed' \in BOOLEAN
        /\ decoder' \in {"empty", "ok", "broken"}
    BY <1>7 DEF SendTask, SendFrames, Allowed, TakeFrames, Resize, SendMessage, Send,
       Prepare, Updated, Decoded, FrameTypes, client
  <2> QED
    BY <2>1, <2>2, <2>3 DEF FrameTypes
<1> QED
  BY <1>2, <1>3, <1>4, <1>5, <1>6, <1>7 DEF Next, MainTask

\* A key of a code is one that may be held, or none.
LEMMA KeysOfCodes ==
  ASSUME NEW code \in Codes, NEW ms, ms \subseteq Modifiers
  PROVE  KeyOf(code, ms) \in Holdable \cup {NoKey}
<1>1. KeyOf(code, ms) \in Keyset
  BY DEF Keyset
<1> QED
  BY <1>1 DEF Holdable

\* The states of a shortcut.
Magics == [taps : 0 .. Trigger, digits : {0, 1}]

\* handle_key() gives a state of the shortcut and keys that can be held.
HandlesTyped(m, h, key, state) ==
  \E n \in Magics, g \in SUBSET Holdable :
    Handle([magic |-> m, held |-> h], key, state) = [magic |-> n, held |-> g]

\* What KVMD is told of can be held, and the taps are never too many.
LEMMA HandleTypes ==
  ASSUME NEW m \in Magics, NEW h \in SUBSET Holdable, NEW key \in Holdable,
         NEW state \in BOOLEAN
  PROVE  HandlesTyped(m, h, key, state)
<1> USE DEF Magics, HandlesTyped
<1> DEFINE g == Tell(h, key, state)
           proxy == [[magic |-> m, held |-> h] EXCEPT !.held = Tell(@, key, state)]
<1>1. g \in SUBSET Holdable
  BY DEF Tell
<1>2. proxy = [magic |-> m, held |-> g]
  OBVIOUS
<1> HIDE DEF g, proxy
<1>3. ASSUME m.taps # Trigger
      PROVE  /\ [m EXCEPT !.taps = @ + 1] \in Magics
             /\ [proxy EXCEPT !.magic.taps = @ + 1]
                  = [magic |-> [m EXCEPT !.taps = @ + 1], held |-> g]
  <2>1. m.taps + 1 \in 0 .. Trigger
    BY <1>3, TriggerAssumption
  <2> QED
    BY <1>2, <2>1
<1>4. NoMagic \in Magics /\ [m EXCEPT !.digits = 1] \in Magics
  BY TriggerAssumption DEF NoMagic
<1>5. [proxy EXCEPT !.magic = NoMagic] = [magic |-> NoMagic, held |-> g]
  BY <1>2
<1>6. CASE key = Alt
  <2>1. CASE state \/ m.taps = Trigger
    <3>1. Handle([magic |-> m, held |-> h], key, state) = proxy
      BY <1>6, <2>1 DEF Handle, proxy
    <3> QED
      BY <1>1, <1>2, <3>1
  <2>2. CASE ~(state \/ m.taps = Trigger)
    <3>1. Handle([magic |-> m, held |-> h], key, state)
            = [proxy EXCEPT !.magic.taps = @ + 1]
      BY <1>6, <2>2 DEF Handle, proxy
    <3> QED
      BY <1>1, <1>3, <2>2, <3>1
  <2> QED
    BY <2>1, <2>2
<1>7. CASE key # Alt /\ (~state \/ ~IsShortcut(m, key))
  <2>1. Handle([magic |-> m, held |-> h], key, state)
          \in {proxy, [proxy EXCEPT !.magic = NoMagic]}
    BY <1>7 DEF Handle, proxy
  <2> QED
    BY <1>1, <1>2, <1>4, <1>5, <2>1
<1>8. CASE key # Alt /\ state /\ IsShortcut(m, key)
  <2> DEFINE n == IF Complete(m, key) THEN NoMagic ELSE [m EXCEPT !.digits = 1]
  <2>1. Handle([magic |-> m, held |-> h], key, state) = [magic |-> n, held |-> h]
    BY <1>8 DEF Handle
  <2>2. n \in Magics
    BY <1>4
  <2> QED
    BY <2>1, <2>2
<1> QED
  BY <1>6, <1>7, <1>8

\* Nor do the events of a client change the types of the input.
LEMMA InputTypesStep ==
  ASSUME InputTypes, [Next]_vars
  PROVE  InputTypes'
<1>1. ASSUME UNCHANGED inputVars PROVE InputTypes'
  BY <1>1 DEF InputTypes, inputVars
<1>2. NoMagic \in Magics
  BY TriggerAssumption DEF NoMagic, Magics
<1>3. ASSUME NEW s \in Now
      PROVE  \E m \in Magics : s = [magic |-> m, held |-> held]
  BY <1>2, <1>3 DEF Now, InputTypes, Magics
<1>4. ASSUME NEW code \in Codes, NEW state \in BOOLEAN, KeyEvent(code, state)
      PROVE  InputTypes'
  <2> DEFINE key == KeyOf(code, mods')
  <2>1. /\ mods' \subseteq Modifiers /\ UNCHANGED <<buttons, units, ws>>
        /\ down' \subseteq Codes \cup Keys \cup Buttons
    BY <1>4 DEF KeyEvent, Switched, Holds, Modifiers, InputTypes
  <2>2. key \in Holdable \cup {NoKey}
    BY <2>1, KeysOfCodes
  <2>3. Shift \in Holdable
    BY NamesAssumption DEF Holdable
  <2>4. PICK s \in Now :
          IF key = NoKey THEN Becomes([s EXCEPT !.magic = magic])
          ELSE IF NeedsShift(code, mods')
            THEN Becomes(Handle(Handle(Handle(s, Shift, TRUE), key, state), Shift, FALSE))
          ELSE Becomes(Handle(s, key, state))
    BY <1>4 DEF KeyEvent
  <2>5. PICK m \in Magics : s = [magic |-> m, held |-> held]
    BY <1>3
  <2>7. held \in SUBSET Holdable
    BY DEF InputTypes
  <2> HIDE DEF key
  <2>6. magic' \in Magics /\ held' \subseteq Holdable
    <3>1. CASE key = NoKey
      BY <2>4, <2>5, <3>1 DEF Becomes, InputTypes, Magics
    <3>2. CASE key # NoKey /\ NeedsShift(code, mods')
      <4>1. PICK n1 \in Magics, g1 \in SUBSET Holdable :
              Handle(s, Shift, TRUE) = [magic |-> n1, held |-> g1]
        <5>1. HandlesTyped(m, held, Shift, TRUE)
          BY <2>3, <2>7, HandleTypes
        <5> QED
          BY <2>5, <5>1 DEF HandlesTyped
      <4>2. PICK n2 \in Magics, g2 \in SUBSET Holdable :
              Handle([magic |-> n1, held |-> g1], key, state) = [magic |-> n2, held |-> g2]
        <5>1. HandlesTyped(n1, g1, key, state)
          BY <2>2, <3>2, HandleTypes
        <5> QED
          BY <5>1 DEF HandlesTyped
      <4>3. PICK n3 \in Magics, g3 \in SUBSET Holdable :
              Handle([magic |-> n2, held |-> g2], Shift, FALSE) = [magic |-> n3, held |-> g3]
        <5>1. HandlesTyped(n2, g2, Shift, FALSE)
          BY <2>3, HandleTypes
        <5> QED
          BY <5>1 DEF HandlesTyped
      <4>4. Becomes([magic |-> n3, held |-> g3])
        BY <2>4, <3>2, <4>1, <4>2, <4>3
      <4> QED
        BY <4>4 DEF Becomes
    <3>3. CASE key # NoKey /\ ~NeedsShift(code, mods')
      <4>1. PICK n \in Magics, g \in SUBSET Holdable :
              Handle(s, key, state) = [magic |-> n, held |-> g]
        <5>1. HandlesTyped(m, held, key, state)
          BY <2>2, <2>7, <3>3, HandleTypes
        <5> QED
          BY <2>5, <5>1 DEF HandlesTyped
      <4>2. Becomes([magic |-> n, held |-> g])
        BY <2>4, <3>3, <4>1
      <4> QED
        BY <4>2 DEF Becomes
    <3> QED
      BY <3>1, <3>2, <3>3
  <2> QED
    BY <2>1, <2>6 DEF InputTypes, Magics
<1>5. ASSUME NEW key \in Keys, NEW state \in BOOLEAN, QemuEvent(key, state)
      PROVE  InputTypes'
  <2>1. /\ mods' \subseteq Modifiers /\ UNCHANGED <<buttons, units, ws>>
        /\ down' \subseteq Codes \cup Keys \cup Buttons
    BY <1>5 DEF QemuEvent, Switched, Holds, Modifiers, InputTypes
  <2>2. key \in Holdable
    BY NamesAssumption DEF Holdable
  <2>3. PICK s \in Now : Becomes(Handle(s, key, state))
    BY <1>5 DEF QemuEvent
  <2>4. PICK m \in Magics : s = [magic |-> m, held |-> held]
    BY <1>3
  <2>7. held \in SUBSET Holdable
    BY DEF InputTypes
  <2>5. PICK n \in Magics, g \in SUBSET Holdable :
          Handle(s, key, state) = [magic |-> n, held |-> g]
    <3>1. HandlesTyped(m, held, key, state)
      BY <2>2, <2>7, HandleTypes
    <3> QED
      BY <2>4, <3>1 DEF HandlesTyped
  <2>6. magic' \in Magics /\ held' \subseteq Holdable
    BY <2>3, <2>5 DEF Becomes
  <2> QED
    BY <2>1, <2>6 DEF InputTypes, Magics
<1>6. ASSUME NEW button \in Buttons, NEW state \in BOOLEAN, PointerEvent(button, state)
      PROVE  InputTypes'
  BY <1>6 DEF PointerEvent, Holds, Tell, Holdable, InputTypes
<1>7. CASE Cleanup
  BY <1>2, <1>7 DEF Cleanup, NextInput, InputTypes, Magics
<1>8. CASE OpenKvmdWs \/ RemoveWs
  BY <1>8 DEF OpenKvmdWs, RemoveWs, InputTypes
<1>9. CASE Event
  BY <1>9 DEF Event, SwitchEvent, InputTypes
<1>10. CASE Input
  BY <1>4, <1>5, <1>6, <1>10 DEF Input
<1>11. CASE \/ Connect \/ TaskFails \/ NoEncodingsInTime \/ Unaccepted \/ Accepted
            \/ (MainTask /\ ~Input) \/ ReadTask \/ SendTask \/ UNCHANGED vars
  <2>1. UNCHANGED inputVars
    BY <1>11 DEF Connect, TaskFails, NoEncodingsInTime, Unaccepted, Fail, Accepted,
       KvmdTask, MainTask, Authorize, AcceptEncodings, ApplyParams, Request, ContUpdates,
       SetEncodings, ReadTask, SendTask, Frames, vars
  <2> QED
    BY <1>1, <2>1
<1> QED
  BY <1>7, <1>8, <1>9, <1>10, <1>11 DEF Next

\* The stages stay in order.
LEMMA StagesStep ==
  ASSUME TaskTypes, FramesType, StagesInOrder, [Next]_vars
  PROVE  StagesInOrder'
<1> USE DEF StagesInOrder
<1>1. CASE Connect \/ TaskFails \/ NoEncodingsInTime \/ Unaccepted
  BY <1>1 DEF Connect, TaskFails, NoEncodingsInTime, Unaccepted, Fail, Running, TaskTypes,
     frameVars, inputVars, reading, client
<1>2. CASE Cleanup
  BY <1>2 DEF Cleanup, NextClient, NextInput
<1>3. CASE Accepted \/ OpenKvmdWs \/ Event \/ RemoveWs
  BY <1>3 DEF Accepted, OpenKvmdWs, Event, SwitchEvent, RemoveWs, KvmdTask, Running,
     frameVars, inputVars, reading, client, tasks
<1>4. CASE Authorize \/ AcceptEncodings \/ ApplyParams
  BY <1>4 DEF Authorize, AcceptEncodings, ApplyParams, Running, frameVars, inputVars,
     reading, client
<1>5. CASE Input
  <2>1. UNCHANGED <<main, kvmd, accepted, life, ws, frameVars>> /\ life = "open"
    <3>1. UNCHANGED ws
      BY <1>5 DEF Input, KeyEvent, QemuEvent, PointerEvent
    <3> QED
      BY <1>5, <3>1 DEF Input, Message, Running
  <2> QED
    BY <2>1 DEF frameVars, reading, client
<1>6. CASE Request \/ ContUpdates
  BY <1>6 DEF Request, ContUpdates, UpdateRequest, EnableContUpdates, Asking, Message,
     Running, inputVars, reading
<1>7. ASSUME NEW e \in Abilities, SetEncodings(e) PROVE StagesInOrder'
  BY <1>7 DEF SetEncodings, Message, Running, inputVars, reading, client
<1>8. CASE ReadTask
  BY <1>8 DEF ReadTask, Frames, Running, Read, StartReading, OpenStreamer, ReadFrame,
     StreamerFails, Source, inputVars, tasks, client
<1>9. CASE SendTask
  <2>1. /\ life = "open" /\ UNCHANGED <<tasks, ws, down, enc, source>>
    BY <1>9 DEF SendTask, Frames, Running, SendFrames, Allowed, TakeFrames, Resize,
       SendMessage, Send, Sender, inputVars, reading
  <2>2. queue' # <<>> => queue # <<>>
    BY <1>9 DEF SendTask, SendFrames, Allowed, TakeFrames, Resize, SendMessage, Send
  <2>3. sender' \in {"resize", "message", "send"} \/ last' # NoFrame => ws
    BY <1>9 DEF SendTask, SendFrames, Allowed, TakeFrames, Resize, SendMessage, Send
  <2> QED
    BY <2>1, <2>2, <2>3 DEF tasks
<1>10. CASE UNCHANGED vars
  BY <1>10 DEF vars, frameVars, inputVars, reading, client, tasks
<1> QED
  BY <1>1, <1>2, <1>3, <1>4, <1>5, <1>6, <1>7, <1>8, <1>9, <1>10 DEF Next, MainTask

-----------------------------------------------------------------------------
(* What follows for a client of kvmd-vnc *)

\* The invariant of the connection: its frames can be shown, and what it holds down
\* is known (server.py).
THEOREM VncInductive == Spec => []VncIInv
  BY VncInitIInv, VncNextIInv, PTL DEF Spec

\* No client is sent H264 that it cannot decode, or a picture of another size than its
\* screen, however the frames merge in the queue (__fb_sender_task_loop()).
THEOREM VncShowable == Spec => []Showable
<1>1. VncIInv => Showable
  BY DEF VncIInv, FramesShow, Showable
<1> QED
  BY <1>1, VncInductive, PTL

\* KVMD holds nothing that the client has let go, but for keys that depend on the
\* modifiers, and nothing when the websocket is gone (__handle_key_event(),
\* __handle_qemu_event(), __handle_pointer_event(), handle_key()).
THEOREM VncNoStuckKeys == Spec => []NoStuckKeys
<1>1. VncIInv => NoStuckKeys
  BY DEF VncIInv
<1> QED
  BY <1>1, VncInductive, PTL

\* The variables keep their types; the queue never has more than one frame too many,
\* and the taps of a shortcut never more than begin one (server.py:275, magic.py).
THEOREM VncTypeCorrect == Spec => []VncTypeOK
<1> DEFINE Types == TaskTypes /\ FrameTypes /\ InputTypes
<1>1. Init => Types
  BY EmptyIsShort, NoMagicType
     DEF Init, FramesInit, InputInit, TaskTypes, FrameTypes, InputTypes
<1>2. VncIInv /\ Types /\ [Next]_vars => Types'
  BY TaskTypesStep, FrameTypesStep, InputTypesStep DEF VncIInv
<1>3. VncIInv /\ Types => VncTypeOK
  BY VncTypeParts DEF VncIInv
<1> QED
  BY <1>1, <1>2, <1>3, VncInductive, PTL DEF Spec

\* No message is handled before the authorization, KVMD's websocket waits for the
\* encodings, the reader for the websocket, and no picture is sent to a client whose
\* encodings are not known (the assertions of server.py and rfb/__init__.py).
THEOREM VncStages == Spec => []StagesInOrder
<1>1. Init => TaskTypes /\ InputTypes /\ StagesInOrder
  BY NoMagicType DEF Init, FramesInit, InputInit, TaskTypes, InputTypes, StagesInOrder
<1>2. /\ TaskTypes /\ InputTypes /\ FramesType /\ StagesInOrder /\ [Next]_vars
      => TaskTypes' /\ InputTypes' /\ StagesInOrder'
  BY TaskTypesStep, InputTypesStep, StagesStep
<1>3. VncIInv => FramesType
  BY DEF VncIInv
<1> QED
  BY <1>1, <1>2, <1>3, VncInductive, PTL DEF Spec

=============================================================================
