---------------------------- MODULE AuthSessions ----------------------------
(***************************************************************************)
(* Token sessions of the kvmd daemon and the websockets that extend them:  *)
(* AuthManager (kvmd/apps/kvmd/auth.py), the token check of the HTTP       *)
(* layer (kvmd/apps/kvmd/api/auth.py) and the websocket registry of        *)
(* HttpServer (kvmd/htserver.py) with the two callbacks of KvmdServer.     *)
(*                                                                         *)
(* Every operation is a handler of one asyncio loop, so it is atomic up to *)
(* its awaits; the two awaits that matter are the websocket handshake      *)
(* between the token check and the registration, and the closing of the    *)
(* sockets at shutdown, during which the handlers of the same sockets run  *)
(* their own `finally`.  Authorisation is enabled.  Passwords, TOTP and    *)
(* the auth services are abstracted to "the login succeeds".               *)
(***************************************************************************)
EXTENDS Integers, FiniteSets

CONSTANTS
  Tokens,    \* values secrets.token_hex(32) may return; never the same twice
  NoToken,   \* the request was authorised by a header or by Unix credentials
  Users,     \* user names
  WS,        \* websocket handlers that may run at the same time
  Expire,    \* kvmd.auth.expire: global session limit, 0 for none
  Extend,    \* kvmd.auth.extend: an open websocket extends its session
  Requests,  \* values of the `expire` argument of a login, 0 for "infinite"
  MaxTime    \* bound of the clock, for model checking

ASSUME AuthAssumption ==
  /\ NoToken \notin Tokens
  /\ IsFiniteSet(WS)
  /\ Expire \in Nat
  /\ Extend \in BOOLEAN
  /\ Requests \subseteq Nat
  /\ MaxTime \in Nat

VARIABLES
  now,       \* int(time.monotonic())
  used,      \* tokens ever handed out
  sessions,  \* AuthManager.__sessions, a function from the stored tokens
  phase,     \* progress of each websocket handler
  wsToken,   \* WsSession.token of each handler
  wss,       \* HttpServer.__ws_sessions
  stopped    \* _on_shutdown() has closed the websockets; the connections that
             \* were open then are still served

authVars == <<now, used, sessions, phase, wsToken, wss, stopped>>

live == DOMAIN sessions

Session == [user: Users, expire_req: Nat, expire_ts: Nat, ws_started: Int]

\* The registered websockets that were opened with the token.
OpenWith(t) == {w \in wss : wsToken[w] = t}

-----------------------------------------------------------------------------
(* Deadlines *)

Limit_UserOnly(expire) == expire

\* The limit a session gets, in seconds: the shorter of the requested and the
\* global one, where 0 stands for "no limit".
Limit(expire) ==
  IF expire = 0 \/ (Expire > 0 /\ Expire < expire) THEN Expire ELSE expire

MakeExpireTs(expire) == IF Limit(expire) > 0 THEN now + Limit(expire) ELSE 0

Expired_Always(t) == now >= sessions[t].expire_ts

Expired(t) == sessions[t].expire_ts > 0 /\ now >= sessions[t].expire_ts

-----------------------------------------------------------------------------
(* Sessions *)

\* self.__sessions[t] = s, and the deletion of every token outside S.
Store(t, s) == sessions' = [o \in live \cup {t} |-> IF o = t THEN s ELSE sessions[o]]
Retain(S) == sessions' = [o \in S |-> sessions[o]]

AuthInit ==
  /\ now = 0
  /\ used = {}
  /\ sessions = [t \in {} |-> NoToken]
  /\ phase = [w \in WS |-> "idle"]
  /\ wsToken = [w \in WS |-> NoToken]
  /\ wss = {}
  /\ stopped = FALSE

\* A successful AuthManager.login().
Login(t, u, req) ==
  /\ t \notin used
  /\ used' = used \cup {t}
  /\ Store(t, [user |-> u, expire_req |-> req, expire_ts |-> MakeExpireTs(req),
               ws_started |-> 0])
  /\ UNCHANGED <<now, phase, wsToken, wss, stopped>>

\* AuthManager.logout(): closes every session of the token's owner.  The
\* websockets stay connected.  The request may be authorised by a header, so
\* the token of its cookie may be past its deadline.
Logout(t) ==
  /\ t \in live
  /\ Retain({o \in live : sessions[o].user # sessions[t].user})
  /\ UNCHANGED <<now, used, phase, wsToken, wss, stopped>>

\* AuthManager.check() of any request that carries an expired token.
CheckExpired(t) ==
  /\ t \in live /\ Expired(t)
  /\ Retain(live \ {t})
  /\ UNCHANGED <<now, used, phase, wsToken, wss, stopped>>

-----------------------------------------------------------------------------
(* Websockets *)

\* GET /ws is authorised by a valid token; the handshake begins.
RequestByToken(w, t) ==
  /\ phase[w] = "idle"
  /\ t \in live /\ ~Expired(t)
  /\ phase' = [phase EXCEPT ![w] = "preparing"]
  /\ wsToken' = [wsToken EXCEPT ![w] = t]
  /\ UNCHANGED <<now, used, sessions, wss, stopped>>

\* GET /ws is authorised without a token.
RequestByHeader(w) ==
  /\ phase[w] = "idle"
  /\ phase' = [phase EXCEPT ![w] = "preparing"]
  /\ wsToken' = [wsToken EXCEPT ![w] = NoToken]
  /\ UNCHANGED <<now, used, sessions, wss, stopped>>

\* The handler is over, and the WsSession object with it.
Forget(w) ==
  /\ phase' = [phase EXCEPT ![w] = "idle"]
  /\ wsToken' = [wsToken EXCEPT ![w] = NoToken]

\* `await wsr.prepare(req)` raises: the client is gone.
PrepareFails(w) ==
  /\ phase[w] = "preparing"
  /\ Forget(w)
  /\ UNCHANGED <<now, used, sessions, wss, stopped>>

\* The session after its websocket count becomes n: infinite while a websocket
\* is open, limited from now on otherwise.
Renewed_OnClose(s, n) ==
  [user |-> s.user, expire_req |-> s.expire_req,
   expire_ts |-> IF n < s.ws_started THEN MakeExpireTs(s.expire_req) ELSE 0, ws_started |-> n]

Renewed(s, n) ==
  [user |-> s.user, expire_req |-> s.expire_req,
   expire_ts |-> IF n <= 0 THEN MakeExpireTs(s.expire_req) ELSE 0, ws_started |-> n]

\* __renew_ws_session() by the websocket w, which adds d to the count of its
\* session if the session is still there.
RenewWs_Resurrecting(w, d) ==
  IF Extend /\ wsToken[w] # NoToken
  THEN Store(wsToken[w],
         IF wsToken[w] \in live
         THEN Renewed(sessions[wsToken[w]], sessions[wsToken[w]].ws_started + d)
         ELSE [user |-> CHOOSE u \in Users : TRUE, expire_req |-> 0, expire_ts |-> 0,
               ws_started |-> d])
  ELSE UNCHANGED sessions

RenewWs(w, d) ==
  IF Extend /\ wsToken[w] \in live
  THEN Store(wsToken[w],
             Renewed(sessions[wsToken[w]], sessions[wsToken[w]].ws_started + d))
  ELSE UNCHANGED sessions

\* __add_ws(): the handshake is over, the socket is registered.
OpenWs(w) ==
  /\ phase[w] = "preparing"
  /\ phase' = [phase EXCEPT ![w] = "open"]
  /\ wss' = wss \cup {w}
  /\ RenewWs(w, 1)
  /\ UNCHANGED <<now, used, wsToken, stopped>>

CloseWs_Unguarded(w) ==
  /\ phase[w] = "open"
  /\ Forget(w)
  /\ wss' = wss \ {w}
  /\ RenewWs(w, -1)
  /\ UNCHANGED <<now, used, stopped>>

\* The handler leaves _ws_session(): __remove_ws() does something only if the
\* socket is still registered.
CloseWs(w) ==
  /\ phase[w] = "open"
  /\ Forget(w)
  /\ wss' = wss \ {w}
  /\ IF w \in wss THEN RenewWs(w, -1) ELSE UNCHANGED sessions
  /\ UNCHANGED <<now, used, stopped>>

\* _close_all_wss() at shutdown: __remove_ws() of every registered socket.  The
\* handlers of these sockets are still running.
CloseAllWs ==
  /\ ~stopped
  /\ stopped' = TRUE
  /\ wss' = {}
  /\ sessions' = [t \in live |->
       IF Extend /\ OpenWith(t) # {}
       THEN Renewed(sessions[t], sessions[t].ws_started - Cardinality(OpenWith(t)))
       ELSE sessions[t]]
  /\ UNCHANGED <<now, used, phase, wsToken>>

Tick ==
  /\ now < MaxTime
  /\ now' = now + 1
  /\ UNCHANGED <<used, sessions, phase, wsToken, wss, stopped>>

-----------------------------------------------------------------------------

AuthNext ==
  \/ \E t \in Tokens, u \in Users, req \in Requests : Login(t, u, req)
  \/ \E t \in Tokens : Logout(t)
  \/ \E t \in Tokens : CheckExpired(t)
  \/ \E w \in WS, t \in Tokens : RequestByToken(w, t)
  \/ \E w \in WS : RequestByHeader(w)
  \/ \E w \in WS : PrepareFails(w)
  \/ \E w \in WS : OpenWs(w)
  \/ \E w \in WS : CloseWs(w)
  \/ CloseAllWs
  \/ Tick

AuthSpec == AuthInit /\ [][AuthNext]_authVars

-----------------------------------------------------------------------------
(* Properties *)

\* The variables have their types.
TypeOK ==
  /\ now \in Nat
  /\ used \subseteq Tokens
  /\ live \subseteq used
  /\ sessions \in [live -> Session]
  /\ phase \in [WS -> {"idle", "preparing", "open"}]
  /\ wsToken \in [WS -> used \cup {NoToken}]
  /\ wss \subseteq WS
  /\ stopped \in BOOLEAN

\* The ws_started counter of a stored session is exactly the number of its
\* registered websockets, however logins, logouts, expiry, handshakes, closing
\* handlers and the shutdown interleave: no stop is lost and none is counted
\* twice (_close_all_wss() and the `finally` of _ws_session() both remove).
WsAccounting ==
  \A t \in live : sessions[t].ws_started = IF Extend THEN Cardinality(OpenWith(t)) ELSE 0

\* "Infinite until stop_ws_session()": with extending enabled a session has no
\* deadline as long as one of its websockets is registered.
OpenSessionIsInfinite ==
  \A t \in live : Extend /\ OpenWith(t) # {} => sessions[t].expire_ts = 0

\* "Invalidate if needed": a session without a registered websocket never has
\* more time left than its own limit and the global one allow.
ClosedSessionIsLimited ==
  \A t \in live : \A n \in {sessions[t].expire_req, Expire} :
    (~Extend \/ OpenWith(t) = {}) /\ n > 0 =>
      sessions[t].expire_ts > 0 /\ sessions[t].expire_ts <= now + n

\* A closed session never comes back: not when a websocket that was authorised
\* by its token finishes the handshake after a logout, nor when one closes.
NoResurrection == [][(used \ live) \cap live' = {}]_authVars

\* A session is removed only by the logout of its user, who then has none left,
\* or because it is past its deadline; in the second case no websocket was
\* extending it.
RemovedForAReason ==
  [][\A t \in live \ live' :
       \/ \A o \in live : sessions[o].user = sessions[t].user => o \notin live'
       \/ Expired(t) /\ (Extend => OpenWith(t) = {})]_authVars

-----------------------------------------------------------------------------
(* What the sessions implement *)

\* A session as a lease: its holders are the websockets that extend it, its limit
\* is the one that applies to it.
LeaseOf(t) ==
  [user |-> sessions[t].user, limit |-> Limit(sessions[t].expire_req),
   until |-> sessions[t].expire_ts, holders |-> IF Extend THEN OpenWith(t) ELSE {}]

Lease == INSTANCE Leases WITH
  Limits <- {Limit(req) : req \in Requests}, Holders <- WS,
  clock <- now, granted <- used, leases <- [t \in live |-> LeaseOf(t)]

\* Whatever the handlers of logins, requests and websockets do in between, what is
\* stored changes only as a set of leases does: no closed session comes back, each
\* websocket extends its session once and only as long as it is registered, and a
\* deadline begins anew when the last one is gone and at no other time.
ImplementsLeases == Lease!Spec

=============================================================================
