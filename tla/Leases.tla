------------------------------- MODULE Leases -------------------------------
(***************************************************************************)
(* What the session store promises its users, without counters, handshakes *)
(* and handlers: a lease for each token, which is granted once.  A lease   *)
(* that somebody holds does not end by time; one that nobody holds has     *)
(* its limit left at most; all leases of a user end together.              *)
(* AuthSessions implements this.                                           *)
(***************************************************************************)
EXTENDS Naturals

CONSTANTS
  Tokens,
  Users,
  Limits,   \* for how long a lease may be granted, 0 for ever
  Holders   \* who may hold a lease

VARIABLES
  clock,
  granted,  \* tokens ever granted
  leases    \* the leases that run, a function from their tokens

vars == <<clock, granted, leases>>

Running == DOMAIN leases

\* The end of a lease of n seconds that begins now; 0 is "never".
Deadline(n) == IF n > 0 THEN clock + n ELSE 0

\* The lease l when it has the holders H: its time begins when the last one leaves.
HeldBy(l, H) ==
  [user |-> l.user, limit |-> l.limit, until |-> IF H = {} THEN Deadline(l.limit) ELSE 0,
   holders |-> H]

Grant(t, u, n) ==
  /\ t \notin granted
  /\ granted' = granted \cup {t}
  /\ leases' = [o \in Running \cup {t} |->
       IF o = t THEN HeldBy([user |-> u, limit |-> n], {}) ELSE leases[o]]
  /\ UNCHANGED clock

\* All the leases of a user end, held or not.
Revoke(u) ==
  /\ leases' = [o \in {o \in Running : leases[o].user # u} |-> leases[o]]
  /\ UNCHANGED <<clock, granted>>

\* A lease is found to be over.
Lapse(t) ==
  /\ t \in Running /\ leases[t].holders = {}
  /\ leases[t].until > 0 /\ clock >= leases[t].until
  /\ leases' = [o \in Running \ {t} |-> leases[o]]
  /\ UNCHANGED <<clock, granted>>

\* The leases in the domain of H get new holders.
Change(H) ==
  /\ leases' = [o \in Running |->
       IF o \in DOMAIN H THEN HeldBy(leases[o], H[o]) ELSE leases[o]]
  /\ UNCHANGED <<clock, granted>>

\* Also of a lease that would be over but was not yet found to be.
Join(t, h) ==
  /\ t \in Running /\ h \notin leases[t].holders
  /\ Change([o \in {t} |-> leases[o].holders \cup {h}])

Leave(t, h) ==
  /\ t \in Running /\ h \in leases[t].holders
  /\ Change([o \in {t} |-> leases[o].holders \ {h}])

LeaveAll == Change([o \in {o \in Running : leases[o].holders # {}} |-> {}])

Pass == clock' = clock + 1 /\ UNCHANGED <<granted, leases>>

Init == clock = 0 /\ granted = {} /\ leases = [t \in {} |-> {}]

Next ==
  \/ \E t \in Tokens, u \in Users, n \in Limits : Grant(t, u, n)
  \/ \E u \in Users : Revoke(u)
  \/ \E t \in Tokens : Lapse(t)
  \/ \E t \in Tokens, h \in Holders : Join(t, h) \/ Leave(t, h)
  \/ LeaveAll
  \/ Pass

Spec == Init /\ [][Next]_vars

=============================================================================
