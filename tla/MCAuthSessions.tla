--------------------------- MODULE MCAuthSessions ---------------------------
(* Instance of AuthSessions for TLC. *)
EXTENDS AuthSessions, TLC

Symmetry == Permutations(Tokens) \cup Permutations(WS)

=============================================================================
