---------------------------- MODULE MCMsdPoller -----------------------------
(* Instance of MsdPoller for TLC. *)
EXTENDS MsdPoller

=============================================================================
