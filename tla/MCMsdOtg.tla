------------------------------ MODULE MCMsdOtg ------------------------------
(* Instance of MsdOtg for TLC. *)
EXTENDS MsdOtg

=============================================================================
