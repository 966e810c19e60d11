-------------------------------- MODULE MCNbd --------------------------------
(* Instance of Nbd for TLC. *)
EXTENDS Nbd

=============================================================================
