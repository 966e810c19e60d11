----------------------------- MODULE MCStreamer -----------------------------
(* Instance of Streamer for TLC. *)
EXTENDS Streamer

=============================================================================
