-------------------------- MODULE MCUpstreamPicker --------------------------
(* Instances of UpstreamPicker for TLC. *)
EXTENDS UpstreamPicker
=============================================================================
