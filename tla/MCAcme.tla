------------------------------- MODULE MCAcme -------------------------------
(* Instances of Acme for TLC. *)
EXTENDS Acme
=============================================================================
