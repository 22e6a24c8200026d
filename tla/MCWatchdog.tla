------------------------------ MODULE MCWatchdog ------------------------------
(* An instance of Watchdog for TLC. *)
EXTENDS Watchdog

CONSTANTS w1, w2
===============================================================================
