---------------------------- MODULE ConfigService ----------------------------
(***************************************************************************)
(* What hot reload promises, without timers, signals, goroutines or locks: *)
(* the configuration in force always stems from a loadable version of the  *)
(* file, versions are installed in the order they were written, and what   *)
(* is fixed at server start is carried over from one to the next.          *)
(***************************************************************************)
EXTENDS ConfigData, Integers, Sequences

VARIABLES
  disk,     \* every version the file has had, in order
  current   \* [mtime, cfg]: the installed version and its configuration

csVars == <<disk, current>>

CSInit ==
  \E c \in Contents :
    /\ Loadable(c)
    /\ disk = <<c>>
    /\ current = [mtime |-> 1, cfg |-> c]

\* The administrator writes a new version of the file.
Write ==
  \E c \in Contents : disk' = Append(disk, c) /\ UNCHANGED current

\* A version at least as new as the one in force is installed.
Install ==
  \E v \in current.mtime .. Len(disk) :
    /\ Loadable(disk[v])
    /\ current' = [mtime |-> v, cfg |-> Revert(current.cfg, disk[v])]
    /\ UNCHANGED disk

CSNext == Write \/ Install

CSSpec == CSInit /\ [][CSNext]_csVars
=============================================================================
