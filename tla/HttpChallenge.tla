--------------------------- MODULE HttpChallenge ---------------------------
(***************************************************************************)
(* The HTTP-01 challenge server (acme/httpchallenge.go): the tokens that   *)
(* are being validated and the temporary listener on port 80, shared by    *)
(* the challenge windows that overlap.                                     *)
(*                                                                         *)
(* A window is one use of prepareChallenge: add, validation by the CA,     *)
(* then the deferred remove.  add and remove each take mu for the token    *)
(* and then port80mu for the listener, as two steps.  Port 80 may be held  *)
(* by another process; the operating system is the action OtherProcess.    *)
(* The names of this module start with ch or Ch where Acme, which extends  *)
(* it, has one of its own.                                                 *)
(***************************************************************************)
EXTENDS Integers, FiniteSets

CONSTANTS
  Windows,      \* the challenge windows, each with a path of its own
  ServePort80   \* the servePort80 setting

ASSUME WindowsAssumption == IsFiniteSet(Windows) /\ ServePort80 \in BOOLEAN

VARIABLES
  window,    \* where each window is
  tokens,    \* the windows whose token is registered
  refs,      \* port80refs
  listener,  \* port80ln and port80srv are set
  busy,      \* another process holds port 80
  opened     \* history: the windows that hold a reference of their own; one
             \* that gives back a reference it does not have takes those of all

chVars == <<window, tokens, refs, listener, busy, opened>>

ChTypeOK ==
  /\ window \in [Windows -> {"idle", "open", "active", "close"}]
  /\ tokens \subseteq Windows
  /\ refs \in Nat
  /\ listener \in BOOLEAN /\ busy \in BOOLEAN
  /\ opened \subseteq Windows

ChInit ==
  /\ window = [w \in Windows |-> "idle"]
  /\ tokens = {} /\ refs = 0 /\ listener = FALSE /\ opened = {}
  /\ busy \in BOOLEAN

\* The windows that have called openPort80 and not yet closePort80.
Between == {w \in Windows : window[w] \in {"active", "close"}}

-----------------------------------------------------------------------------

\* add: the token is registered.
Add(w) ==
  /\ window[w] = "idle"
  /\ tokens' = tokens \cup {w}
  /\ window' = [window EXCEPT ![w] = "open"]
  /\ UNCHANGED <<refs, listener, busy, opened>>

\* Seeded fault of OpenPort80: a failed Listen keeps its reference.
OpenPort80KeepsRef(w) ==
  /\ window[w] = "open"
  /\ window' = [window EXCEPT ![w] = "active"]
  /\ refs' = IF ServePort80 THEN refs + 1 ELSE refs
  /\ listener' = (listener \/ (ServePort80 /\ ~busy))
  /\ opened' = IF listener' THEN opened \cup {w} ELSE opened
  /\ UNCHANGED <<tokens, busy>>

\* Seeded fault of OpenPort80: a listener that is shared is not counted.
OpenPort80Shares(w) ==
  /\ window[w] = "open"
  /\ window' = [window EXCEPT ![w] = "active"]
  /\ IF ServePort80 /\ (listener \/ ~busy)
       THEN refs' = 1 /\ listener' = TRUE /\ opened' = opened \cup {w}
       ELSE UNCHANGED <<refs, listener, opened>>
  /\ UNCHANGED <<tokens, busy>>

\* openPort80: a listener that is up is shared; otherwise Listen is tried,
\* and when that fails the reference is given back.
OpenPort80(w) ==
  /\ window[w] = "open"
  /\ window' = [window EXCEPT ![w] = "active"]
  /\ IF ServePort80 /\ (listener \/ ~busy)
       THEN /\ refs' = refs + 1
            /\ listener' = TRUE
            /\ opened' = opened \cup {w}
       ELSE UNCHANGED <<refs, listener, opened>>
  /\ UNCHANGED <<tokens, busy>>

\* remove: the token is cleared, after the CA has answered or given up.
Remove(w) ==
  /\ window[w] = "active"
  /\ tokens' = tokens \ {w}
  /\ window' = [window EXCEPT ![w] = "close"]
  /\ UNCHANGED <<refs, listener, busy, opened>>

\* Seeded fault of ClosePort80: no test of the count before it is decremented.
ClosePort80Unguarded(w) ==
  /\ window[w] = "close"
  /\ window' = [window EXCEPT ![w] = "idle"]
  /\ refs' = refs - 1
  /\ listener' = (listener /\ refs' # 0)
  /\ opened' = IF w \in opened THEN opened \ {w} ELSE {}
  /\ UNCHANGED <<tokens, busy>>

\* closePort80: a reference is given back, whether or not this window has one,
\* and the listener is shut with the last.
ClosePort80(w) ==
  /\ window[w] = "close"
  /\ window' = [window EXCEPT ![w] = "idle"]
  /\ IF ServePort80
       THEN /\ refs' = IF refs > 0 THEN refs - 1 ELSE 0
            /\ listener' = (listener /\ refs' # 0)
       ELSE UNCHANGED <<refs, listener>>
  /\ opened' = IF w \in opened THEN opened \ {w} ELSE {}
  /\ UNCHANGED <<tokens, busy>>

\* Another process binds or frees port 80.
OtherProcess ==
  /\ ~listener
  /\ busy' = ~busy
  /\ UNCHANGED <<window, tokens, refs, listener, opened>>

\* The process ends, at any point, and is started again.
ChRestart ==
  /\ window' = [w \in Windows |-> "idle"]
  /\ tokens' = {} /\ refs' = 0 /\ listener' = FALSE /\ opened' = {}
  /\ UNCHANGED busy

ChNext ==
  \/ \E w \in Windows : Add(w) \/ OpenPort80(w) \/ Remove(w) \/ ClosePort80(w)
  \/ OtherProcess \/ ChRestart

ChSpec == ChInit /\ [][ChNext]_chVars

-----------------------------------------------------------------------------
(* Properties. *)

\* The temporary listener is up only while the count is positive, the count
\* never exceeds the windows that are open, and so the listener is gone once
\* the last window has closed, in whatever order windows overlapped and
\* whichever of them failed to bind the port.
ListenerBounded ==
  /\ listener <=> refs > 0
  /\ refs <= Cardinality(Between)

\* "Reference counted so concurrent challenge windows share one listener": a
\* window that has opened the listener, or found it open, is served from then on
\* until its own close, whichever windows it shares the listener with come and
\* go; unless one that failed to open it gives back a reference (closePort80
\* does not know who has one), which may be that of another.  So the listener is
\* not always shut "when the last challenge window completes".
OpenWindowsServed ==
  \A w \in opened : listener /\ (window[w] = "active" => w \in tokens)

\* RouteMUX never holds port 80 when it is told not to, and never together
\* with another process.
PortExclusive == listener => ServePort80 /\ ~busy
=============================================================================
