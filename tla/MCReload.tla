------------------------------ MODULE MCReload ------------------------------
(* Instances of Reload for TLC. *)
EXTENDS Reload, TLC

CONSTANTS g1, g2, x1, x2, a1, a2, k1, k2, b1, b2, v1, v2, t1, t2, ipf, tp

Content(verdict, a, k, b, tls1, tls2, lists) ==
  [verdict |-> verdict, addr |-> a, cert |-> k, acme |-> b,
   tls |-> v1 :> tls1 @@ v2 :> tls2, lists |-> lists]

\* The first content, one that changes everything, two that do not
\* load and one that registers a path twice.
MCFull    == Content("ok", a1, k1, b1, t1, Absent, {ipf})
MCChanged == Content("ok", a2, k2, b2, t2, NoTLS, {ipf, tp})
MCInvalid == Content("invalid", a2, k1, b1, t1, Absent, {})
MCMissing == Content("missing", a1, NoCert, b1, Absent, Absent, {})
MCPanics  == Content("panic", a1, k1, b1, t1, Absent, {ipf})

MCContents == {MCFull, MCChanged, MCInvalid, MCMissing, MCPanics}

MCPlainContents == {MCFull, MCInvalid}
MCTwicePath == {MCFull, MCInvalid, MCPanics}
=============================================================================
