----------------------------- MODULE ConfigData -----------------------------
(***************************************************************************)
(* A RouteMUX configuration, reduced to what a hot reload tells apart.     *)
(*                                                                         *)
(* A content is one version of the configuration file.  Its verdict says   *)
(* where loading it ends: parseAll cannot open it ("missing"), parseAll    *)
(* rejects it ("parse"), Config.validate rejects it ("invalid"),           *)
(* compileVHosts rejects it ("compile") or panics on it ("panic", a path   *)
(* that is registered twice), or it loads ("ok").  The other fields are    *)
(* the settings of config.go that Reload treats differently:               *)
(*   addr   Port and Listen                 fixed at server start          *)
(*   cert   GlobalTLSCert and GlobalTLSKey  fixed at server start          *)
(*   acme   the global acme block           fixed at server start          *)
(*   tls    the tls block of every vhost    fixed at server start          *)
(*   lists  the lists the file configures (ip-filter, trusted-proxies)     *)
(* A vhost is named by its joined domain list; Absent marks one the        *)
(* content does not have, NoTLS one without a tls block.                   *)
(***************************************************************************)
CONSTANTS Contents, Addrs, CertPaths, NoCert, AcmeBlocks, VHosts, TLSBlocks,
          NoTLS, Absent, Lists

Verdicts == {"missing", "parse", "invalid", "compile", "panic", "ok"}

Config ==
  [verdict: Verdicts, addr: Addrs, cert: CertPaths \cup {NoCert},
   acme: AcmeBlocks, tls: [VHosts -> TLSBlocks \cup {NoTLS, Absent}],
   lists: SUBSET Lists]

ASSUME ContentsAssumption == Contents \subseteq Config

\* A version of the file that a reload installs.
Loadable(c) == c.verdict = "ok"

\* A version that a reload reports as faulty.
Faulty(c) == c.verdict \in {"missing", "parse", "invalid", "compile"}

\* acmeConfigChanged: the acme block or the map from vhost to tls block
\* differs; a vhost that only one side has is a difference too.
AcmeConfigChanged(old, new) == old.acme # new.acme \/ old.tls # new.tls

\* revertVHostTLS: a vhost of both configurations gets the old tls block; a
\* vhost the old configuration does not have keeps its own.
RevertVHostTLS(old, new) ==
  [v \in VHosts |-> IF old[v] # Absent /\ new[v] # Absent
                      THEN old[v] ELSE new[v]]

\* Seeded fault of Revert: the certificate paths follow the file.
RevertAllButCert(old, new) ==
  [new EXCEPT !.addr = old.addr, !.acme = old.acme,
              !.tls = RevertVHostTLS(old.tls, new.tls)]

\* Reload, step 2: what is fixed at server start is taken from the running
\* configuration.  The first two IFs of the code assign equal values when
\* their conditions fail.
Revert(old, new) ==
  LET kept == [new EXCEPT !.addr = old.addr, !.cert = old.cert]
  IN  IF AcmeConfigChanged(old, new)
        THEN [kept EXCEPT !.acme = old.acme,
                          !.tls  = RevertVHostTLS(old.tls, new.tls)]
        ELSE kept
=============================================================================
