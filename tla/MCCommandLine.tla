--------------------------- MODULE MCCommandLine ---------------------------
(* Files and vocabularies for CommandLine. *)
EXTENDS CommandLine

Arg(flag, vals) == {[flag |-> flag, val |-> v] : v \in vals}
Header(name, kind) == [name |-> name, kind |-> kind]

NoGlobals == [g \in GlobalFlags \cup ListFlags |-> IF g \in ListFlags THEN <<>> ELSE Unset]
FileRoute(dest) == [EmptyRoute EXCEPT !.entries = dest]
VarRoute == [FileRoute(<<"url">>) EXCEPT !.add["--client-add-header"]["X"] = "xff",
                                         !.many["--dest-del-header"] = <<"*">>]

File(routes, vhs) == [routes |-> routes, vhosts |-> vhs, globals |-> NoGlobals]
FileVHost(domains, routes) == [domains |-> domains, routes |-> routes, tls |-> NoTLS]

TopLevel == File(("/a" :> VarRoute), <<>>)
TwoVHosts ==
  File(NoRoutes, <<FileVHost({"h"}, ("/a" :> FileRoute(<<"url", "url">>))),
                   FileVHost({"*"}, ("/a" :> FileRoute(<<"status">>) @@ "/b" :> VarRoute))>>)

MCFiles ==
  {File(NoRoutes, <<>>), TopLevel, TwoVHosts,
   File(TopLevel.routes, TwoVHosts.vhosts),
   File(NoRoutes, <<FileVHost({}, TopLevel.routes)>>),
   File(("/a" :> FileRoute(<<"url", "status">>)), <<>>),
   File(("/a" :> [VarRoute EXCEPT !.opt["--auth"] = "bad"]), <<>>),
   [TopLevel EXCEPT !.globals["--port"] = "2", !.globals["--trusted-proxy"] = <<"q">>],
   [TopLevel EXCEPT !.globals["--global-auth"] = "bad"],
   [TopLevel EXCEPT !.globals["--ip-filter-allow"] = <<"p", "bad">>]}

\* Virtual hosts and the routes in them; the settings of a route; the rest.
Structure ==
  Arg("--vhost", {{"h"}, {"k"}}) \cup Arg("--route", {"/a", "/b"}) \cup Arg("--dest", {"url"})
    \cup Arg("--tls-cert", {"c"})

Settings ==
  Arg("--route", {"/a"}) \cup Arg("--dest", {"unix", "status", "bad"})
    \cup Arg("--dest-add-header", {Header("X", "header"), Header("X", "const"), Header("Y", "xff")})
    \cup Arg("--client-add-header", {Header("X", "var"), Header("X", "bad")})
    \cup Arg("--dest-del-header", {"*"}) \cup Arg("--client-del-header", {"Z"})
    \cup Arg("--load-balancer-mode", {"round-robin", "other"}) \cup Arg("--auth", {"x", "bad"})

Globals ==
  Arg("--route", {"/a"}) \cup Arg("--dest", {"file"}) \cup Arg("--port", {"1", "bad"})
    \cup Arg("--global-tls-cert", {"c"}) \cup Arg("--global-tls-key", {"k"})
    \cup Arg("--jwt-header", {"h"}) \cup Arg("--jwt-secret", {"s"})
    \cup Arg("--trusted-proxy", {"p", "bad"}) \cup Arg("bad", {Unset})

MCVocabularies ==
  {[args |-> Structure, max |-> 6], [args |-> Settings, max |-> 5], [args |-> Globals, max |-> 4]}
============================================================================
