--------------------------- MODULE MCRequestPath ---------------------------
(* The scenarios RequestPath is checked on: each varies one part of it. *)
EXTENDS RequestPath, TLC

Jwt(on, claim, all) ==
  [on |-> on, header |-> TRUE, cookie |-> TRUE, claim |-> claim, allowAll |-> all]

Config(vhosts) ==
  [filter |-> FALSE, lists |-> {}, proxies |-> FALSE, trustAll |-> FALSE,
   globalAuth |-> "", jwt |-> Jwt(FALSE, FALSE, FALSE), vhosts |-> vhosts]

StatusRoute ==
  [kind |-> "status", dests |-> {}, auth |-> "inherit", users |-> {},
   skipJwt |-> FALSE, del |-> {}, add |-> {}, destVar |-> FALSE,
   clientVar |-> FALSE, cli |-> FALSE, timeout |-> FALSE, listing |-> FALSE]

Proxy(dest) ==
  [StatusRoute EXCEPT !.kind = "proxy", !.dests = {[path |-> dest, unix |-> FALSE]}]

Everything == <<"">>
VHosts(domains, routes) == [domains |-> domains, routes |-> routes]
Single(route) == Config(<<VHosts({"*"}, (Everything :> route))>>)

Plain == [n \in HeaderNames |-> <<>>]
Sent == [n \in HeaderNames |-> IF n = "X-Forwarded-For" THEN <<>> ELSE <<"client">>]

Get(host, path) ==
  [addr |-> "a", host |-> host, path |-> path, http2 |-> FALSE, challenge |-> FALSE,
   upgrade |-> FALSE, headerToken |-> "none", cookieToken |-> "none",
   basic |-> "none", headers |-> Plain, connection |-> {}]

\* The address filter, with a reload to a configuration without one.
Filter ==
  [configs |-> {[Single(StatusRoute) EXCEPT !.filter = TRUE, !.lists = {"allowed", "blocked"}],
                Single([StatusRoute EXCEPT !.auth = "x"])},
   inputs  |-> {[Get("h", Everything) EXCEPT !.addr = a, !.http2 = b, !.challenge = ~b] :
                  a \in {"a", NoAddr}, b \in BOOLEAN}]

\* Virtual hosts, routes with and without slash, dests with and without.
ApiRoutes(dest) ==
  <<"api">> :> Proxy(dest) @@ <<"web", "">> :> Proxy(dest)
    @@ <<"web", "in">> :> [StatusRoute EXCEPT !.clientVar = TRUE]

Hosts ==
  [configs |-> {Config(<<VHosts({"*"}, (Everything :> Proxy(<<"all">>))),
                         VHosts({"h", "k"}, ApiRoutes(dest))>>) : dest \in {<<"v">>, <<"v", "">>}}
               \cup {Config(<<VHosts({"h"}, (Everything :> Proxy(<<>>)))>>)},
   inputs  |-> {Get(h, p) : h \in {"h", "x"},
                p \in {<<"api">>, <<"api", "">>, <<"api", "u", "4">>, <<"web">>,
                       <<"web", "">>, <<"web", "u">>, <<"web", "in">>, <<"">>, <<"no">>}}]

\* JWT and basic authentication.
AuthRoutes ==
  {[Proxy(<<>>) EXCEPT !.users = u, !.skipJwt = s, !.auth = b] :
     u \in {{}, {"alice"}}, s \in BOOLEAN, b \in {"inherit", "", "x"}}

Logins ==
  [configs |-> {[Single(r) EXCEPT !.jwt = Jwt(on, claim, all), !.globalAuth = "g"] :
                  r \in AuthRoutes, on \in BOOLEAN, claim \in BOOLEAN, all \in BOOLEAN},
   inputs  |-> {[Get("h", Everything) EXCEPT !.headerToken = t, !.cookieToken = "alice", !.basic = b] :
                  t \in {"none", "bad", "nobody", "alice", "bob"}, b \in {"none", "g", "x"}}]

\* The X-Forwarded headers, behind trusted proxies that change.
VarRoute(cli) ==
  [Proxy(<<>>) EXCEPT !.destVar = TRUE, !.clientVar = TRUE, !.cli = cli]

Proxies ==
  [configs |-> {[Single(VarRoute(FALSE)) EXCEPT !.proxies = TRUE, !.lists = {"proxies"}],
                [Single(VarRoute(TRUE)) EXCEPT !.trustAll = TRUE]},
   inputs  |-> {[Get("h", Everything) EXCEPT !.headers = [Sent EXCEPT !["X-Forwarded-For"] = x]] :
                  x \in {<<>>, <<"b">>, <<"c", "b">>, <<Junk, "b">>, <<"c", Junk, "b">>}}]

\* Deleted and added headers, and headers that Connection names.
UserHeaderRoutes ==
  {[Proxy(<<>>) EXCEPT !.del = d, !.add = a, !.auth = b, !.clientVar = TRUE,
                       !.dests = {[path |-> <<>>, unix |-> u]}] :
     d \in {{}, {{"Host"}, {"X-Forwarded-For"}}, {{"X-Forwarded-For", "X-Forwarded-Host"}},
           {{"Connection"}}},
     a \in {{}, {"Host", "Authorization"}, {"X-Forwarded-For"}, {"Connection", "Extra"}},
     b \in {"", "x"}, u \in BOOLEAN}

UserHeaderScenario ==
  [configs |-> {Single(r) : r \in UserHeaderRoutes},
   inputs  |-> {[Get("h", Everything) EXCEPT !.basic = "x", !.addr = a, !.connection = n,
                   !.headers = [Sent EXCEPT !["X-Forwarded-For"] = <<"b">>]] :
                  a \in {"a", NoAddr},
                  n \in {{}, {"X-Forwarded-For", "Authorization"}, {"X-Forwarded-Host", "Extra"}}}]

\* Timeouts and upgrades; files and directories.
Slow ==
  [configs |-> {Single([Proxy(<<>>) EXCEPT !.timeout = t, !.clientVar = TRUE]) : t \in BOOLEAN}
               \cup {Single([StatusRoute EXCEPT !.kind = k, !.listing = l, !.clientVar = l]) :
                       k \in {"file", "dir"}, l \in BOOLEAN}
               \cup {Single([StatusRoute EXCEPT !.kind = "dir", !.auth = "x"])},
   inputs  |-> {[Get("h", Everything) EXCEPT !.upgrade = b, !.basic = w] :
                  b \in BOOLEAN, w \in {"none", "x"}}]

MCScenario ==
  [filter |-> Filter, hosts |-> Hosts, logins |-> Logins, proxies |-> Proxies,
   headers |-> UserHeaderScenario, slow |-> Slow]

MCScenarios == DOMAIN MCScenario
MCConfigs == [s \in MCScenarios |-> MCScenario[s].configs]
MCReloads == [s \in MCScenarios |->
                IF Cardinality(MCConfigs[s]) < 4 THEN MCConfigs[s]
                ELSE {CHOOSE c \in MCConfigs[s] : TRUE}]
MCInputs == [s \in MCScenarios |-> MCScenario[s].inputs]
============================================================================
