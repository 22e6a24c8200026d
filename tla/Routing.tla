------------------------------ MODULE Routing ------------------------------
(***************************************************************************)
(* How a configuration maps a request to a route and a route to an answer  *)
(* (server.go), as operators without state.                                *)
(*                                                                         *)
(* A host is a name without regard to letter case and port: compileVHosts  *)
(* and the handler reduce both sides to that.  A path is the sequence of   *)
(* its segments, with "" last when it ends in a slash:                     *)
(*   "/" = <<"">>    "/api" = <<"api">>    "/api/" = <<"api", "">>         *)
(* and the empty path of a dest without one is <<>>.                       *)
(***************************************************************************)
EXTENDS Naturals, Sequences

-----------------------------------------------------------------------------
(* Virtual hosts. *)

IsCatchAll(domains) == domains \cap {"*", ""} # {}

\* Seeded fault of Before: catch-alls stay where the file has them.
BeforeUnsorted(vhosts, i, j) == i < j

\* compileVHosts: a stable sort puts the catch-alls last.  The vhost at place i
\* of the file comes before the one at place j.
Before(vhosts, i, j) ==
  IF IsCatchAll(vhosts[i].domains) <=> IsCatchAll(vhosts[j].domains)
    THEN i < j ELSE IsCatchAll(vhosts[j].domains)

SingleMux(vhosts) == Len(vhosts) = 1 /\ IsCatchAll(vhosts[1].domains)

MatchHost(v, host) == "*" \in v.domains \/ host \in v.domains

\* The place in the file of the vhost that serves a host, the first in the order
\* of compileVHosts that matches; 0: none does.
VHostFor(vhosts, host) ==
  LET matches == {i \in DOMAIN vhosts : MatchHost(vhosts[i], host)}
  IN  IF SingleMux(vhosts) THEN 1
      ELSE IF matches = {} THEN 0
      ELSE CHOOSE i \in matches : \A j \in matches \ {i} : Before(vhosts, i, j)

-----------------------------------------------------------------------------
(* The mux of a virtual host. *)

\* The last segment of a path that ends in a slash.
Slash == ""

EndsInSlash(path) == path # <<>> /\ path[Len(path)] = Slash

Slashed(path) == IF EndsInSlash(path) THEN path ELSE Append(path, Slash)

\* buildMux: a route without a trailing slash is registered a second time, as
\* a subtree.
Patterns(routes) == DOMAIN routes \cup {Slashed(p) : p \in DOMAIN routes}

\* mux.Handle panics on a pattern that is registered twice.
MuxPanics(routes) ==
  \E p \in DOMAIN routes : ~EndsInSlash(p) /\ Slashed(p) \in DOMAIN routes

\* The route a pattern was registered for.
RouteOf(routes, pattern) ==
  IF pattern \in DOMAIN routes
    THEN pattern ELSE CHOOSE p \in DOMAIN routes : Slashed(p) = pattern

\* http.ServeMux: a pattern that ends in a slash matches everything below it,
\* any other only itself, and the longest match wins.
Below(pattern, path) ==
  /\ Len(path) >= Len(pattern)
  /\ SubSeq(path, 1, Len(pattern) - 1) = SubSeq(pattern, 1, Len(pattern) - 1)

Matches(routes, path) ==
  {q \in Patterns(routes) : IF EndsInSlash(q) THEN Below(q, path) ELSE q = path}

\* A path without the slash at its end.
Core(path) == IF EndsInSlash(path) THEN SubSeq(path, 1, Len(path) - 1) ELSE path

Longest(patterns) ==
  CHOOSE q \in patterns : \A p \in patterns : Len(Core(p)) <= Len(Core(q))

\* http.ServeMux: a path that is registered with a slash only is redirected.
Redirected(routes, path) ==
  /\ ~EndsInSlash(path)
  /\ path \notin Patterns(routes) /\ Slashed(path) \in Patterns(routes)

\* The Director: the rest of the path below the pattern, put after the path of
\* the dest; the dest of an added subtree has got a slash in buildMux.
UpstreamPath(pattern, route, dest, path) ==
  LET base     == IF pattern # route THEN Slashed(dest) ELSE dest
      stripped == SubSeq(path, Len(pattern), Len(path))
  IN  IF path = pattern THEN base
      ELSE IF EndsInSlash(base) THEN SubSeq(base, 1, Len(base) - 1) \o stripped
      ELSE base \o stripped

-----------------------------------------------------------------------------
(* Authentication. *)

\* jwtValidation: the header comes first, the cookie when it is empty.
TokenOf(jwt, in) ==
  IF jwt.header /\ in.headerToken # "none" THEN in.headerToken
  ELSE IF jwt.cookie THEN in.cookieToken ELSE "none"

\* jwtMiddleware and jwtValidation.  A token is "none", "bad" (Verify rejects
\* it), "nobody" (valid, without the claim) or the user it names.
JwtAnswer(cfg, route, in) ==
  LET token == TokenOf(cfg.jwt, in)
      may   == IF route.users # {} THEN token \in route.users ELSE cfg.jwt.allowAll
  IN  IF ~cfg.jwt.on \/ route.skipJwt THEN "pass"
      ELSE IF token \in {"none", "bad"} \/ (cfg.jwt.claim /\ token = "nobody") THEN "401"
      ELSE IF ~cfg.jwt.claim \/ may THEN "pass" ELSE "403"

\* The credentials a route asks for; "" when it asks for none.
EffectiveAuth(cfg, route) ==
  IF route.auth = "inherit" THEN cfg.globalAuth ELSE route.auth

\* requireBasicAuth and checkBasicAuth.
BasicAnswer(cfg, route, in) ==
  IF EffectiveAuth(cfg, route) \in {"", in.basic} THEN "pass" ELSE "401"

\* buildRouteHandler: the JWT middleware is outside the one for basic auth.
AuthAnswer(cfg, route, in) ==
  IF JwtAnswer(cfg, route, in) # "pass"
    THEN JwtAnswer(cfg, route, in) ELSE BasicAnswer(cfg, route, in)
=============================================================================
