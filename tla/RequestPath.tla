---------------------------- MODULE RequestPath ----------------------------
(***************************************************************************)
(* One request on its way through the server: handler and                  *)
(* buildRouteHandler (server.go), IPFilter.Allow (ipfilter.go), the headers *)
(* (headers.go) and the upgrade exception (Websocket.go).                  *)
(*                                                                         *)
(* Requests share nothing but the configuration that is served and its     *)
(* address lists, so one request is followed while the refresh goroutines  *)
(* replace the lists and a reload replaces the configuration between any   *)
(* two of its steps.  The steps end where the code reads shared state: the *)
(* atomic pointer once, each list under its own lock for every question.   *)
(* What a list holds comes from CIDRList, the swap from Reload, the choice *)
(* of an upstream from UpstreamPicker.                                     *)
(***************************************************************************)
EXTENDS Routing, Forwarding, FiniteSets

CONSTANTS
  Addrs,        \* the addresses lists are about
  Scenarios,    \* names of the scenarios
  Configs,      \* the configurations of each that may be served,
  Reloads,      \* the ones among them a reload may bring,
  Inputs,       \* and its requests
  MaxRefreshes, \* bound: refreshes of a list
  MaxReloads    \* bound: swaps of the configuration

\* A configuration for which buildMux panics is never served.
ASSUME ServedAssumption ==
  \A sc \in Scenarios : \A c \in Configs[sc] :
    \A i \in DOMAIN c.vhosts : ~MuxPanics(c.vhosts[i].routes)

\* What a reload brings is one of the configurations.
ASSUME ReloadsAssumption == \A sc \in Scenarios : Reloads[sc] \subseteq Configs[sc]

\* A list of trusted proxies is there when trusted-proxies is configured.
ASSUME ListsAssumption ==
  \A sc \in Scenarios : \A c \in Configs[sc] : c.proxies <=> "proxies" \in c.lists

\* Paths as Routing has them: Slash is the last segment only.
Texts == STRING \cup {Slash}
IsPath(p) == p \in Seq(Texts) /\ \A k \in 1 .. Len(p) - 1 : p[k] # Slash

ASSUME PathsAssumption ==
  \A sc \in Scenarios :
    /\ \A i \in Inputs[sc] : i.path \in Seq(Texts)
    /\ \A c \in Configs[sc] :
         /\ DOMAIN c.vhosts = 1 .. Len(c.vhosts) /\ Len(c.vhosts) \in Nat
         /\ \A i \in DOMAIN c.vhosts : \A p \in DOMAIN c.vhosts[i].routes :
              IsPath(p) /\ \A d \in c.vhosts[i].routes[p].dests : d.path \in Seq(Texts)

ASSUME BoundsAssumption == MaxRefreshes \in Nat /\ MaxReloads \in Nat

\* RemoteAddr is an address or that of a Unix socket; headers are texts; connection
\* is the set of the headers that the Connection header of the client names.
ASSUME InputsAssumption ==
  \A sc \in Scenarios : \A i \in Inputs[sc] :
    /\ i.addr \in Hops \ {Junk}
    /\ i.headers \in [HeaderNames -> Seq(Hops)]
    /\ i.connection \subseteq HeaderNames

ListNames == {"allowed", "blocked", "proxies"}

VARIABLES
  scenario,   \* the one that is played
  served,     \* the configuration in s.state
  nets,       \* the networks of the lists of the configurations
  refreshes, reloads,
  pc,         \* where the request is
  in,         \* the request
  cfg,        \* the configuration it has loaded
  has,        \* hasAllowed, hasBlocked of Allow
  fwd,        \* the Director's trusted, chain and headers; the walk's hop
  realIP,     \* the value of ${trusted_xff} for the upstream
  up,         \* what the upstream has got
  answer,     \* what the client has got
  shown,      \* the value of ${trusted_xff} for the client
  verdict,    \* history: what Allow returned
  since,      \* history: configurations served since the request arrived
  seen        \* history: contents of its lists since it loaded cfg; of the two
              \* of the filter until Allow has returned

env == <<scenario, served, nets, refreshes, reloads>>
vars == <<scenario, served, nets, refreshes, reloads, pc, in, cfg, has, fwd,
          realIP, up, answer, shown, verdict, since, seen>>

None == "none"
NoUp == [path |-> <<None>>, host |-> None, headers |-> [n \in HeaderNames |-> <<>>]]
NoFwd == [trusted |-> FALSE, chain |-> <<>>, headers |-> NoUp.headers, hop |-> 0]

\* The lists of the configurations of a scenario.
Lists(sc) == UNION {{c} \X c.lists : c \in Configs[sc]}

\* A list that is not configured is as good as one without networks.
Nets(c, l) == IF l \in c.lists THEN nets[<<c, l>>] ELSE {}

Contains(l, addr) == addr \in Nets(cfg, l)

Places == {"idle", "arrived", "lenAllowed", "lenBlocked", "inAllowed",
           "inBlocked", "dispatch", "auth", "serve", "direct", "destWalk",
           "send", "await", "clientWalk", "done"}

Init ==
  /\ scenario \in Scenarios
  /\ served \in Configs[scenario]
  /\ nets \in [Lists(scenario) -> SUBSET Addrs]
  /\ refreshes = 0 /\ reloads = 0
  /\ pc = "idle" /\ in \in Inputs[scenario] /\ cfg = served
  /\ has = [allowed |-> FALSE, blocked |-> FALSE]
  /\ fwd = NoFwd /\ realIP = None /\ up = NoUp /\ answer = None /\ shown = None
  /\ verdict = None /\ since = {} /\ seen = [l \in ListNames |-> {}]

-----------------------------------------------------------------------------
(* The surroundings: refreshes of the lists, reloads. *)

\* setDynamic: the networks of a list are replaced.  A fetch that was under
\* way when a reload stopped the list still arrives.
Refresh(c, l) ==
  /\ refreshes < MaxRefreshes
  /\ \E new \in SUBSET Addrs :
       /\ nets' = [nets EXCEPT ![<<c, l>>] = new]
       /\ seen' = IF c = cfg /\ (verdict = None \/ l = "proxies")
                    THEN [seen EXCEPT ![l] = @ \cup {new}] ELSE seen
  /\ refreshes' = refreshes + 1
  /\ UNCHANGED <<scenario, served, reloads, pc, in, cfg, has, fwd, realIP, up,
                 answer, shown, verdict, since>>

\* Reload: s.state.Store.
Swap(c) ==
  /\ reloads < MaxReloads /\ c # served
  /\ served' = c /\ since' = since \cup {c} /\ reloads' = reloads + 1
  /\ UNCHANGED <<scenario, nets, refreshes, pc, in, cfg, has, fwd, realIP, up,
                 answer, shown, verdict, seen>>

-----------------------------------------------------------------------------
(* The handler: challenge, state, address filter, virtual host. *)

\* A request comes in.
Arrive ==
  /\ pc \in {"idle", "done"} /\ pc' = "arrived"
  /\ in' \in Inputs[scenario]
  /\ since' = {served}
  /\ fwd' = NoFwd /\ realIP' = None /\ up' = NoUp /\ answer' = None /\ shown' = None
  /\ verdict' = None /\ seen' = [l \in ListNames |-> {}]
  /\ has' = [allowed |-> FALSE, blocked |-> FALSE]
  /\ UNCHANGED <<env, cfg>>

\* The client gets an answer, unless the timeout has given one already.
Reply(a) == /\ pc' = "done"
            /\ answer' = IF answer = None THEN a ELSE answer

\* closeConnection: HTTP/2 has no hijacking, the client gets a 400.
CloseConnection == Reply(IF in.http2 THEN "400" ELSE "closed")

\* An ACME challenge comes before everything else.
ServeChallenge ==
  /\ pc = "arrived" /\ in.challenge
  /\ Reply("challenge")
  /\ UNCHANGED <<env, in, cfg, has, fwd, realIP, up, shown, verdict, since, seen>>

\* s.state.Load, once for the whole request; Allow rejects what is no address.
LoadState ==
  /\ pc = "arrived"
  /\ cfg' = served
  /\ seen' = [l \in ListNames |-> {Nets(served, l)}]
  /\ \/ /\ ~served.filter
        /\ pc' = "dispatch" /\ verdict' = "allow" /\ UNCHANGED answer
     \/ /\ served.filter /\ in.addr = NoAddr
        /\ CloseConnection /\ verdict' = "deny"
     \/ /\ served.filter /\ in.addr # NoAddr
        /\ pc' = "lenAllowed" /\ UNCHANGED <<verdict, answer>>
  /\ UNCHANGED <<env, in, has, fwd, realIP, up, shown, since>>

\* Allow: f.allowed.Len() > 0.
ReadAllowedLen ==
  /\ pc = "lenAllowed"
  /\ has' = [has EXCEPT !.allowed = Nets(cfg, "allowed") # {}]
  /\ pc' = "lenBlocked"
  /\ UNCHANGED <<env, in, cfg, fwd, realIP, up, answer, shown, verdict, since, seen>>

\* Allow: f.blocked.Len() > 0, and the case that applies.
ReadBlockedLen ==
  /\ pc = "lenBlocked"
  /\ has' = [has EXCEPT !.blocked = Nets(cfg, "blocked") # {}]
  /\ \/ has'.allowed /\ pc' = "inAllowed" /\ UNCHANGED verdict
     \/ ~has'.allowed /\ has'.blocked /\ pc' = "inBlocked" /\ UNCHANGED verdict
     \/ ~has'.allowed /\ ~has'.blocked /\ pc' = "dispatch" /\ verdict' = "allow"
  /\ UNCHANGED <<env, in, cfg, fwd, realIP, up, answer, shown, since, seen>>

\* Allow: f.allowed.Contains(ip).
ReadAllowed ==
  /\ pc = "inAllowed"
  /\ \/ ~Contains("allowed", in.addr) /\ CloseConnection /\ verdict' = "deny"
     \/ /\ Contains("allowed", in.addr) /\ has.blocked
        /\ pc' = "inBlocked" /\ UNCHANGED <<answer, verdict>>
     \/ /\ Contains("allowed", in.addr) /\ ~has.blocked
        /\ pc' = "dispatch" /\ verdict' = "allow" /\ UNCHANGED answer
  /\ UNCHANGED <<env, in, cfg, has, fwd, realIP, up, shown, since, seen>>

\* Seeded fault of ReadBlocked: an address of the allow list is not looked up.
ReadBlockedSkipped ==
  /\ pc = "inBlocked"
  /\ \/ ~has.allowed /\ Contains("blocked", in.addr) /\ CloseConnection /\ verdict' = "deny"
     \/ /\ has.allowed \/ ~Contains("blocked", in.addr)
        /\ pc' = "dispatch" /\ verdict' = "allow" /\ UNCHANGED answer
  /\ UNCHANGED <<env, in, cfg, has, fwd, realIP, up, shown, since, seen>>

\* Allow: f.blocked.Contains(ip).
ReadBlocked ==
  /\ pc = "inBlocked"
  /\ \/ Contains("blocked", in.addr) /\ CloseConnection /\ verdict' = "deny"
     \/ /\ ~Contains("blocked", in.addr)
        /\ pc' = "dispatch" /\ verdict' = "allow" /\ UNCHANGED answer
  /\ UNCHANGED <<env, in, cfg, has, fwd, realIP, up, shown, since, seen>>

-----------------------------------------------------------------------------
(* The mux, and what buildRouteHandler wraps around every route. *)

VHost   == VHostFor(cfg.vhosts, in.host)
Routes  == cfg.vhosts[VHost].routes
Pattern == Longest(Matches(Routes, in.path))
Route   == Routes[RouteOf(Routes, Pattern)]

\* The virtual host and its http.ServeMux.
Dispatch ==
  /\ pc = "dispatch"
  /\ \/ VHost = 0 /\ CloseConnection
     \/ VHost # 0 /\ Redirected(Routes, in.path) /\ Reply("301")
     \/ /\ VHost # 0 /\ ~Redirected(Routes, in.path)
        /\ Matches(Routes, in.path) = {} /\ Reply("404")
     \/ /\ VHost # 0 /\ ~Redirected(Routes, in.path)
        /\ Matches(Routes, in.path) # {} /\ pc' = "auth" /\ UNCHANGED answer
  /\ UNCHANGED <<env, in, cfg, has, fwd, realIP, up, shown, verdict, since, seen>>

\* jwtMiddleware and requireBasicAuth.
Authenticate ==
  /\ pc = "auth"
  /\ IF AuthAnswer(cfg, Route, in) = "pass"
       THEN pc' = (IF Route.kind = "proxy" THEN "direct" ELSE "serve") /\ UNCHANGED answer
       ELSE Reply(AuthAnswer(cfg, Route, in))
  /\ UNCHANGED <<env, in, cfg, has, fwd, realIP, up, shown, verdict, since, seen>>

\* A STATUS route: the configured code; ${trusted_xff} stays as it is written.
ServeStatus ==
  /\ pc = "serve" /\ Route.kind = "status"
  /\ Reply("status")
  /\ shown' = IF Route.clientVar THEN "literal" ELSE None
  /\ UNCHANGED <<env, in, cfg, has, fwd, realIP, up, verdict, since, seen>>

\* A FILE route is read for every request; the headers come after the read.
ServeFile ==
  /\ pc = "serve" /\ Route.kind = "file"
  /\ \/ Reply("status") /\ shown' = IF Route.clientVar THEN "literal" ELSE None
     \/ Reply("404") /\ UNCHANGED shown
     \/ Reply("500") /\ UNCHANGED shown
  /\ UNCHANGED <<env, in, cfg, has, fwd, realIP, up, verdict, since, seen>>

\* noListFS.Open: without listing a directory needs an index.html.
NoListOpen(listing, entry) ==
  CASE entry = "missing" -> "404"
    [] entry = "dir" /\ ~listing -> "403"
    [] OTHER -> "200"

\* A directory: http.FileServer over noListFS; the headers come first.
ServeDir ==
  /\ pc = "serve" /\ Route.kind = "dir"
  /\ \E entry \in {"file", "dir", "dirWithIndex", "missing"} :
       Reply(NoListOpen(Route.listing, entry))
  /\ shown' = IF Route.clientVar THEN "literal" ELSE None
  /\ UNCHANGED <<env, in, cfg, has, fwd, realIP, up, verdict, since, seen>>

-----------------------------------------------------------------------------
(* The reverse proxy. *)

\* The Director up to the user's headers: one lookup of the client's address.
Direct ==
  /\ pc = "direct"
  /\ LET trusted == cfg.trustAll \/ (cfg.proxies /\ Contains("proxies", in.addr))
         h       == ForwardedHeaders(trusted, in.addr, in.headers)
         chain   == h["X-Forwarded-For"]
     IN  fwd' = [trusted |-> trusted, chain |-> chain, hop |-> Len(chain),
                 headers |-> StripAuthorization(EffectiveAuth(cfg, Route), h)]
  /\ pc' = IF Route.destVar THEN "destWalk" ELSE "send"
  /\ UNCHANGED <<env, in, cfg, has, realIP, up, answer, shown, verdict, since, seen>>

\* The chain ModifyResponse finds in the context: a route of the command line
\* has no ClientNeedsTrustedXFF.
ClientChain == IF Route.cli THEN <<>> ELSE fwd.chain

Chain == IF pc = "destWalk" THEN fwd.chain ELSE ClientChain

\* evalTrustedXFF has found the value.
Found(value) ==
  IF pc = "destWalk"
    THEN realIP' = value /\ pc' = "send" /\ UNCHANGED <<shown, answer>>
    ELSE shown' = value /\ Reply("200") /\ UNCHANGED realIP

\* evalTrustedXFF without a lookup.
EvalPlain ==
  /\ pc \in {"destWalk", "clientWalk"} /\ ~Walks(cfg, Chain)
  /\ Found(PlainXFF(cfg, Chain, in.addr))
  /\ UNCHANGED <<env, in, cfg, has, fwd, up, verdict, since, seen>>

\* evalTrustedXFF: one hop, one lookup.
EvalHop ==
  /\ pc \in {"destWalk", "clientWalk"} /\ Walks(cfg, Chain)
  /\ LET value == WalkResult(Chain, in.addr, fwd.hop, Contains("proxies", Chain[fwd.hop]))
     IN  \/ /\ value = "next"
            /\ fwd' = [fwd EXCEPT !.hop = @ - 1]
            /\ UNCHANGED <<realIP, pc, shown, answer>>
         \/ value # "next" /\ Found(value) /\ UNCHANGED fwd
  /\ UNCHANGED <<env, in, cfg, has, up, verdict, since, seen>>

\* The rest of the Director, ReverseProxy and xffRoundTripper; the dial gives
\* a connection, which may come about after the timeout has answered the client.
Forward ==
  /\ pc = "send"
  /\ \E dest \in Route.dests :
       up' = [path    |-> UpstreamPath(Pattern, RouteOf(Routes, Pattern), dest.path, in.path),
              host    |-> UpstreamHost(Route, dest.unix),
              headers |-> RoundTrip(ReverseProxyHeaders(
                            ConnectionNames(Route, in.connection), in.addr,
                            UserHeaders(Route, realIP, fwd.headers)))]
  /\ pc' = "await"
  /\ UNCHANGED <<env, in, cfg, has, fwd, realIP, answer, shown, verdict, since, seen>>

\* The dial fails or takes longer than dial-timeout.
DialFails ==
  /\ pc = "send"
  /\ Reply("502")
  /\ UNCHANGED <<env, in, cfg, has, fwd, realIP, up, shown, verdict, since, seen>>

\* The upstream breaks off, or the timeout has ended the request: ErrorHandler.
ProxyFails ==
  /\ pc = "await"
  /\ Reply("502")
  /\ UNCHANGED <<env, in, cfg, has, fwd, realIP, up, shown, verdict, since, seen>>

\* The upstream's answer comes in: ModifyResponse starts.
UpstreamAnswers ==
  /\ pc = "await"
  /\ IF Route.clientVar
       THEN /\ pc' = "clientWalk" /\ UNCHANGED answer
            /\ fwd' = [fwd EXCEPT !.hop = Len(ClientChain)]
       ELSE Reply("200") /\ UNCHANGED fwd
  /\ UNCHANGED <<env, in, cfg, has, realIP, up, shown, verdict, since, seen>>

\* Seeded fault of TimeOut: no longer once the request has been sent.
TimeOutBeforeSend ==
  /\ pc \in {"direct", "destWalk", "send"}
  /\ Route.timeout /\ ~in.upgrade /\ answer = None
  /\ answer' = "503"
  /\ UNCHANGED <<env, pc, in, cfg, has, fwd, realIP, up, shown, verdict, since, seen>>

\* http.TimeoutHandler, which an upgrade goes round: the client gets its
\* answer, the proxy underneath goes on.
TimeOut ==
  /\ pc \in {"direct", "destWalk", "send", "await", "clientWalk"}
  /\ Route.timeout /\ ~in.upgrade /\ answer = None
  /\ answer' = "503"
  /\ UNCHANGED <<env, pc, in, cfg, has, fwd, realIP, up, shown, verdict, since, seen>>

\* The steps of the request that wait for nobody.
Progress ==
  \/ ServeChallenge \/ LoadState
  \/ ReadAllowedLen \/ ReadBlockedLen \/ ReadAllowed \/ ReadBlocked
  \/ Dispatch \/ Authenticate \/ ServeStatus \/ ServeFile \/ ServeDir
  \/ Direct \/ EvalPlain \/ EvalHop \/ Forward
  \/ TimeOut

Next ==
  \/ Arrive \/ Progress \/ DialFails \/ ProxyFails \/ UpstreamAnswers
  \/ \E c \in Reloads[scenario] : Swap(c)
  \/ \E cl \in Lists(scenario) : Refresh(cl[1], cl[2])

\* Each step of the handler is taken, and the dial ends within dial-timeout, one
\* way (Forward) or the other (DialFails); nothing makes an upstream answer.
Spec == Init /\ [][Next]_vars /\ WF_vars(Progress)

-----------------------------------------------------------------------------
(* Properties. *)

\* The types, and that the walk along the chain stays within it.
TypeOK ==
  /\ scenario \in Scenarios
  /\ served \in Configs[scenario] /\ cfg \in Configs[scenario]
  /\ nets \in [Lists(scenario) -> SUBSET Addrs]
  /\ refreshes \in 0 .. MaxRefreshes /\ reloads \in 0 .. MaxReloads
  /\ pc \in Places
  /\ in \in Inputs[scenario]
  /\ has \in [allowed : BOOLEAN, blocked : BOOLEAN]
  /\ verdict \in {None, "allow", "deny"}
  /\ since \subseteq Configs[scenario]
  /\ seen \in [ListNames -> SUBSET SUBSET Addrs]
  /\ fwd.hop \in 0 .. Len(fwd.chain)
  /\ (pc \in {"destWalk", "clientWalk"} /\ Walks(cfg, Chain)) => fwd.hop \in DOMAIN Chain

\* The table above Allow: no allow list, or in it, and not in the block list.
Permits(a, b, addr) == (a = {} \/ addr \in a) /\ addr \notin b

\* IPFilter.Allow asks four questions under separate locks.  Whatever refreshes
\* come in between: an address it lets in is permitted by an allow list and a
\* block list that were in effect while it ran, and one it turns away is
\* forbidden by two such lists, or the allow list was emptied meanwhile.
FilterDecisionStands ==
  /\ (verdict = "allow" /\ cfg.filter) =>
       /\ in.addr # NoAddr
       /\ \E a \in seen["allowed"], b \in seen["blocked"] : Permits(a, b, in.addr)
  /\ (verdict = "deny" /\ in.addr # NoAddr) =>
       \/ \E a \in seen["allowed"], b \in seen["blocked"] : ~Permits(a, b, in.addr)
       \/ {} \in seen["allowed"] /\ seen["allowed"] # {{}}

\* README "Virtual hosts": the hosts that are named come before "*".
DocVHost(c) ==
  LET first(s) == CHOOSE i \in s : \A j \in s : i <= j
      named == {i \in DOMAIN c.vhosts : in.host \in c.vhosts[i].domains
                                         /\ "*" \notin c.vhosts[i].domains}
      rest  == {i \in DOMAIN c.vhosts : "*" \in c.vhosts[i].domains}
  IN  IF named # {} THEN first(named) ELSE IF rest # {} THEN first(rest) ELSE 0

\* README "Routing": the routes a path belongs to, the most specific of them.
Covers(p, path) ==
  /\ Len(path) >= Len(p)
  /\ SubSeq(path, 1, Len(Core(p))) = Core(p)

DocRoute(routes, path) ==
  CHOOSE p \in DOMAIN routes : Covers(p, path)
    /\ \A q \in DOMAIN routes : Covers(q, path) => Len(Core(q)) <= Len(Core(p))

DocRedirect(routes, path) == path \notin DOMAIN routes /\ Append(path, Slash) \in DOMAIN routes

\* README "Routing", the two tables: what the upstream gets for a path.
DocPath(p, dest, path) ==
  LET rest == SubSeq(path, Len(Core(p)) + 1, Len(path))
  IN  CASE path = p -> dest
        [] path # p /\ rest = <<Slash>> -> Slashed(dest)
        [] OTHER -> Core(dest) \o rest

\* README "Authorisation" and "Authentication".
DocAdmitted(c, r) ==
  LET token == TokenOf(c.jwt, in)
      auth  == IF r.auth = "inherit" THEN c.globalAuth ELSE r.auth
  IN  /\ c.jwt.on /\ ~r.skipJwt =>
           /\ token \notin {"none", "bad"}
           /\ c.jwt.claim => /\ token # "nobody"
                             /\ token \in r.users \/ (r.users = {} /\ c.jwt.allowAll)
      /\ auth # "" => in.basic = auth

\* One configuration, which was served while the request was under way, decides
\* the whole answer: the filter, the virtual host, the route, who is admitted
\* and the path and host the upstream sees are the ones README's tables give
\* for it, whatever is reloaded meanwhile.  (A directory without an index is
\* forbidden to those who are admitted, too.)
AnsweredAsConfigured ==
  (answer \notin {None, "challenge"}) =>
    /\ cfg \in since
    /\ IF verdict = "deny" \/ DocVHost(cfg) = 0
         THEN (verdict = "deny" => cfg.filter) /\ answer = (IF in.http2 THEN "400" ELSE "closed")
         ELSE LET routes == cfg.vhosts[DocVHost(cfg)].routes
                  covering == {p \in DOMAIN routes : Covers(p, in.path)}
                  p == DocRoute(routes, in.path)
              IN  CASE DocRedirect(routes, in.path) -> answer = "301"
                    [] ~DocRedirect(routes, in.path) /\ covering = {} -> answer = "404"
                    [] OTHER ->
                         /\ ~DocAdmitted(cfg, routes[p]) => answer \in {"401", "403"} /\ up = NoUp
                         /\ answer = "401" \/ (answer = "403" /\ routes[p].kind # "dir")
                              => ~DocAdmitted(cfg, routes[p])
                         /\ up # NoUp => \E d \in routes[p].dests :
                              /\ up.path = DocPath(p, d.path, in.path)
                              /\ (up.host = "client") <=>
                                   ({"Host"} \notin routes[p].del /\ "Host" \notin routes[p].add)

\* README "Behaviour comparison": an untrusted client's chain is discarded, a
\* trusted one's is kept and the connecting address appended, once, though
\* ReverseProxy appends it too; credentials for the proxy stop here; a deleted
\* header is gone and an added one wins.  Trust is what the list said at some
\* moment of the request.  (A Unix listener has no connecting address.  A header
\* that the client's Connection header names is lost, whoever has set it, unless
\* the route deletes or replaces Connection.  README's comparison has no such
\* exception.)
ForwardedAsTrusted ==
  (up # NoUp /\ in.addr # NoAddr) =>
    /\ fwd.trusted => cfg.trustAll \/ \E s \in seen["proxies"] : in.addr \in s
    /\ ~fwd.trusted => ~cfg.trustAll /\ \E s \in seen["proxies"] : in.addr \notin s
    /\ \A n \in HeaderNames \ {"Real-IP"} :
         LET deleted == \E d \in Route.del : n \in d
             sent    == in.headers[n]
             ofTable ==
               CASE n \in Route.add -> <<"added">>
                 [] n \notin Route.add /\ deleted -> <<>>
                 [] n \notin Route.add /\ ~deleted /\ n = "X-Forwarded-For" ->
                      IF fwd.trusted THEN Append(sent, in.addr) ELSE <<in.addr>>
                 [] n \notin Route.add /\ ~deleted /\ n \in {"X-Forwarded-Host", "X-Forwarded-Proto"} ->
                      IF fwd.trusted THEN sent ELSE <<"connection">>
                 [] n \notin Route.add /\ ~deleted /\ n = "Authorization" ->
                      IF EffectiveAuth(cfg, Route) = "" THEN sent ELSE <<>>
                 [] OTHER -> sent
         IN  up.headers[n] = IF n \in ConnectionNames(Route, in.connection) THEN <<>>
                             ELSE ofTable

\* The value is a hop of the chain; every hop to the right of it was in the
\* list of trusted proxies at some moment of the request, and it was not, or
\* there is nothing valid to the left of it.
RealHop(value) ==
  LET was(a, trusted) == \E s \in seen["proxies"] : (a \in s) = trusted
  IN  IF ~cfg.trustAll /\ ~cfg.proxies THEN value = in.addr
      ELSE \E k \in DOMAIN fwd.chain :
             /\ value = fwd.chain[k] /\ value # Junk
             /\ IF cfg.trustAll THEN \A j \in 1 .. k - 1 : fwd.chain[j] = Junk
                ELSE /\ \A j \in k + 1 .. Len(fwd.chain) : was(fwd.chain[j], TRUE)
                     /\ k = 1 \/ fwd.chain[k - 1] = Junk \/ was(value, FALSE)

\* README "${trusted_xff}": the value that the upstream and the client are given
\* is such a hop although each lookup of the walk may meet another version of
\* the list.  (The client's value on a route of the command line is the
\* connecting address: the chain is not kept for it.)
TrustedHops ==
  in.addr # NoAddr =>
    /\ realIP # None => RealHop(realIP)
    /\ shown \notin {None, "literal"} => RealHop(shown) \/ (Route.cli /\ shown = in.addr)

\* A request is answered even if the upstream never answers: dial-timeout bounds
\* the dial, timeout the rest.  Only a route without a timeout, and an upgrade,
\* may wait for the upstream for ever.
RequestsAnswered ==
  (pc = "arrived") ~> \/ answer # None
                      \/ pc = "await" /\ (~Route.timeout \/ in.upgrade)
=============================================================================
