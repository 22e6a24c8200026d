---------------------------- MODULE CommandLine ----------------------------
(***************************************************************************)
(* How the configuration is put together: parseAll and applyCLI (cli.go)   *)
(* over what loadConfigFile reads (config.go), and Config.validate.        *)
(*                                                                         *)
(* applyCLI walks along the arguments and keeps the virtual host and the   *)
(* route that are being built in local variables; a flag changes them, and *)
(* --route, --vhost and the end flush them into the configuration.  Each   *)
(* action is one flag.  Flags that are handled alike are one action, with  *)
(* the flag as its parameter; a value is one of a few that the code tells  *)
(* apart, and what YAML and the value syntax reject is "bad".              *)
(***************************************************************************)
EXTENDS Naturals, Sequences, FiniteSets, SequencesExt

CONSTANTS
  Files,        \* configuration files: [routes, vhosts, globals]
  Vocabularies  \* what command lines are made of: [args, max], a set of
                \* arguments [flag, val] and the bound on their number

ASSUME FilesAssumption == \A f \in Files : f.vhosts \in Seq(Range(f.vhosts))

\* strings.Split never returns an empty list; --route "" is not modelled.
ASSUME ArgsAssumption ==
  \A v \in Vocabularies : \A a \in v.args :
    (a.flag = "--vhost" => a.val # {}) /\ (a.flag = "--route" => a.val # "none")

\* Route options that keep the last value, and those that collect values.
Options == {"--noTLSverify", "--skip-jwt-auth", "--auth", "--timeout",
            "--dial-timeout", "--load-balancer-mode"}
Collected == {"--auth-users", "--dest-del-header", "--client-del-header"}

\* compileHeaderValue: a header value is "none", "const", or has a variable: one
\* known of the request ("var"), ${header.X} ("header") or ${trusted_xff} ("xff").
Variables == {"var", "header", "xff"}
HeaderFlags == {"--dest-add-header", "--client-add-header"}
HeaderNames == {"X", "Y"}

TlsFlags == {"--tls-cert", "--tls-key", "--tls-acme-source", "--tls-acme-renewal"}

\* Global settings that keep the last value, and the lists.
JwtFlags == {"--jwt-header", "--jwt-cookie", "--jwt-claim-user", "--jwt-secret",
             "--jwt-jwk-url", "--jwt-aud", "--jwt-default-allow-all"}
AcmeFlags == {"--acme-email", "--acme-cache-dir", "--acme-challenge-mode",
              "--acme-serve-port80", "--acme-directory-url", "--acme-ca-root-file",
              "--acme-insecure-skip-verify"}
GlobalFlags == {"--listen", "--port", "--global-tls-cert", "--global-tls-key",
                "--global-auth", "--trust-client-headers"} \cup JwtFlags \cup AcmeFlags
ListFlags == {"--trusted-proxy", "--ip-filter-allow", "--ip-filter-block"}

Unset == "unset"

\* A file sets what it sets of the global settings, and holds lists.
ASSUME GlobalsAssumption ==
  \A f \in Files :
    /\ f.globals = [g \in GlobalFlags \cup ListFlags |-> f.globals[g]]
    /\ \A l \in ListFlags : f.globals[l] \in Seq(Range(f.globals[l]))

VARIABLES
  file, vocabulary,
  vhosts,      \* cfg.VHosts: domains, routes and tls of each
  globals,     \* the rest of cfg
  curDomains,  \* curVHostDomains; {} is nil
  curTLS,      \* curVHostTLS
  curRoutes,   \* curRoutes; without a route it is nil
  curPath, curRoute,
  status,
  args         \* history: the arguments so far

vars == <<file, vocabulary, vhosts, globals, curDomains, curTLS, curRoutes,
          curPath, curRoute, status, args>>
cur == <<curDomains, curTLS, curRoutes, curPath, curRoute>>

NoTLS == [f \in TlsFlags |-> Unset]
NoRoutes == [p \in {} |-> Unset]
NoPath == "none"

\* RouteConfig.  flags: what is derived from the other settings.
EmptyRoute ==
  [entries |-> <<>>, static |-> "none", ups |-> <<>>,
   opt   |-> [o \in Options |-> Unset], many |-> [o \in Collected |-> <<>>],
   add   |-> [f \in HeaderFlags |-> [n \in HeaderNames |-> "none"]],
   flags |-> {}]

-----------------------------------------------------------------------------
(* The configuration file. *)

\* parseDestField and parseFileField: the entries that are no upstream.
Static == {"status", "file"}

\* applyDestEntries: STATUS and FILE stand alone.
DestError(entries) ==
  \/ \E i \in DOMAIN entries : entries[i] = "bad"
  \/ Len(entries) > 1 /\ \E i \in DOMAIN entries : entries[i] \in Static

ApplyDestEntries(rc, entries) ==
  CASE entries = <<>> -> rc
    [] Len(entries) = 1 /\ entries[1] \in Static -> [rc EXCEPT !.static = entries[1]]
    [] OTHER -> [rc EXCEPT !.ups = entries]

NormalizeLBMode(mode) == IF mode = "round-robin" THEN mode ELSE "random"

Wild(patterns) == \E i \in DOMAIN patterns : patterns[i] = "*"

\* hasNonConstHeader, hasHeaderNameVar and hasTrustedXFFVar on a map of headers.
HasVar(headers, kinds) == \E n \in HeaderNames : headers[n] \in kinds

FlagIf(cond, flag) == IF cond THEN {flag} ELSE {}

\* parseFileVHost, one route: the derived settings come from the whole maps.
ParseFileRoute(fr) ==
  LET dest   == fr.add["--dest-add-header"]
      client == fr.add["--client-add-header"]
      rc == [EmptyRoute EXCEPT
               !.opt = [fr.opt EXCEPT !["--load-balancer-mode"] = NormalizeLBMode(@)],
               !.many = fr.many, !.add = fr.add,
               !.flags =
                 FlagIf(HasVar(dest, Variables), "AddHasVars")
                 \cup FlagIf(HasVar(dest, {"header"}), "NeedsOriginal")
                 \cup FlagIf(HasVar(client, Variables), "ClientAddHasVars")
                 \cup FlagIf(HasVar(client, {"header"}), "ClientNeedsRespHeaders")
                 \cup FlagIf(HasVar(client, {"xff"}), "ClientNeedsTrustedXFF")
                 \cup FlagIf(HasVar(dest, {"xff"}) \/ HasVar(client, {"xff"}), "NeedsTrustedXFF")
                 \cup FlagIf(Wild(fr.many["--dest-del-header"]), "DeleteHasWildcard")
                 \cup FlagIf(Wild(fr.many["--client-del-header"]), "ClientDelHasWildcard")]
  IN  ApplyDestEntries(rc, fr.entries)

ParseFileVHost(routes, domains, tls) ==
  [domains |-> domains, tls |-> tls,
   routes |-> [p \in DOMAIN routes |-> ParseFileRoute(routes[p])]]

FileRoutes(f) ==
  {f.routes} \cup {f.vhosts[i].routes : i \in DOMAIN f.vhosts}

\* loadConfigFile.
LoadError(f) ==
  \/ DOMAIN f.routes # {} /\ f.vhosts # <<>>
  \/ \E i \in DOMAIN f.vhosts : f.vhosts[i].domains = {}
  \/ \E r \in FileRoutes(f) : \E p \in DOMAIN r :
       DestError(r[p].entries) \/ r[p].opt["--auth"] = "bad"
  \/ \E g \in GlobalFlags : f.globals[g] = "bad"
  \/ \E l \in ListFlags : \E i \in DOMAIN f.globals[l] : f.globals[l][i] = "bad"

LoadConfigFile(f) ==
  IF DOMAIN f.routes # {} THEN <<ParseFileVHost(f.routes, {"*"}, NoTLS)>>
  ELSE [i \in DOMAIN f.vhosts |->
          ParseFileVHost(f.vhosts[i].routes, f.vhosts[i].domains, f.vhosts[i].tls)]

-----------------------------------------------------------------------------
(* applyCLI. *)

Init ==
  /\ file \in Files /\ vocabulary \in Vocabularies
  /\ vhosts = LoadConfigFile(file) /\ globals = file.globals
  /\ status = IF LoadError(file) THEN "error" ELSE "parsing"
  /\ curDomains = {} /\ curTLS = NoTLS /\ curRoutes = NoRoutes
  /\ curPath = NoPath /\ curRoute = EmptyRoute
  /\ args = <<>>

\* The next argument.
Take(flag, val) ==
  /\ status = "parsing" /\ Len(args) < vocabulary.max
  /\ [flag |-> flag, val |-> val] \in vocabulary.args
  /\ args' = Append(args, [flag |-> flag, val |-> val])
  /\ UNCHANGED <<file, vocabulary>>

Fail == status' = "error" /\ UNCHANGED <<vhosts, globals, cur>>

\* flushRoute.
FlushRouteFails == curPath # NoPath /\ DestError(curRoute.entries)

FlushedRoutes ==
  IF curPath = NoPath THEN curRoutes
  ELSE [p \in DOMAIN curRoutes \cup {curPath} |->
          IF p = curPath THEN ApplyDestEntries(curRoute, curRoute.entries) ELSE curRoutes[p]]

\* flushVHost.
FlushVHostFails == FlushRouteFails \/ (curTLS # NoTLS /\ curDomains = {})

CatchAlls == {i \in DOMAIN vhosts : "*" \in vhosts[i].domains}

Merged(old, new) ==
  [p \in DOMAIN old \cup DOMAIN new |-> IF p \in DOMAIN new THEN new[p] ELSE old[p]]

FlushedVHosts ==
  LET first == CHOOSE i \in CatchAlls : \A j \in CatchAlls : i <= j
  IN  CASE FlushedRoutes = NoRoutes -> vhosts
        [] FlushedRoutes # NoRoutes /\ curDomains = {} /\ CatchAlls # {} ->
             [vhosts EXCEPT ![first].routes = Merged(@, FlushedRoutes)]
        [] OTHER ->
             Append(vhosts, [domains |-> IF curDomains = {} THEN {"*"} ELSE curDomains,
                             routes  |-> FlushedRoutes, tls |-> curTLS])

\* Seeded fault of VHostFlag: the routes go on to the next virtual host.
VHostFlagKeepsRoutes(val) ==
  /\ Take("--vhost", val)
  /\ \/ FlushVHostFails /\ Fail
     \/ /\ ~FlushVHostFails
        /\ vhosts' = FlushedVHosts
        /\ curRoutes' = FlushedRoutes /\ curPath' = NoPath /\ curRoute' = EmptyRoute
        /\ curTLS' = IF FlushedRoutes = NoRoutes THEN curTLS ELSE NoTLS
        /\ curDomains' = val
        /\ UNCHANGED <<globals, status>>

\* --vhost.  One without routes leaves its TLS settings behind.
VHostFlag(val) ==
  /\ Take("--vhost", val)
  /\ \/ FlushVHostFails /\ Fail
     \/ /\ ~FlushVHostFails
        /\ vhosts' = FlushedVHosts
        /\ curRoutes' = NoRoutes /\ curPath' = NoPath /\ curRoute' = EmptyRoute
        /\ curTLS' = IF FlushedRoutes = NoRoutes THEN curTLS ELSE NoTLS
        /\ curDomains' = val
        /\ UNCHANGED <<globals, status>>

TlsFlag(flag, val) ==
  /\ Take(flag, val)
  /\ curTLS' = [curTLS EXCEPT ![flag] = val]
  /\ UNCHANGED <<vhosts, globals, curDomains, curRoutes, curPath, curRoute, status>>

\* --route: a path that the command line had before is taken up again.
RouteFlag(path) ==
  /\ Take("--route", path)
  /\ \/ FlushRouteFails /\ Fail
     \/ /\ ~FlushRouteFails
        /\ curRoutes' = FlushedRoutes
        /\ curPath' = path
        /\ curRoute' = IF path \in DOMAIN FlushedRoutes THEN FlushedRoutes[path] ELSE EmptyRoute
        /\ UNCHANGED <<vhosts, globals, curDomains, curTLS, status>>

\* A flag that must follow --route.
RouteSetting(new) ==
  \/ curPath = NoPath /\ Fail
  \/ /\ curPath # NoPath
     /\ curRoute' = new
     /\ UNCHANGED <<vhosts, globals, curDomains, curTLS, curRoutes, curPath, status>>

DestFlag(val) ==
  /\ Take("--dest", val)
  /\ RouteSetting([curRoute EXCEPT !.entries = Append(@, val)])

\* The flags with one value.  --auth may hold a value that does not parse.
OptionFlag(flag, val) ==
  /\ Take(flag, val)
  /\ IF flag = "--auth" /\ val = "bad" THEN Fail
     ELSE RouteSetting([curRoute EXCEPT !.opt[flag] =
            IF flag = "--load-balancer-mode" THEN NormalizeLBMode(val) ELSE val])

CollectFlag(flag, val) ==
  /\ Take(flag, val)
  /\ RouteSetting([curRoute EXCEPT !.many[flag] = Append(@, val), !.flags = @ \cup
       (IF val # "*" THEN {}
        ELSE CASE flag = "--dest-del-header" -> {"DeleteHasWildcard"}
               [] flag = "--client-del-header" -> {"ClientDelHasWildcard"}
               [] OTHER -> {})])

\* The derived settings of one more header, as applyCLI has them: the one for
\* ${trusted_xff} in a response is not set.
HeaderDerived(flag, kind) ==
  IF flag = "--dest-add-header"
    THEN FlagIf(kind \in Variables, "AddHasVars") \cup FlagIf(kind = "header", "NeedsOriginal")
         \cup FlagIf(kind = "xff", "NeedsTrustedXFF")
    ELSE FlagIf(kind \in Variables, "ClientAddHasVars")
         \cup FlagIf(kind = "header", "ClientNeedsRespHeaders")
         \cup FlagIf(kind = "xff", "NeedsTrustedXFF")

\* Seeded fault of HeaderFlag: the derived settings are those of the last header.
HeaderFlagLast(flag, val) ==
  /\ Take(flag, val)
  /\ IF val.kind = "bad" THEN Fail
     ELSE RouteSetting([curRoute EXCEPT !.add[flag][val.name] = val.kind,
                          !.flags = HeaderDerived(flag, val.kind)])

\* --dest-add-header and --client-add-header.
HeaderFlag(flag, val) ==
  /\ Take(flag, val)
  /\ IF val.kind = "bad" THEN Fail
     ELSE RouteSetting([curRoute EXCEPT !.add[flag][val.name] = val.kind,
                          !.flags = @ \cup HeaderDerived(flag, val.kind)])

\* Global flags: anywhere, the last one wins; --port and --global-auth parse.
GlobalFlag(flag, val) ==
  /\ Take(flag, val)
  /\ \/ val = "bad" /\ Fail
     \/ /\ val # "bad" /\ globals' = [globals EXCEPT ![flag] = val]
        /\ UNCHANGED <<vhosts, cur, status>>

\* The lists of the command line are added to those of the file.
ListFlag(flag, val) ==
  /\ Take(flag, val)
  /\ \/ val = "bad" /\ Fail
     \/ /\ val # "bad" /\ globals' = [globals EXCEPT ![flag] = Append(@, val)]
        /\ UNCHANGED <<vhosts, cur, status>>

\* An unknown argument, or one whose value is missing.
BadFlag == Take("bad", Unset) /\ Fail

\* The end of the arguments: the last flush.
Finish ==
  /\ status = "parsing"
  /\ \/ FlushVHostFails /\ Fail
     \/ /\ ~FlushVHostFails
        /\ vhosts' = FlushedVHosts /\ status' = "parsed"
        /\ UNCHANGED <<globals, cur>>
  /\ UNCHANGED <<file, vocabulary, args>>

\* Config.validate.
Invalid ==
  LET isSet(g) == globals[g] # Unset
      jwt == \E g \in JwtFlags : isSet(g)
  IN  \/ vhosts = <<>>
      \/ \E i \in DOMAIN vhosts :
           \/ DOMAIN vhosts[i].routes = {}
           \/ \E p \in DOMAIN vhosts[i].routes :
                LET r == vhosts[i].routes[p] IN r.static = "none" /\ r.ups = <<>>
      \/ isSet("--global-tls-cert") # isSet("--global-tls-key")
      \/ jwt /\ ~isSet("--jwt-header") /\ ~isSet("--jwt-cookie")
      \/ jwt /\ ~isSet("--jwt-secret") /\ ~isSet("--jwt-jwk-url") /\ ~isSet("--jwt-aud")

Validate ==
  /\ status = "parsed"
  /\ status' = IF Invalid THEN "rejected" ELSE "accepted"
  /\ UNCHANGED <<file, vocabulary, vhosts, globals, cur, args>>

Values(flag) == {a.val : a \in {b \in vocabulary.args : b.flag = flag}}

Next ==
  \/ \E v \in Values("--vhost") : VHostFlag(v)
  \/ \E f \in TlsFlags : \E v \in Values(f) : TlsFlag(f, v)
  \/ \E v \in Values("--route") : RouteFlag(v)
  \/ \E v \in Values("--dest") : DestFlag(v)
  \/ \E f \in Options : \E v \in Values(f) : OptionFlag(f, v)
  \/ \E f \in Collected : \E v \in Values(f) : CollectFlag(f, v)
  \/ \E f \in HeaderFlags : \E v \in Values(f) : HeaderFlag(f, v)
  \/ \E f \in GlobalFlags : \E v \in Values(f) : GlobalFlag(f, v)
  \/ \E f \in ListFlags : \E v \in Values(f) : ListFlag(f, v)
  \/ BadFlag \/ Finish \/ Validate

Spec == Init /\ [][Next]_vars

-----------------------------------------------------------------------------
(* Properties: the configuration against the command line as a whole. *)

Parsed == status \in {"parsed", "accepted", "rejected"}

\* A command line: line[i].  The --vhost that its argument i comes after
\* (0: none), and within it the --route.
BlockOf(line, i) ==
  LET s == {j \in 1 .. i : line[j].flag = "--vhost"} IN IF s = {} THEN 0 ELSE Max(s)

RouteAt(line, i) ==
  LET s == {j \in 1 .. i : line[j].flag = "--route" /\ BlockOf(line, j) = BlockOf(line, i)}
  IN  IF s = {} THEN 0 ELSE Max(s)

Blocks(line) == {BlockOf(line, i) : i \in DOMAIN line}

Paths(line, b) ==
  {line[i].val : i \in {j \in DOMAIN line : line[j].flag = "--route" /\ BlockOf(line, j) = b}}

RouteBlocks(line) == {b \in Blocks(line) : Paths(line, b) # {}}

\* What the command line says of a route with one flag, in its order.
Places(line, b, path, flag) ==
  {i \in DOMAIN line : /\ line[i].flag = flag /\ BlockOf(line, i) = b
                       /\ RouteAt(line, i) # 0 /\ line[RouteAt(line, i)].val = path}

ValuesAt(line, own) ==
  LET nth(k) == {i \in own : Cardinality({j \in own : j <= i}) = k}
  IN  [k \in 1 .. Cardinality(own) |-> line[CHOOSE i \in nth(k) : TRUE].val]

Said(line, b, path, flag) == ValuesAt(line, Places(line, b, path, flag))

LastSaid(s, default) == IF s = <<>> THEN default ELSE s[Len(s)]

OptionSaid(o, said) ==
  LET last == LastSaid(said, Unset)
  IN  IF o = "--load-balancer-mode" /\ said # <<>>
        THEN (IF last = "round-robin" THEN last ELSE "random") ELSE last

HeaderSaid(said, n) ==
  LET named == {k \in DOMAIN said : said[k].name = n}
  IN  IF named = {} THEN "none" ELSE said[Max(named)].kind

SettingsAsSaid(r, line, b, path) ==
  /\ r.entries = Said(line, b, path, "--dest")
  /\ \A o \in Options : r.opt[o] = OptionSaid(o, Said(line, b, path, o))
  /\ \A o \in Collected : r.many[o] = Said(line, b, path, o)
  /\ \A f \in HeaderFlags, n \in HeaderNames : r.add[f][n] = HeaderSaid(Said(line, b, path, f), n)

LeadsAsSaid(r) ==
  IF r.entries \in {<<>>, <<"status">>, <<"file">>}
    THEN r.ups = <<>> /\ r.static = LastSaid(r.entries, "none")
    ELSE r.ups = r.entries /\ r.static = "none"

RouteAsSaid(r, line, b, path) == SettingsAsSaid(r, line, b, path) /\ LeadsAsSaid(r)

\* The TLS flags of a --vhost.  Those of one without routes fall to the next.
TlsFrom(line, b) ==
  {c \in Blocks(line) : c <= b /\ \A d \in Blocks(line) : c <= d /\ d < b => Paths(line, d) = {}}

TlsAsSaid(tls, line, b) ==
  LET from   == TlsFrom(line, b)
      own(f) == {i \in DOMAIN line : line[i].flag = f /\ BlockOf(line, i) \in from}
  IN  \A f \in TlsFlags : tls[f] = IF own(f) = {} THEN Unset ELSE line[Max(own(f))].val

\* The virtual hosts of the file with some blocks of the command line.
HostsAsSaid(vs, base, line, blocks) ==
  LET star   == {i \in DOMAIN base : "*" \in base[i].domains}
      first  == IF star = {} THEN 0 ELSE Min(star)
      joined == IF 0 \in blocks THEN Paths(line, 0) ELSE {}
      new    == IF star = {} THEN blocks ELSE blocks \ {0}
      at(b)  == IF b = 0 /\ star # {} THEN first
                ELSE Len(base) + Cardinality({c \in new : c <= b})
  IN  /\ Len(vs) = Len(base) + Cardinality(new)
      /\ \A i \in DOMAIN base :
           /\ vs[i].domains = base[i].domains /\ vs[i].tls = base[i].tls
           /\ \A p \in DOMAIN base[i].routes :
                i # first \/ p \notin joined => vs[i].routes[p] = base[i].routes[p]
           /\ DOMAIN vs[i].routes =
                DOMAIN base[i].routes \cup (IF i = first THEN joined ELSE {})
      /\ \A b \in blocks : \A p \in Paths(line, b) : RouteAsSaid(vs[at(b)].routes[p], line, b, p)
      /\ \A b \in new :
           /\ vs[at(b)].domains = IF b = 0 THEN {"*"} ELSE line[b].val
           /\ DOMAIN vs[at(b)].routes = Paths(line, b)
           /\ TlsAsSaid(vs[at(b)].tls, line, b)

\* What the command line says with a global flag.
SaidAnywhere(line, flag) == ValuesAt(line, {i \in DOMAIN line : line[i].flag = flag})

\* The global settings of the file with those of the command line.
GlobalsAsSaid(gs, base, line) ==
  /\ \A g \in GlobalFlags : gs[g] = LastSaid(SaidAnywhere(line, g), base[g])
  /\ \A l \in ListFlags : gs[l] = base[l] \o SaidAnywhere(line, l)

\* README "Vhost and Route": every option belongs to the --route before it and
\* every route to the --vhost before it, without one to the catch-all, where it
\* replaces the file's route of that path; a route named again goes on where it
\* was; nothing else of the file's virtual hosts changes.  A global setting is the
\* last of the command line, else that of the file, wherever among the routes
\* it stands; a list is the file's and then the command line's.
BuiltAsSaid ==
  Parsed => /\ HostsAsSaid(vhosts, LoadConfigFile(file), args, RouteBlocks(args))
            /\ GlobalsAsSaid(globals, file.globals, args)

\* The derived settings of a route let a request see every variable and every
\* pattern its headers use, in whatever order the flags came and whatever they
\* replaced.  (ClientNeedsTrustedXFF is set for the routes of the file only.)
DerivedFlagsCover ==
  \A i \in DOMAIN vhosts : \A p \in DOMAIN vhosts[i].routes :
    LET r == vhosts[i].routes[p]
        uses(f, kinds) == \E n \in HeaderNames : r.add[f][n] \in kinds
        wild(f) == \E k \in DOMAIN r.many[f] : r.many[f][k] = "*"
        fromFile == r.entries = <<>>
    IN  /\ uses("--dest-add-header", {"var", "header", "xff"}) => "AddHasVars" \in r.flags
        /\ uses("--dest-add-header", {"header"}) => "NeedsOriginal" \in r.flags
        /\ uses("--client-add-header", {"var", "header", "xff"}) => "ClientAddHasVars" \in r.flags
        /\ uses("--client-add-header", {"header"}) => "ClientNeedsRespHeaders" \in r.flags
        /\ uses("--dest-add-header", {"xff"}) \/ uses("--client-add-header", {"xff"})
             => "NeedsTrustedXFF" \in r.flags
        /\ fromFile /\ status = "accepted" /\ uses("--client-add-header", {"xff"})
             => "ClientNeedsTrustedXFF" \in r.flags
        /\ wild("--dest-del-header") => "DeleteHasWildcard" \in r.flags
        /\ wild("--client-del-header") => "ClientDelHasWildcard" \in r.flags
=============================================================================
