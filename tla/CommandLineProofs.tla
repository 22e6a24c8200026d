------------------------- MODULE CommandLineProofs -------------------------
(***************************************************************************)
(* Proofs about CommandLine, for any files, any command line and any       *)
(* number of virtual hosts and routes: the derived settings of a route are *)
(* never behind its headers and patterns, and the configuration that is    *)
(* built is the one that the command line, read as a whole, says.          *)
(***************************************************************************)
EXTENDS CommandLine, FiniteSetTheorems, SequenceTheorems, WellFoundedInduction, TLAPS

\* A header of the route has a value of one of the kinds.
Uses(r, f, kinds) == \E n \in HeaderNames : r.add[f][n] \in kinds

\* A list of the route has a wildcard.
HasWild(r, f) == \E k \in DOMAIN r.many[f] : r.many[f][k] = "*"

\* The derived settings of a route cover what it says.
Covers(r) ==
  /\ Uses(r, "--dest-add-header", Variables) => "AddHasVars" \in r.flags
  /\ Uses(r, "--dest-add-header", {"header"}) => "NeedsOriginal" \in r.flags
  /\ Uses(r, "--client-add-header", Variables) => "ClientAddHasVars" \in r.flags
  /\ Uses(r, "--client-add-header", {"header"}) => "ClientNeedsRespHeaders" \in r.flags
  /\ Uses(r, "--dest-add-header", {"xff"}) \/ Uses(r, "--client-add-header", {"xff"})
       => "NeedsTrustedXFF" \in r.flags
  /\ HasWild(r, "--dest-del-header") => "DeleteHasWildcard" \in r.flags
  /\ HasWild(r, "--client-del-header") => "ClientDelHasWildcard" \in r.flags

\* The one that a file sets and the command line does not.
CoversClientXFF(r) ==
  Uses(r, "--client-add-header", {"xff"}) => "ClientNeedsTrustedXFF" \in r.flags

\* Without --dest the command line makes a route that leads nowhere.
Idle(r) == r.entries = <<>> => r.static = "none" /\ r.ups = <<>>

IsSeq(s) == s \in Seq(Range(s))

RouteFields == {"entries", "static", "ups", "opt", "many", "add", "flags"}

IsRoute(r) == r = [f \in RouteFields |-> r[f]]

\* The shape of a route that is being built.
Shaped(r) ==
  /\ IsRoute(r)
  /\ IsSeq(r.entries)
  /\ r.many = [f \in Collected |-> r.many[f]] /\ \A f \in Collected : IsSeq(r.many[f])
  /\ r.add = [f \in HeaderFlags |-> [n \in HeaderNames |-> r.add[f][n]]]

Built(r) == Shaped(r) /\ Covers(r) /\ Idle(r)

\* A route of the configuration comes from the command line or from a file.
Kept(r) == Covers(r) /\ (Idle(r) \/ CoversClientXFF(r))

IsVHost(v) ==
  /\ v = [f \in {"domains", "tls", "routes"} |-> v[f]]
  /\ \A p \in DOMAIN v.routes : Kept(v.routes[p])

AreVHosts(vs) == IsSeq(vs) /\ \A i \in DOMAIN vs : IsVHost(vs[i])

CurInv == Built(curRoute) /\ \A p \in DOMAIN curRoutes : Built(curRoutes[p])

StatusInv == status = "accepted" => ~Invalid

IInv == AreVHosts(vhosts) /\ CurInv /\ StatusInv

-----------------------------------------------------------------------------
(* Sequences. *)

\* Append, of anything to any sequence.
LEMMA AppendAny ==
  ASSUME NEW s, IsSeq(s), NEW e
  PROVE  /\ IsSeq(Append(s, e)) /\ Append(s, e) # <<>>
         /\ \A i \in DOMAIN Append(s, e) :
              (i \in DOMAIN s /\ Append(s, e)[i] = s[i]) \/ Append(s, e)[i] = e
<1> DEFINE S == Range(s) \cup {e}
           t == Append(s, e)
<1>1. s \in Seq(S) /\ e \in S
  BY SeqMonotonic DEF IsSeq
<1> HIDE DEF S
<1>2. /\ t \in Seq(S) /\ Len(t) = Len(s) + 1 /\ Len(s) \in Nat
      /\ \A i \in 1 .. Len(s) : t[i] = s[i]
      /\ t[Len(s) + 1] = e
      /\ DOMAIN s = 1 .. Len(s) /\ DOMAIN t = 1 .. Len(t)
  BY <1>1, AppendProperties, LenProperties
<1> HIDE DEF t
<1>3. IsSeq(t)
  BY <1>2, SeqOfRange DEF IsSeq
<1>4. \A i \in DOMAIN t : (i \in DOMAIN s /\ t[i] = s[i]) \/ t[i] = e
  BY <1>2
<1>5. t # <<>>
  BY <1>2
<1> QED
  BY <1>3, <1>4, <1>5 DEF t

-----------------------------------------------------------------------------
(* Routes. *)

\* A route that has just been named says nothing.
LEMMA EmptyBuilt == Built(EmptyRoute)
<1>1. IsSeq(<<>>)
  BY EmptySeq DEF IsSeq
<1>2. /\ EmptyRoute.entries = <<>> /\ EmptyRoute.static = "none" /\ EmptyRoute.ups = <<>>
      /\ EmptyRoute.many = [o \in Collected |-> <<>>]
      /\ EmptyRoute.add = [f \in HeaderFlags |-> [n \in HeaderNames |-> "none"]]
  BY DEF EmptyRoute
<1>3. Shaped(EmptyRoute)
  BY <1>1, <1>2 DEF Shaped, IsRoute, RouteFields, EmptyRoute
<1>4. \A f \in HeaderFlags : ~Uses(EmptyRoute, f, Variables)
                             /\ ~Uses(EmptyRoute, f, {"header"}) /\ ~Uses(EmptyRoute, f, {"xff"})
  BY <1>2 DEF Uses, Variables
<1>5. \A f \in Collected : ~HasWild(EmptyRoute, f)
  BY <1>2 DEF HasWild
<1> QED
  BY <1>2, <1>3, <1>4, <1>5 DEF Built, Covers, Idle, HeaderFlags, Collected

\* Routes that say the same of headers and patterns are covered alike.
LEMMA SameCovers ==
  ASSUME NEW r, NEW s, s.add = r.add, s.many = r.many, r.flags \subseteq s.flags
  PROVE  /\ Covers(r) => Covers(s)
         /\ CoversClientXFF(r) => CoversClientXFF(s)
BY DEF Covers, CoversClientXFF, Uses, HasWild

\* applyDestEntries changes where a route leads.
LEMMA DestEntriesKeep ==
  ASSUME NEW r, NEW e, IsRoute(r)
  PROVE  LET s == ApplyDestEntries(r, e)
         IN  /\ IsRoute(s) /\ s.entries = r.entries
             /\ s.many = r.many /\ s.add = r.add /\ s.flags = r.flags
             /\ e = <<>> => s = r
<1> USE DEF IsRoute, RouteFields
<1>1. CASE e = <<>>
  BY <1>1 DEF ApplyDestEntries
<1>2. CASE e # <<>> /\ Len(e) = 1 /\ e[1] \in Static
  <2>1. ApplyDestEntries(r, e) = [r EXCEPT !.static = e[1]]
    BY <1>2 DEF ApplyDestEntries
  <2> QED
    BY <1>2, <2>1
<1>3. CASE e # <<>> /\ ~(Len(e) = 1 /\ e[1] \in Static)
  <2>1. ApplyDestEntries(r, e) = [r EXCEPT !.ups = e]
    BY <1>3 DEF ApplyDestEntries
  <2> QED
    BY <1>3, <2>1
<1> QED
  BY <1>1, <1>2, <1>3

\* flushRoute: so it keeps what is said of a route that was built.
LEMMA FlushBuilt ==
  ASSUME NEW r, Built(r)
  PROVE  Built(ApplyDestEntries(r, r.entries))
<1> DEFINE s == ApplyDestEntries(r, r.entries)
<1>1. /\ IsRoute(s) /\ s.entries = r.entries
      /\ s.many = r.many /\ s.add = r.add /\ s.flags = r.flags
      /\ r.entries = <<>> => s = r
  BY DestEntriesKeep DEF Built, Shaped
<1> HIDE DEF s
<1>2. Shaped(s)
  BY <1>1 DEF Built, Shaped
<1>3. Covers(s)
  BY <1>1, SameCovers DEF Built
<1>4. Idle(s)
  BY <1>1 DEF Built, Idle
<1> QED
  BY <1>2, <1>3, <1>4 DEF Built, s

\* parseFileVHost: what a route of a file derives covers the whole of it.
LEMMA FileKept ==
  ASSUME NEW fr
  PROVE  Kept(ParseFileRoute(fr))
<1> DEFINE dest   == fr.add["--dest-add-header"]
           client == fr.add["--client-add-header"]
           flags  ==
             FlagIf(HasVar(dest, Variables), "AddHasVars")
               \cup FlagIf(HasVar(dest, {"header"}), "NeedsOriginal")
               \cup FlagIf(HasVar(client, Variables), "ClientAddHasVars")
               \cup FlagIf(HasVar(client, {"header"}), "ClientNeedsRespHeaders")
               \cup FlagIf(HasVar(client, {"xff"}), "ClientNeedsTrustedXFF")
               \cup FlagIf(HasVar(dest, {"xff"}) \/ HasVar(client, {"xff"}), "NeedsTrustedXFF")
               \cup FlagIf(Wild(fr.many["--dest-del-header"]), "DeleteHasWildcard")
               \cup FlagIf(Wild(fr.many["--client-del-header"]), "ClientDelHasWildcard")
           opt == [fr.opt EXCEPT !["--load-balancer-mode"] = NormalizeLBMode(@)]
           many == fr.many
           add == fr.add
           rc == [EmptyRoute EXCEPT !.opt = opt, !.many = many, !.add = add, !.flags = flags]
           s == ApplyDestEntries(rc, fr.entries)
<1>1. ParseFileRoute(fr) = s
  BY DEF ParseFileRoute
<1>2. /\ HasVar(dest, Variables) => "AddHasVars" \in flags
      /\ HasVar(dest, {"header"}) => "NeedsOriginal" \in flags
      /\ HasVar(client, Variables) => "ClientAddHasVars" \in flags
      /\ HasVar(client, {"header"}) => "ClientNeedsRespHeaders" \in flags
      /\ HasVar(client, {"xff"}) => "ClientNeedsTrustedXFF" \in flags
      /\ HasVar(dest, {"xff"}) \/ HasVar(client, {"xff"}) => "NeedsTrustedXFF" \in flags
      /\ Wild(fr.many["--dest-del-header"]) => "DeleteHasWildcard" \in flags
      /\ Wild(fr.many["--client-del-header"]) => "ClientDelHasWildcard" \in flags
  BY DEF FlagIf
<1> HIDE DEF flags
<1>3. /\ IsRoute(rc)
      /\ rc.many = fr.many /\ rc.add = fr.add /\ rc.flags = flags
  <2> HIDE DEF opt, many, add
  <2>1. IsRoute(EmptyRoute)
    BY EmptyBuilt DEF Built, Shaped
  <2>2. /\ IsRoute(rc)
        /\ rc.many = many /\ rc.add = add /\ rc.flags = flags
    BY <2>1 DEF IsRoute, RouteFields
  <2> QED
    BY <2>2 DEF many, add
<1> HIDE DEF rc
<1>4. s.many = fr.many /\ s.add = fr.add /\ s.flags = flags
  BY <1>3, DestEntriesKeep
<1> HIDE DEF s
<1>5. Covers(s) /\ CoversClientXFF(s)
  <2>1. \A kinds : /\ Uses(s, "--dest-add-header", kinds) <=> HasVar(dest, kinds)
                   /\ Uses(s, "--client-add-header", kinds) <=> HasVar(client, kinds)
    BY <1>4, Zenon DEF Uses, HasVar
  <2>2. /\ HasWild(s, "--dest-del-header") <=> Wild(fr.many["--dest-del-header"])
        /\ HasWild(s, "--client-del-header") <=> Wild(fr.many["--client-del-header"])
    BY <1>4, Zenon DEF HasWild, Wild
  <2> HIDE DEF dest, client
  <2> QED
    BY <1>2, <1>4, <2>1, <2>2 DEF Covers, CoversClientXFF
<1> QED
  BY <1>1, <1>5 DEF Kept

-----------------------------------------------------------------------------
(* The flags of a route. *)

\* --dest.
LEMMA DestBuilt ==
  ASSUME NEW r, Built(r), NEW val
  PROVE  Built([r EXCEPT !.entries = Append(@, val)])
<1> DEFINE s == [r EXCEPT !.entries = Append(@, val)]
<1>1. /\ IsRoute(s) /\ s.entries = Append(r.entries, val)
      /\ s.many = r.many /\ s.add = r.add /\ s.flags = r.flags
  BY DEF Built, Shaped, IsRoute, RouteFields
<1> HIDE DEF s
<1>2. IsSeq(s.entries) /\ s.entries # <<>>
  <2> DEFINE e == r.entries
  <2>1. IsSeq(e)
    BY DEF Built, Shaped
  <2> HIDE DEF e
  <2>2. IsSeq(Append(e, val)) /\ Append(e, val) # <<>>
    BY <2>1, AppendAny, Zenon
  <2> QED
    BY <1>1, <2>2 DEF e
<1>3. Shaped(s)
  BY <1>1, <1>2 DEF Built, Shaped
<1>4. Covers(s)
  BY <1>1, SameCovers DEF Built
<1>5. Idle(s)
  BY <1>2 DEF Idle
<1> QED
  BY <1>3, <1>4, <1>5 DEF Built, s

\* The flags with one value.
LEMMA OptionBuilt ==
  ASSUME NEW r, Built(r), NEW flag, NEW val
  PROVE  Built([r EXCEPT !.opt[flag] = val])
<1> DEFINE s == [r EXCEPT !.opt[flag] = val]
<1>1. /\ IsRoute(s) /\ s.entries = r.entries /\ s.static = r.static /\ s.ups = r.ups
      /\ s.many = r.many /\ s.add = r.add /\ s.flags = r.flags
  BY DEF Built, Shaped, IsRoute, RouteFields
<1> HIDE DEF s
<1>2. Shaped(s)
  BY <1>1 DEF Built, Shaped
<1>3. Covers(s)
  BY <1>1, SameCovers DEF Built
<1>4. Idle(s)
  BY <1>1 DEF Built, Idle
<1> QED
  BY <1>2, <1>3, <1>4 DEF Built, s

\* One more pattern, and what derives from it.
LEMMA CollectBuilt ==
  ASSUME NEW r, Built(r), NEW flag \in Collected, NEW val, NEW more,
         val = "*" /\ flag = "--dest-del-header" => "DeleteHasWildcard" \in more,
         val = "*" /\ flag = "--client-del-header" => "ClientDelHasWildcard" \in more
  PROVE  Built([r EXCEPT !.many[flag] = Append(@, val), !.flags = @ \cup more])
<1> DEFINE s == [r EXCEPT !.many[flag] = Append(@, val), !.flags = @ \cup more]
           old == r.many[flag]
           app == Append(old, val)
<1>1. /\ IsRoute(s) /\ s.entries = r.entries /\ s.static = r.static /\ s.ups = r.ups
      /\ s.many = [r.many EXCEPT ![flag] = app] /\ s.add = r.add
      /\ s.flags = r.flags \cup more
  BY DEF Built, Shaped, IsRoute, RouteFields
<1> HIDE DEF s
<1>2. /\ IsSeq(app)
      /\ \A i \in DOMAIN app : (i \in DOMAIN old /\ app[i] = old[i]) \/ app[i] = val
  BY AppendAny DEF Built, Shaped
<1> HIDE DEF app
<1>3. /\ s.many[flag] = app /\ \A f \in Collected \ {flag} : s.many[f] = r.many[f]
      /\ s.many = [f \in Collected |-> s.many[f]]
  BY <1>1 DEF Built, Shaped
<1>4. Shaped(s)
  BY <1>1, <1>2, <1>3 DEF Built, Shaped
<1>5. \A f \in Collected : HasWild(s, f) => HasWild(r, f) \/ (f = flag /\ val = "*")
  BY <1>2, <1>3 DEF HasWild
<1>6. \A f, kinds : Uses(s, f, kinds) <=> Uses(r, f, kinds)
  BY <1>1 DEF Uses
<1>7. "--dest-del-header" \in Collected /\ "--client-del-header" \in Collected
  BY DEF Collected
<1>8. Covers(s)
  BY <1>1, <1>5, <1>6, <1>7 DEF Built, Covers
<1>9. Idle(s)
  BY <1>1 DEF Built, Idle
<1> QED
  BY <1>4, <1>8, <1>9 DEF Built, s

\* What one more header of a kind derives.
LEMMA DerivedCovers ==
  ASSUME NEW kind
  PROVE  LET dest   == HeaderDerived("--dest-add-header", kind)
             client == HeaderDerived("--client-add-header", kind)
         IN  /\ kind \in Variables => "AddHasVars" \in dest /\ "ClientAddHasVars" \in client
             /\ kind = "header" => "NeedsOriginal" \in dest /\ "ClientNeedsRespHeaders" \in client
             /\ kind = "xff" => "NeedsTrustedXFF" \in dest \cap client
BY DEF HeaderDerived, FlagIf

\* One more header, in place of another of its name.
LEMMA HeaderBuilt ==
  ASSUME NEW r, Built(r), NEW flag \in HeaderFlags, NEW name, NEW kind
  PROVE  Built([r EXCEPT !.add[flag][name] = kind, !.flags = @ \cup HeaderDerived(flag, kind)])
<1> DEFINE more == HeaderDerived(flag, kind)
           s == [r EXCEPT !.add[flag][name] = kind, !.flags = @ \cup more]
<1> HIDE DEF more
<1>1. /\ IsRoute(s) /\ s.entries = r.entries /\ s.static = r.static /\ s.ups = r.ups
      /\ s.many = r.many /\ s.add = [r.add EXCEPT ![flag] = [@ EXCEPT ![name] = kind]]
      /\ s.flags = r.flags \cup more
  BY DEF Built, Shaped, IsRoute, RouteFields
<1> HIDE DEF s
<1>2. /\ s.add = [f \in HeaderFlags |-> [n \in HeaderNames |-> s.add[f][n]]]
      /\ \A f \in HeaderFlags, n \in HeaderNames :
           s.add[f][n] = IF f = flag /\ n = name THEN kind ELSE r.add[f][n]
  <2> DEFINE old == r.add
             own == old[flag]
             new == [own EXCEPT ![name] = kind]
  <2>1. old = [f \in HeaderFlags |-> [n \in HeaderNames |-> old[f][n]]]
    BY DEF Built, Shaped
  <2>2. s.add = [old EXCEPT ![flag] = new]
    BY <1>1
  <2> HIDE DEF old
  <2>3. own = [n \in HeaderNames |-> own[n]]
    BY <2>1
  <2> HIDE DEF own
  <2>4. /\ new = [n \in HeaderNames |-> new[n]]
        /\ \A n \in HeaderNames : new[n] = IF n = name THEN kind ELSE own[n]
    BY <2>3
  <2> HIDE DEF new
  <2>5. /\ s.add = [f \in HeaderFlags |-> IF f = flag THEN new ELSE old[f]]
        /\ \A f \in HeaderFlags : s.add[f] = IF f = flag THEN new ELSE old[f]
    BY <2>1, <2>2
  <2>6. \A f \in HeaderFlags : s.add[f] = [n \in HeaderNames |-> s.add[f][n]]
    BY <2>1, <2>4, <2>5
  <2>7. \A f \in HeaderFlags, n \in HeaderNames :
          s.add[f][n] = IF f = flag /\ n = name THEN kind ELSE old[f][n]
    BY <2>4, <2>5 DEF own
  <2> QED
    BY <2>5, <2>6, <2>7 DEF old
<1>3. Shaped(s)
  BY <1>1, <1>2 DEF Built, Shaped
<1>4. \A f \in HeaderFlags : \A kinds :
        Uses(s, f, kinds) => Uses(r, f, kinds) \/ (f = flag /\ kind \in kinds)
  BY <1>2 DEF Uses
<1>5. \A f : HasWild(s, f) <=> HasWild(r, f)
  BY <1>1 DEF HasWild
<1>6. "--dest-add-header" \in HeaderFlags /\ "--client-add-header" \in HeaderFlags
  BY DEF HeaderFlags
<1>7. /\ kind \in Variables => /\ flag = "--dest-add-header" => "AddHasVars" \in more
                               /\ flag = "--client-add-header" => "ClientAddHasVars" \in more
      /\ kind = "header" => /\ flag = "--dest-add-header" => "NeedsOriginal" \in more
                            /\ flag = "--client-add-header" => "ClientNeedsRespHeaders" \in more
      /\ kind = "xff" => "NeedsTrustedXFF" \in more
  BY DerivedCovers DEF more, HeaderFlags
<1>8. Covers(s)
  BY <1>1, <1>4, <1>5, <1>6, <1>7 DEF Built, Covers
<1>9. Idle(s)
  BY <1>1 DEF Built, Idle
<1> QED
  BY <1>3, <1>8, <1>9 DEF Built, s, more

-----------------------------------------------------------------------------
(* Virtual hosts. *)

\* loadConfigFile.
LEMMA LoadedVHosts ==
  ASSUME NEW f \in Files
  PROVE  AreVHosts(LoadConfigFile(f))
<1>1. ASSUME NEW routes, NEW domains, NEW tls
      PROVE  IsVHost(ParseFileVHost(routes, domains, tls))
  <2>1. \A p \in DOMAIN routes : Kept(ParseFileRoute(routes[p]))
    BY FileKept
  <2> QED
    BY <2>1 DEF ParseFileVHost, IsVHost
<1>2. CASE DOMAIN f.routes # {}
  <2> DEFINE v == ParseFileVHost(f.routes, {"*"}, NoTLS)
  <2>1. LoadConfigFile(f) = <<v>> /\ IsVHost(v)
    BY <1>1, <1>2 DEF LoadConfigFile
  <2> HIDE DEF v
  <2>2. <<v>> \in Seq({v})
    OBVIOUS
  <2>3. IsSeq(<<v>>)
    BY <2>2, SeqOfRange DEF IsSeq
  <2> QED
    BY <2>1, <2>3 DEF AreVHosts
<1>3. CASE DOMAIN f.routes = {}
  <2> DEFINE e(i) == ParseFileVHost(f.vhosts[i].routes, f.vhosts[i].domains, f.vhosts[i].tls)
             n == Len(f.vhosts)
             S == {e(i) : i \in 1 .. n}
             vs == [i \in 1 .. n |-> e(i)]
  <2>1. n \in Nat /\ DOMAIN f.vhosts = 1 .. n
    BY FilesAssumption, LenProperties
  <2>2. LoadConfigFile(f) = vs
    BY <1>3, <2>1 DEF LoadConfigFile
  <2>3. \A i \in 1 .. n : IsVHost(e(i)) /\ e(i) \in S
    BY <1>1
  <2> HIDE DEF e, n, S
  <2>4. vs \in Seq(S)
    BY <2>1, <2>3, IsASeq
  <2>5. IsSeq(vs)
    BY <2>4, SeqOfRange DEF IsSeq
  <2> QED
    BY <2>2, <2>3, <2>5 DEF AreVHosts
<1> QED
  BY <1>2, <1>3

\* flushRoute.
LEMMA FlushedBuilt ==
  ASSUME CurInv
  PROVE  \A p \in DOMAIN FlushedRoutes : Built(FlushedRoutes[p])
<1>1. Built(ApplyDestEntries(curRoute, curRoute.entries))
  BY FlushBuilt DEF CurInv
<1> QED
  BY <1>1 DEF CurInv, FlushedRoutes

\* flushVHost: the routes are added to a virtual host or make a new one.
LEMMA FlushedAreVHosts ==
  ASSUME AreVHosts(vhosts), CurInv
  PROVE  AreVHosts(FlushedVHosts)
<1> DEFINE first == CHOOSE i \in CatchAlls : \A j \in CatchAlls : i <= j
           fr == FlushedRoutes
           v == [domains |-> IF curDomains = {} THEN {"*"} ELSE curDomains,
                 routes |-> fr, tls |-> curTLS]
           w == [vhosts EXCEPT ![first].routes = Merged(@, fr)]
<1>1. \A p \in DOMAIN fr : Kept(fr[p])
  BY FlushedBuilt DEF Built, Kept
<1>2. \/ FlushedVHosts = vhosts
      \/ FlushedVHosts = w
      \/ FlushedVHosts = Append(vhosts, v)
  BY DEF FlushedVHosts
<1> HIDE DEF fr, first
<1>3. AreVHosts(Append(vhosts, v))
  <2>1. IsVHost(v)
    BY <1>1 DEF IsVHost
  <2> HIDE DEF v
  <2> QED
    BY <2>1, AppendAny DEF AreVHosts
<1>4. AreVHosts(w)
  <2>1. /\ DOMAIN vhosts = 1 .. Len(vhosts) /\ Len(vhosts) \in Nat
        /\ vhosts = [i \in 1 .. Len(vhosts) |-> vhosts[i]]
    BY LenProperties DEF AreVHosts, IsSeq
  <2>2. /\ w = [i \in 1 .. Len(vhosts) |-> w[i]]
        /\ \A i \in 1 .. Len(vhosts) :
             w[i] = vhosts[i] \/ w[i] = [vhosts[i] EXCEPT !.routes = Merged(@, fr)]
    BY <2>1
  <2>3. ASSUME NEW u, IsVHost(u)
        PROVE  IsVHost([u EXCEPT !.routes = Merged(@, fr)])
    <3> DEFINE m == Merged(u.routes, fr)
    <3>1. \A p \in DOMAIN m : Kept(m[p])
      BY <1>1, <2>3 DEF Merged, IsVHost
    <3> HIDE DEF m
    <3>2. [u EXCEPT !.routes = m].routes = m
          /\ [u EXCEPT !.routes = m] =
               [f \in {"domains", "tls", "routes"} |-> [u EXCEPT !.routes = m][f]]
      BY <2>3 DEF IsVHost
    <3>3. IsVHost([u EXCEPT !.routes = m])
      BY <3>1, <3>2 DEF IsVHost
    <3> QED
      BY <3>3 DEF m
  <2> HIDE DEF w
  <2>4. \A i \in 1 .. Len(vhosts) : IsVHost(w[i])
    BY <2>1, <2>2, <2>3 DEF AreVHosts
  <2> DEFINE S == {w[i] : i \in 1 .. Len(vhosts)}
             e(i) == w[i]
  <2>5. [i \in 1 .. Len(vhosts) |-> w[i]] \in Seq(S)
    BY <2>1
  <2>6. w \in Seq(S)
    BY <2>2, <2>5
  <2> HIDE DEF S
  <2>7. IsSeq(w) /\ DOMAIN w = 1 .. Len(vhosts)
    BY <2>2, <2>6, SeqOfRange DEF IsSeq
  <2> QED
    BY <2>4, <2>7 DEF AreVHosts
<1> QED
  BY <1>2, <1>3, <1>4

-----------------------------------------------------------------------------
(* The steps. *)

LEMMA InitIInv == Init => IInv
<1> SUFFICES ASSUME Init PROVE IInv
  OBVIOUS
<1>1. AreVHosts(vhosts)
  BY LoadedVHosts DEF Init
<1>2. CurInv
  BY EmptyBuilt DEF Init, CurInv, NoRoutes
<1>3. StatusInv
  BY DEF Init, StatusInv
<1> QED
  BY <1>1, <1>2, <1>3 DEF IInv

\* A step that leaves the routes alone.
LEMMA RoutesKept ==
  ASSUME IInv, UNCHANGED <<vhosts, curRoutes, curRoute>>, status' # "accepted"
  PROVE  IInv'
BY DEF IInv, CurInv, StatusInv

\* An error ends the command line.
LEMMA FailIInv == IInv /\ Fail => IInv'
BY RoutesKept DEF Fail, cur

\* A flag of the route that is being built.
LEMMA SettingIInv ==
  ASSUME IInv, status = "parsing", NEW new, Built(new), RouteSetting(new)
  PROVE  IInv'
<1>1. CASE Fail
  BY <1>1, FailIInv
<1>2. CASE curRoute' = new /\ UNCHANGED <<vhosts, curRoutes, status>>
  BY <1>2 DEF IInv, CurInv, StatusInv
<1> QED
  BY <1>1, <1>2 DEF RouteSetting

LEMMA RouteFlagsIInv ==
  ASSUME IInv,
         \/ \E v : DestFlag(v)
         \/ \E f, v : OptionFlag(f, v)
         \/ \E f \in Collected : \E v : CollectFlag(f, v)
         \/ \E f \in HeaderFlags : \E v : HeaderFlag(f, v)
  PROVE  IInv'
<1>1. Built(curRoute)
  BY DEF IInv, CurInv
<1>2. ASSUME NEW v, DestFlag(v) PROVE IInv'
  <2> DEFINE new == [curRoute EXCEPT !.entries = Append(@, v)]
  <2>1. Built(new)
    BY <1>1, DestBuilt
  <2>2. status = "parsing" /\ RouteSetting(new)
    BY <1>2 DEF DestFlag, Take
  <2> HIDE DEF new
  <2> QED
    BY <2>1, <2>2, SettingIInv
<1>3. ASSUME NEW f, NEW v, OptionFlag(f, v) PROVE IInv'
  <2> DEFINE val == IF f = "--load-balancer-mode" THEN NormalizeLBMode(v) ELSE v
             new == [curRoute EXCEPT !.opt[f] = val]
  <2>1. Built(new)
    BY <1>1, OptionBuilt
  <2>2. status = "parsing" /\ (Fail \/ RouteSetting(new))
    BY <1>3 DEF OptionFlag, Take
  <2> HIDE DEF new
  <2> QED
    BY <2>1, <2>2, SettingIInv, FailIInv
<1>4. ASSUME NEW f \in Collected, NEW v, CollectFlag(f, v) PROVE IInv'
  <2> DEFINE more == IF v # "*" THEN {}
                     ELSE CASE f = "--dest-del-header" -> {"DeleteHasWildcard"}
                            [] f = "--client-del-header" -> {"ClientDelHasWildcard"}
                            [] OTHER -> {}
             new == [curRoute EXCEPT !.many[f] = Append(@, v), !.flags = @ \cup more]
  <2>1. /\ v = "*" /\ f = "--dest-del-header" => "DeleteHasWildcard" \in more
        /\ v = "*" /\ f = "--client-del-header" => "ClientDelHasWildcard" \in more
    OBVIOUS
  <2>2. status = "parsing" /\ RouteSetting(new)
    BY <1>4 DEF CollectFlag, Take
  <2> HIDE DEF more
  <2>3. Built(new)
    BY <1>1, <2>1, CollectBuilt
  <2> HIDE DEF new
  <2> QED
    BY <2>2, <2>3, SettingIInv
<1>5. ASSUME NEW f \in HeaderFlags, NEW v, HeaderFlag(f, v) PROVE IInv'
  <2> DEFINE new == [curRoute EXCEPT !.add[f][v.name] = v.kind,
                                     !.flags = @ \cup HeaderDerived(f, v.kind)]
  <2>1. Built(new)
    BY <1>1, HeaderBuilt
  <2>2. status = "parsing" /\ (Fail \/ RouteSetting(new))
    BY <1>5 DEF HeaderFlag, Take
  <2> HIDE DEF new
  <2> QED
    BY <2>1, <2>2, SettingIInv, FailIInv
<1> QED
  BY <1>2, <1>3, <1>4, <1>5

\* --route and --vhost, which flush.
LEMMA FlushFlagsIInv ==
  ASSUME IInv, (\E v : VHostFlag(v)) \/ (\E v : RouteFlag(v)) \/ Finish
  PROVE  IInv'
<1>1. AreVHosts(FlushedVHosts)
  BY FlushedAreVHosts DEF IInv
<1>2. \A p \in DOMAIN FlushedRoutes : Built(FlushedRoutes[p])
  BY FlushedBuilt DEF IInv
<1>3. ASSUME NEW v, VHostFlag(v) PROVE IInv'
  <2>1. CASE Fail
    BY <2>1, FailIInv
  <2>2. CASE ~Fail
    <3>1. /\ vhosts' = FlushedVHosts /\ curRoutes' = NoRoutes /\ curRoute' = EmptyRoute
          /\ status' = "parsing"
      BY <1>3, <2>2 DEF VHostFlag, Take
    <3>2. AreVHosts(vhosts')
      BY <1>1, <3>1
    <3>3. CurInv'
      BY <3>1, EmptyBuilt DEF CurInv, NoRoutes
    <3> QED
      BY <3>1, <3>2, <3>3 DEF IInv, StatusInv
  <2> QED
    BY <2>1, <2>2
<1>4. ASSUME NEW path, RouteFlag(path) PROVE IInv'
  <2>1. CASE Fail
    BY <2>1, FailIInv
  <2>2. CASE ~Fail
    <3>1. /\ vhosts' = vhosts /\ curRoutes' = FlushedRoutes /\ status' = "parsing"
          /\ curRoute' = IF path \in DOMAIN FlushedRoutes THEN FlushedRoutes[path] ELSE EmptyRoute
      BY <1>4, <2>2 DEF RouteFlag, Take
    <3>2. CurInv'
      BY <1>2, <3>1, EmptyBuilt DEF CurInv
    <3> QED
      BY <3>1, <3>2 DEF IInv, StatusInv
  <2> QED
    BY <2>1, <2>2
<1>5. CASE Finish
  <2>1. CASE Fail
    BY <2>1, FailIInv
  <2>2. CASE ~Fail
    <3>1. /\ vhosts' = FlushedVHosts /\ status' = "parsed"
          /\ UNCHANGED <<curRoutes, curRoute>>
      BY <1>5, <2>2 DEF Finish, cur
    <3>2. AreVHosts(vhosts')
      BY <1>1, <3>1
    <3> QED
      BY <3>1, <3>2 DEF IInv, CurInv, StatusInv
  <2> QED
    BY <2>1, <2>2
<1> QED
  BY <1>3, <1>4, <1>5

\* Config.validate accepts only what has somewhere to lead to.
LEMMA ValidateIInv == ASSUME IInv, Validate PROVE IInv'
<1>1. UNCHANGED <<vhosts, globals, curRoutes, curRoute>>
      /\ status' = IF Invalid THEN "rejected" ELSE "accepted"
  BY DEF Validate, cur
<1>2. Invalid' = Invalid
  BY <1>1 DEF Invalid
<1> QED
  BY <1>1, <1>2 DEF IInv, CurInv, StatusInv

LEMMA NextIInv == IInv /\ [Next]_vars => IInv'
<1> SUFFICES ASSUME IInv, [Next]_vars PROVE IInv'
  OBVIOUS
<1>1. ASSUME NEW f, NEW v, TlsFlag(f, v) \/ GlobalFlag(f, v) \/ ListFlag(f, v)
      PROVE  IInv'
  <2>1. CASE Fail
    BY <2>1, FailIInv
  <2>2. CASE UNCHANGED <<vhosts, curRoutes, curRoute, status>>
    <3>1. status' # "accepted"
      BY <1>1, <2>2 DEF TlsFlag, GlobalFlag, ListFlag, Take
    <3> QED
      BY <2>2, <3>1, RoutesKept
  <2> QED
    BY <1>1, <2>1, <2>2 DEF TlsFlag, GlobalFlag, ListFlag, cur
<1>2. CASE BadFlag
  BY <1>2, FailIInv DEF BadFlag
<1>3. CASE UNCHANGED vars
  <2>1. UNCHANGED <<vhosts, globals, curRoutes, curRoute, status>>
    BY <1>3 DEF vars
  <2>2. Invalid' = Invalid
    BY <2>1 DEF Invalid
  <2> QED
    BY <2>1, <2>2 DEF IInv, CurInv, StatusInv
<1>4. CASE Validate
  BY <1>4, ValidateIInv
<1> QED
  BY <1>1, <1>2, <1>3, <1>4, RouteFlagsIInv, FlushFlagsIInv DEF Next

\* Whatever the flags and the file say, in whatever order, the settings that
\* applyCLI and parseFileVHost derive let a request see all that the headers
\* and patterns of its route use.
THEOREM CommandLineFlagsCover == Spec => []DerivedFlagsCover
<1>1. IInv => DerivedFlagsCover
  <2> SUFFICES ASSUME IInv, NEW i \in DOMAIN vhosts, NEW p \in DOMAIN vhosts[i].routes
               PROVE
                 LET r == vhosts[i].routes[p]
                 IN  /\ Covers(r)
                     /\ r.entries = <<>> /\ status = "accepted" => CoversClientXFF(r)
    BY DEF DerivedFlagsCover, Covers, CoversClientXFF, Uses, HasWild, Variables
  <2> DEFINE r == vhosts[i].routes[p]
  <2>1. Covers(r) /\ (Idle(r) \/ CoversClientXFF(r))
    BY DEF IInv, AreVHosts, IsVHost, Kept
  <2>2. status = "accepted" => ~(r.static = "none" /\ r.ups = <<>>)
    BY DEF IInv, StatusInv, Invalid
  <2> QED
    BY <2>1, <2>2 DEF Idle
<1> QED
  BY <1>1, InitIInv, NextIInv, PTL DEF Spec

-----------------------------------------------------------------------------
(* Induction, as the least counterexample, and largest elements. *)

\* A nonempty set of natural numbers has a least one.
LEMMA SmallestExists ==
  ASSUME NEW S \in SUBSET Nat, S # {}
  PROVE  \E i \in S : \A j \in S : i <= j
<1> DEFINE R == {ss \in Nat \X Nat : ss[1] < ss[2]}
<1>1. IsWellFoundedOn(R, Nat)
  BY NatLessThanWellFounded DEF OpToRel
<1>2. \E i \in S : \A j \in S : ~(<<j, i>> \in R)
  <2> HIDE DEF R
  <2> QED
    BY <1>1, WFMin, Zenon
<1>3. PICK i \in S : \A j \in S : ~(<<j, i>> \in R)
  BY <1>2, Zenon
<1>4. ASSUME NEW j \in S PROVE i <= j
  <2>1. i \in Nat /\ j \in Nat
    OBVIOUS
  <2>2. j < i => <<j, i>> \in R
    BY <2>1
  <2> QED
    BY <1>3, <2>1, <2>2
<1> QED
  BY <1>4

\* A set that has m and, with each number from m to n - 1, the next one.
LEMMA UpTo ==
  ASSUME NEW m \in Nat, NEW n \in Nat, NEW S,
         m <= n => m \in S,
         \A i \in m .. n - 1 : i \in S => i + 1 \in S
  PROVE  m .. n \subseteq S
<1> DEFINE Bad == {i \in m .. n : i \notin S}
<1> SUFFICES ASSUME Bad # {} PROVE FALSE
  OBVIOUS
<1>0. Bad \in SUBSET Nat
  OBVIOUS
<1>1. PICK i \in Bad : \A j \in Bad : i <= j
  <2> HIDE DEF Bad
  <2> QED
    BY <1>0, SmallestExists
<1>2. i \in m .. n /\ i \notin S /\ i # m
  OBVIOUS
<1>3. i - 1 \in m .. n - 1 /\ i - 1 \notin Bad
  BY <1>1, <1>2
<1> QED
  BY <1>2, <1>3

\* And a bounded one a largest.
LEMMA MaxExists ==
  ASSUME NEW n \in Nat, NEW S \in SUBSET (1 .. n), S # {}
  PROVE  Max(S) \in S /\ \A y \in S : y <= Max(S)
<1> DEFINE U == {u \in Nat : \A y \in S : y <= u}
<1>1. n \in U
  OBVIOUS
<1>2. PICK u \in U : \A v \in U : u <= v
  <2>1. U \in SUBSET Nat /\ U # {}
    BY <1>1
  <2> HIDE DEF U
  <2> QED
    BY <2>1, SmallestExists
<1>3. u \in S
  <2> SUFFICES ASSUME u \notin S PROVE FALSE
    OBVIOUS
  <2>1. \A y \in S : y \in 1 .. n /\ y <= u /\ y # u
    OBVIOUS
  <2>2. PICK y \in S : TRUE
    OBVIOUS
  <2>3. u \in Nat /\ u >= 1
    BY <2>1, <2>2
  <2>4. u - 1 \in Nat /\ \A z \in S : z <= u - 1
    BY <2>1, <2>3
  <2>5. u - 1 \in U
    BY <2>4
  <2> QED
    BY <1>2, <2>3, <2>5
<1>4. \E x \in S : \A y \in S : x >= y
  BY <1>3
<1>5. Max(S) \in S /\ \A y \in S : Max(S) >= y
  BY <1>4, Zenon DEF Max
<1> QED
  BY <1>5

LEMMA MaxIs ==
  ASSUME NEW S \in SUBSET Nat, NEW x \in S, \A y \in S : y <= x
  PROVE  Max(S) = x
<1>1. \A y \in S : x >= y
  OBVIOUS
<1>2. Max(S) \in S /\ \A y \in S : Max(S) >= y
  BY <1>1, Zenon DEF Max
<1>3. \A m, k \in Nat : m >= k /\ m <= k => m = k
  OBVIOUS
<1>4. Max(S) \in Nat /\ x \in Nat /\ Max(S) >= x /\ Max(S) <= x
  BY <1>2
<1> QED
  BY <1>3, <1>4

LEMMA MinIs ==
  ASSUME NEW S \in SUBSET Nat, S # {}
  PROVE  Min(S) \in S /\ \A y \in S : Min(S) <= y
<1>1. \E x \in S : \A y \in S : x =< y
  BY SmallestExists
<1> QED
  BY <1>1, Zenon DEF Min

-----------------------------------------------------------------------------
(* The --vhost and the --route before an argument. *)

\* more is the command line with the argument x after it.
OneMore(line, more, x) ==
  /\ Len(line) \in Nat /\ DOMAIN line = 1 .. Len(line)
  /\ Len(more) = Len(line) + 1 /\ DOMAIN more = 1 .. Len(line) + 1
  /\ \A i \in 1 .. Len(line) : more[i] = line[i]
  /\ more[Len(line) + 1] = x

LEMMA AppendOneMore ==
  ASSUME NEW line, IsSeq(line), NEW x
  PROVE  IsSeq(Append(line, x)) /\ OneMore(line, Append(line, x), x)
<1> DEFINE S == Range(line) \cup {x}
           more == Append(line, x)
<1>1. line \in Seq(S) /\ x \in S
  BY SeqMonotonic DEF IsSeq
<1> HIDE DEF S
<1>2. /\ Len(more) = Len(line) + 1 /\ Len(line) \in Nat
      /\ \A i \in 1 .. Len(line) : more[i] = line[i]
      /\ more[Len(line) + 1] = x
      /\ DOMAIN line = 1 .. Len(line) /\ DOMAIN more = 1 .. Len(more)
  BY <1>1, AppendProperties, LenProperties
<1> HIDE DEF more
<1>3. OneMore(line, more, x)
  BY <1>2 DEF OneMore
<1> QED
  BY <1>3, AppendAny DEF more

\* The arguments up to i that start a virtual host; those that start a route
\* in the same one.
VHostsTo(line, i) == {j \in 1 .. i : line[j].flag = "--vhost"}
RoutesTo(line, i) ==
  {j \in 1 .. i : line[j].flag = "--route" /\ BlockOf(line, j) = BlockOf(line, i)}

LEMMA BlockFacts ==
  ASSUME NEW line, NEW i \in Nat
  PROVE  /\ BlockOf(line, i) \in 0 .. i
         /\ BlockOf(line, i) # 0 => line[BlockOf(line, i)].flag = "--vhost"
         /\ \A j \in VHostsTo(line, i) : j <= BlockOf(line, i)
<1> DEFINE S == VHostsTo(line, i)
<1>1. BlockOf(line, i) = IF S = {} THEN 0 ELSE Max(S)
  BY Zenon DEF BlockOf, VHostsTo
<1>2. S \in SUBSET (1 .. i) /\ \A j \in S : line[j].flag = "--vhost"
  BY DEF VHostsTo
<1>3. S # {} => Max(S) \in S /\ \A y \in S : y <= Max(S)
  <2> HIDE DEF S
  <2> QED
    BY <1>2, MaxExists
<1> HIDE DEF S
<1>4. \A j \in S : j <= BlockOf(line, i)
  BY <1>1, <1>3
<1> QED
  BY <1>1, <1>2, <1>3, <1>4 DEF S

LEMMA BlockIs ==
  ASSUME NEW line, NEW i \in Nat, NEW b \in 0 .. i,
         b # 0 => line[b].flag = "--vhost", \A j \in VHostsTo(line, i) : j <= b
  PROVE  BlockOf(line, i) = b
<1>1. BlockOf(line, i) \in VHostsTo(line, i) \cup {0} /\ b \in VHostsTo(line, i) \cup {0}
  BY BlockFacts DEF VHostsTo
<1>2. BlockOf(line, i) <= b /\ b <= BlockOf(line, i) /\ BlockOf(line, i) \in 0 .. i
  BY <1>1, BlockFacts
<1> QED
  BY <1>2

LEMMA RouteFacts ==
  ASSUME NEW line, NEW i \in Nat
  PROVE  /\ RouteAt(line, i) \in 0 .. i
         /\ RouteAt(line, i) # 0 =>
              line[RouteAt(line, i)].flag = "--route" /\ BlockOf(line, RouteAt(line, i)) = BlockOf(line, i)
         /\ \A j \in RoutesTo(line, i) : j <= RouteAt(line, i)
<1> DEFINE S == RoutesTo(line, i)
<1>1. RouteAt(line, i) = IF S = {} THEN 0 ELSE Max(S)
  BY Zenon DEF RouteAt, RoutesTo
<1>2. /\ S \in SUBSET (1 .. i)
      /\ \A j \in S : line[j].flag = "--route" /\ BlockOf(line, j) = BlockOf(line, i)
  BY DEF RoutesTo
<1>3. S # {} => Max(S) \in S /\ \A y \in S : y <= Max(S)
  <2> HIDE DEF S
  <2> QED
    BY <1>2, MaxExists
<1> HIDE DEF S
<1>4. \A j \in S : j <= RouteAt(line, i)
  BY <1>1, <1>3
<1> QED
  BY <1>1, <1>2, <1>3, <1>4 DEF S

LEMMA RouteIs ==
  ASSUME NEW line, NEW i \in Nat, NEW r \in 0 .. i,
         r # 0 => line[r].flag = "--route" /\ BlockOf(line, r) = BlockOf(line, i),
         \A j \in RoutesTo(line, i) : j <= r
  PROVE  RouteAt(line, i) = r
<1>1. RouteAt(line, i) \in RoutesTo(line, i) \cup {0} /\ r \in RoutesTo(line, i) \cup {0}
  BY RouteFacts DEF RoutesTo
<1>2. RouteAt(line, i) <= r /\ r <= RouteAt(line, i) /\ RouteAt(line, i) \in 0 .. i
  BY <1>1, RouteFacts
<1> QED
  BY <1>2

\* Virtual hosts come one after the other.
LEMMA BlockGrows ==
  ASSUME NEW line, NEW i \in Nat, NEW j \in Nat, i <= j
  PROVE  BlockOf(line, i) <= BlockOf(line, j)
<1>1. BlockOf(line, i) \in 0 .. i /\ BlockOf(line, j) \in 0 .. j
  BY BlockFacts
<1>2. BlockOf(line, i) # 0 => BlockOf(line, i) \in VHostsTo(line, j)
  BY <1>1, BlockFacts DEF VHostsTo
<1>3. BlockOf(line, i) # 0 => BlockOf(line, i) <= BlockOf(line, j)
  BY <1>2, BlockFacts
<1> QED
  BY <1>1, <1>3

LEMMA BlockMore ==
  ASSUME NEW line, NEW more, NEW x, OneMore(line, more, x)
  PROVE  /\ \A i \in 0 .. Len(line) : BlockOf(more, i) = BlockOf(line, i)
         /\ BlockOf(more, Len(line) + 1) =
              IF x.flag = "--vhost" THEN Len(line) + 1 ELSE BlockOf(line, Len(line))
<1> DEFINE n == Len(line)
<1>1. /\ n \in Nat /\ \A i \in 1 .. n : more[i] = line[i]
      /\ more[n + 1] = x
  BY DEF OneMore
<1> HIDE DEF n
<1>2. ASSUME NEW i \in 0 .. n PROVE BlockOf(more, i) = BlockOf(line, i)
  <2>1. i \in Nat /\ VHostsTo(more, i) = VHostsTo(line, i)
    BY <1>1 DEF VHostsTo
  <2>2. /\ BlockOf(line, i) \in 0 .. i
        /\ BlockOf(line, i) # 0 => more[BlockOf(line, i)].flag = "--vhost"
        /\ \A j \in VHostsTo(more, i) : j <= BlockOf(line, i)
    BY <1>1, <2>1, BlockFacts
  <2> QED
    BY <2>1, <2>2, BlockIs
<1>3. n + 1 \in Nat /\ n \in Nat
  BY <1>1
<1>4. CASE x.flag = "--vhost"
  <2>1. n + 1 \in 0 .. n + 1 /\ more[n + 1].flag = "--vhost"
    BY <1>1, <1>4
  <2>2. \A j \in VHostsTo(more, n + 1) : j <= n + 1
    BY <1>1 DEF VHostsTo
  <2>3. BlockOf(more, n + 1) = n + 1
    BY <1>3, <2>1, <2>2, BlockIs
  <2> QED
    BY <1>2, <1>4, <2>3 DEF n
<1>5. CASE x.flag # "--vhost"
  <2>1. VHostsTo(more, n + 1) = VHostsTo(line, n)
    BY <1>1, <1>5 DEF VHostsTo
  <2>2. /\ BlockOf(line, n) \in 0 .. n
        /\ BlockOf(line, n) # 0 => line[BlockOf(line, n)].flag = "--vhost"
        /\ \A j \in VHostsTo(more, n + 1) : j <= BlockOf(line, n)
    BY <1>1, <2>1, BlockFacts
  <2>3. /\ BlockOf(line, n) \in 0 .. n + 1
        /\ BlockOf(line, n) # 0 => more[BlockOf(line, n)].flag = "--vhost"
    BY <1>1, <2>2
  <2>4. BlockOf(more, n + 1) = BlockOf(line, n)
    BY <1>3, <2>2, <2>3, BlockIs
  <2> QED
    BY <1>2, <1>5, <2>4 DEF n
<1> QED
  BY <1>4, <1>5

LEMMA RouteMore ==
  ASSUME NEW line, NEW more, NEW x, OneMore(line, more, x)
  PROVE  /\ \A i \in 0 .. Len(line) : RouteAt(more, i) = RouteAt(line, i)
         /\ x.flag = "--vhost" => RouteAt(more, Len(line) + 1) = 0
         /\ x.flag = "--route" => RouteAt(more, Len(line) + 1) = Len(line) + 1
         /\ x.flag \notin {"--vhost", "--route"} =>
              RouteAt(more, Len(line) + 1) = RouteAt(line, Len(line))
<1> DEFINE n == Len(line)
<1>1. /\ n \in Nat /\ n + 1 \in Nat /\ \A i \in 1 .. n : more[i] = line[i]
      /\ more[n + 1] = x
  BY DEF OneMore
<1>2. /\ \A i \in 0 .. n : BlockOf(more, i) = BlockOf(line, i)
      /\ BlockOf(more, n + 1) = IF x.flag = "--vhost" THEN n + 1 ELSE BlockOf(line, n)
  BY BlockMore
<1> HIDE DEF n
<1>3. ASSUME NEW i \in 0 .. n PROVE RouteAt(more, i) = RouteAt(line, i)
  <2>1. i \in Nat /\ RoutesTo(more, i) = RoutesTo(line, i)
    BY <1>1, <1>2 DEF RoutesTo
  <2>2. /\ RouteAt(line, i) \in 0 .. i
        /\ RouteAt(line, i) # 0 => /\ line[RouteAt(line, i)].flag = "--route"
                                   /\ BlockOf(line, RouteAt(line, i)) = BlockOf(line, i)
        /\ \A j \in RoutesTo(more, i) : j <= RouteAt(line, i)
    BY <2>1, RouteFacts
  <2>3. RouteAt(line, i) # 0 => /\ more[RouteAt(line, i)].flag = "--route"
                                /\ BlockOf(more, RouteAt(line, i)) = BlockOf(more, i)
    <3>1. RouteAt(line, i) # 0 => RouteAt(line, i) \in 1 .. n /\ RouteAt(line, i) \in 0 .. n
      BY <1>1, <2>2
    <3> QED
      BY <1>1, <1>2, <2>2, <3>1
  <2> QED
    BY <2>1, <2>2, <2>3, RouteIs
<1>4. ASSUME x.flag = "--vhost" PROVE RouteAt(more, n + 1) = 0
  <2>1. ASSUME NEW j \in RoutesTo(more, n + 1) PROVE FALSE
    <3>1. j \in 1 .. n + 1 /\ more[j].flag = "--route" /\ BlockOf(more, j) = n + 1
      BY <1>2, <1>4 DEF RoutesTo
    <3>2. j \in 1 .. n
      BY <1>1, <1>4, <3>1
    <3>3. BlockOf(more, j) \in 0 .. j
      BY <3>2, BlockFacts
    <3> QED
      BY <1>1, <3>1, <3>2, <3>3
  <2>2. 0 \in 0 .. n + 1
    BY <1>1
  <2> QED
    BY <1>1, <2>1, <2>2, RouteIs
<1>5. ASSUME x.flag = "--route" PROVE RouteAt(more, n + 1) = n + 1
  <2>1. \A j \in RoutesTo(more, n + 1) : j <= n + 1
    BY <1>1 DEF RoutesTo
  <2>2. n + 1 \in 0 .. n + 1 /\ more[n + 1].flag = "--route"
    BY <1>1, <1>5
  <2> QED
    BY <1>1, <2>1, <2>2, RouteIs
<1>6. ASSUME x.flag \notin {"--vhost", "--route"} PROVE RouteAt(more, n + 1) = RouteAt(line, n)
  <2> DEFINE r == RouteAt(line, n)
  <2>1. /\ r \in 0 .. n
        /\ r # 0 => line[r].flag = "--route" /\ BlockOf(line, r) = BlockOf(line, n)
        /\ \A j \in RoutesTo(line, n) : j <= r
    BY <1>1, RouteFacts
  <2> HIDE DEF r
  <2>2. RoutesTo(more, n + 1) = RoutesTo(line, n)
    <3>1. BlockOf(more, n + 1) = BlockOf(line, n) /\ more[n + 1].flag # "--route"
      BY <1>1, <1>2, <1>6
    <3> QED
      BY <1>1, <1>2, <3>1 DEF RoutesTo
  <2>3. r \in 0 .. n + 1 /\ (r # 0 => r \in 1 .. n)
    BY <1>1, <2>1
  <2>4. r # 0 => more[r].flag = "--route" /\ BlockOf(more, r) = BlockOf(more, n + 1)
    BY <1>1, <1>2, <1>6, <2>1, <2>3
  <2> QED
    BY <1>1, <2>1, <2>2, <2>3, <2>4, RouteIs DEF r
<1> QED
  BY <1>3, <1>4, <1>5, <1>6 DEF n

\* The blocks of a line, of which the last is that of its last argument.
LEMMA BlocksMore ==
  ASSUME NEW line, NEW more, NEW x, OneMore(line, more, x)
  PROVE  /\ Blocks(line) \in SUBSET (0 .. Len(line))
         /\ \A b \in Blocks(line) : b <= BlockOf(line, Len(line))
         /\ \A b \in Blocks(line) : b <= BlockOf(more, Len(line) + 1)
         /\ Blocks(more) = Blocks(line) \cup {BlockOf(more, Len(line) + 1)}
         /\ Len(line) # 0 => BlockOf(line, Len(line)) \in Blocks(line)
         /\ Len(line) = 0 => Blocks(line) = {} /\ BlockOf(line, 0) = 0
<1> DEFINE n == Len(line)
<1>1. n \in Nat /\ n + 1 \in Nat /\ DOMAIN line = 1 .. n /\ DOMAIN more = 1 .. n + 1
  BY DEF OneMore
<1>2. /\ \A i \in 0 .. n : BlockOf(more, i) = BlockOf(line, i)
      /\ BlockOf(more, n + 1) = IF x.flag = "--vhost" THEN n + 1 ELSE BlockOf(line, n)
  BY BlockMore
<1> HIDE DEF n
<1>3. \A i \in 1 .. n : BlockOf(line, i) \in 0 .. n /\ BlockOf(line, i) <= BlockOf(line, n)
  <2>1. \A i \in 1 .. n : i \in Nat /\ i <= n /\ BlockOf(line, i) \in 0 .. i
    BY <1>1, BlockFacts
  <2> QED
    BY <1>1, <2>1, BlockGrows
<1>4. BlockOf(line, n) \in 0 .. n /\ BlockOf(line, n) <= BlockOf(more, n + 1)
  BY <1>1, <1>2, BlockFacts
<1>5. \A b \in Blocks(line) : b \in 0 .. n /\ b <= BlockOf(line, n)
  BY <1>1, <1>3 DEF Blocks
<1>6. BlockOf(more, n + 1) \in Nat
  BY <1>1, <1>2, <1>4
<1>7. \A b \in Blocks(line) : b <= BlockOf(more, n + 1)
  BY <1>1, <1>4, <1>5, <1>6
<1>8. Blocks(more) = Blocks(line) \cup {BlockOf(more, n + 1)}
  BY <1>1, <1>2 DEF Blocks
<1>9. n # 0 => BlockOf(line, n) \in Blocks(line)
  BY <1>1 DEF Blocks
<1>10. n = 0 => Blocks(line) = {} /\ BlockOf(line, 0) = 0
  BY <1>1, <1>4 DEF Blocks
<1> QED
  BY <1>5, <1>7, <1>8, <1>9, <1>10 DEF n

\* The paths of each block: --route adds one to the last.
LEMMA PathsMore ==
  ASSUME NEW line, NEW more, NEW x, OneMore(line, more, x)
  PROVE  /\ \A b : Paths(more, b) = Paths(line, b) \cup
                     (IF x.flag = "--route" /\ b = BlockOf(line, Len(line)) THEN {x.val} ELSE {})
         /\ \A b : b \notin Blocks(line) => Paths(line, b) = {}
<1> DEFINE n == Len(line)
<1>1. /\ n \in Nat /\ DOMAIN line = 1 .. n /\ DOMAIN more = 1 .. n + 1
      /\ \A i \in 1 .. n : more[i] = line[i]
      /\ more[n + 1] = x
  BY DEF OneMore
<1>2. /\ \A i \in 0 .. n : BlockOf(more, i) = BlockOf(line, i)
      /\ x.flag = "--route" => BlockOf(more, n + 1) = BlockOf(line, n)
  BY BlockMore
<1> HIDE DEF n
<1>3. ASSUME NEW b
      PROVE  Paths(more, b) = Paths(line, b) \cup
               (IF x.flag = "--route" /\ b = BlockOf(line, n) THEN {x.val} ELSE {})
  <2> DEFINE P(l) == {j \in DOMAIN l : l[j].flag = "--route" /\ BlockOf(l, j) = b}
  <2>1. P(more) = P(line) \cup (IF x.flag = "--route" /\ b = BlockOf(line, n) THEN {n + 1} ELSE {})
    BY <1>1, <1>2
  <2>2. \A j \in P(line) : more[j].val = line[j].val
    BY <1>1
  <2>3. /\ Paths(line, b) = {line[j].val : j \in P(line)}
        /\ Paths(more, b) = {more[j].val : j \in P(more)}
    BY DEF Paths
  <2> HIDE DEF P
  <2> QED
    BY <1>1, <2>1, <2>2, <2>3
<1>4. \A b : b \notin Blocks(line) => Paths(line, b) = {}
  BY DEF Blocks, Paths
<1> QED
  BY <1>3, <1>4 DEF n

-----------------------------------------------------------------------------
(* What is said of a route. *)

\* The next argument is about the route path of block b.
Concerns(line, b, path) ==
  /\ BlockOf(line, Len(line)) = b
  /\ RouteAt(line, Len(line)) # 0 /\ line[RouteAt(line, Len(line))].val = path

\* The flags whose values a route collects or keeps.
RouteFlags == {"--dest"} \cup Options \cup Collected \cup HeaderFlags

LEMMA PlacesMore ==
  ASSUME NEW line, NEW more, NEW x, OneMore(line, more, x),
         NEW b, NEW path, NEW flag \in RouteFlags
  PROVE  /\ Places(line, b, path, flag) \in SUBSET (1 .. Len(line))
         /\ Places(more, b, path, flag) = Places(line, b, path, flag) \cup
              (IF x.flag = flag /\ Concerns(line, b, path) THEN {Len(line) + 1} ELSE {})
<1> DEFINE n == Len(line)
           r == RouteAt(line, n)
<1>1. /\ n \in Nat /\ DOMAIN line = 1 .. n /\ DOMAIN more = 1 .. n + 1
      /\ \A i \in 1 .. n : more[i] = line[i]
      /\ more[n + 1] = x
  BY DEF OneMore
<1>2. flag # "--vhost" /\ flag # "--route"
  BY DEF RouteFlags, Options, Collected, HeaderFlags
<1>3. /\ \A i \in 0 .. n : BlockOf(more, i) = BlockOf(line, i)
      /\ \A i \in 0 .. n : RouteAt(more, i) = RouteAt(line, i)
      /\ x.flag = flag => BlockOf(more, n + 1) = BlockOf(line, n) /\ RouteAt(more, n + 1) = r
  BY <1>2, BlockMore, RouteMore
<1>4. \A i \in 0 .. n : RouteAt(line, i) \in 0 .. n
  <2>1. \A i \in 0 .. n : i \in Nat /\ RouteAt(line, i) \in 0 .. i
    BY <1>1, RouteFacts
  <2> QED
    BY <1>1, <2>1
<1>5. \A i \in 1 .. n : i \in Places(more, b, path, flag) <=> i \in Places(line, b, path, flag)
  <2>1. \A i \in 1 .. n : RouteAt(line, i) # 0 => RouteAt(line, i) \in 1 .. n
    BY <1>1, <1>4
  <2> HIDE DEF n
  <2> QED
    BY <1>1, <1>3, <2>1 DEF Places
<1>6. n + 1 \in Places(more, b, path, flag) <=> x.flag = flag /\ Concerns(line, b, path)
  <2>1. r # 0 => more[r].val = line[r].val
    BY <1>1, <1>4
  <2> QED
    BY <1>1, <1>3, <2>1 DEF Places, Concerns
<1>7. Places(line, b, path, flag) \in SUBSET (1 .. n) /\ Places(more, b, path, flag) \in SUBSET (1 .. n + 1)
  BY <1>1 DEF Places
<1> HIDE DEF n, r
<1>8. Places(more, b, path, flag) = Places(line, b, path, flag) \cup
        (IF x.flag = flag /\ Concerns(line, b, path) THEN {n + 1} ELSE {})
  BY <1>1, <1>5, <1>6, <1>7
<1> QED
  BY <1>7, <1>8 DEF n

\* The places up to one, and the k-th place.
Upto(S, i) == {j \in S : j <= i}
Nth(S, k) == {i \in S : Cardinality(Upto(S, i)) = k}

LEMMA ValuesDef ==
  ASSUME NEW line, NEW S
  PROVE  ValuesAt(line, S) = [k \in 1 .. Cardinality(S) |-> line[CHOOSE i \in Nth(S, k) : TRUE].val]
BY DEF ValuesAt, Nth, Upto

\* One more place at the end.
LEMMA NthMore ==
  ASSUME NEW n \in Nat, NEW S \in SUBSET (1 .. n)
  PROVE  LET T == S \cup {n + 1}
             c == Cardinality(S)
         IN  /\ c \in Nat /\ Cardinality(T) = c + 1
             /\ \A k \in 1 .. c : Nth(T, k) = Nth(S, k)
             /\ Nth(T, c + 1) = {n + 1}
<1> DEFINE T == S \cup {n + 1}
           c == Cardinality(S)
<1>1. IsFiniteSet(S) /\ c \in Nat
  <2>1. IsFiniteSet(1 .. n)
    BY FS_Interval
  <2> QED
    BY <2>1, FS_Subset, FS_CardinalityType
<1>2. n + 1 \notin S /\ Cardinality(T) = c + 1
  <2>1. n + 1 \notin S
    OBVIOUS
  <2> QED
    BY <1>1, <2>1, FS_AddElement
<1>3. ASSUME NEW i \in S
      PROVE  Upto(T, i) = Upto(S, i) /\ Cardinality(Upto(S, i)) \in 0 .. c
  <2>1. Upto(T, i) = Upto(S, i)
    BY DEF Upto
  <2>2. Upto(S, i) \in SUBSET S
    BY DEF Upto
  <2>3. IsFiniteSet(Upto(S, i)) /\ Cardinality(Upto(S, i)) <= c
    BY <1>1, <2>2, FS_Subset
  <2>4. Cardinality(Upto(S, i)) \in Nat
    BY <2>3, FS_CardinalityType
  <2> QED
    BY <1>1, <2>1, <2>3, <2>4
<1>4. Upto(T, n + 1) = T
  <2>1. \A j \in T : j <= n + 1
    OBVIOUS
  <2> HIDE DEF T
  <2> QED
    BY <2>1 DEF Upto
<1> HIDE DEF c
<1>5. ASSUME NEW k \in 1 .. c PROVE Nth(T, k) = Nth(S, k)
  <2>1. Cardinality(Upto(T, n + 1)) # k
    BY <1>1, <1>2, <1>4
  <2> QED
    BY <1>3, <2>1 DEF Nth
<1>6. Nth(T, c + 1) = {n + 1}
  <2>1. Cardinality(Upto(T, n + 1)) = c + 1
    BY <1>2, <1>4
  <2>2. \A i \in S : Cardinality(Upto(T, i)) # c + 1
    BY <1>1, <1>3
  <2> QED
    BY <2>1, <2>2 DEF Nth
<1> QED
  BY <1>1, <1>2, <1>5, <1>6 DEF c

\* There is a k-th place for every k up to their number.
LEMMA NthExists ==
  ASSUME NEW n \in Nat, NEW S \in SUBSET (1 .. n)
  PROVE  \A k \in 1 .. Cardinality(S) : Nth(S, k) # {} /\ Nth(S, k) \in SUBSET S
<1> DEFINE P(m) == S \cap (1 .. m)
           G == {m \in 0 .. n : \A k \in 1 .. Cardinality(P(m)) : Nth(P(m), k) # {}}
<1>1. 0 \in G
  <2>1. P(0) = {} /\ Cardinality(P(0)) = 0
    BY FS_EmptySet
  <2> QED
    BY <2>1
<1>2. ASSUME NEW m \in 0 .. n - 1, m \in G PROVE m + 1 \in G
  <2>1. m \in Nat /\ m + 1 \in 0 .. n /\ P(m) \in SUBSET (1 .. m)
    OBVIOUS
  <2>2. CASE m + 1 \in S
    <3> DEFINE c == Cardinality(P(m))
    <3>1. P(m + 1) = P(m) \cup {m + 1}
      BY <2>1, <2>2
    <3>2. \A k \in 1 .. c : Nth(P(m), k) # {}
      BY <1>2
    <3> HIDE DEF P
    <3>3. /\ c \in Nat /\ Cardinality(P(m + 1)) = c + 1
          /\ \A k \in 1 .. c : Nth(P(m + 1), k) = Nth(P(m), k)
          /\ Nth(P(m + 1), c + 1) = {m + 1}
      BY <2>1, <3>1, NthMore
    <3>4. \A k \in 1 .. c + 1 : Nth(P(m + 1), k) # {}
      BY <3>2, <3>3
    <3> QED
      BY <2>1, <3>3, <3>4
  <2>3. CASE m + 1 \notin S
    <3>1. P(m + 1) = P(m)
      BY <2>1, <2>3
    <3> QED
      BY <1>2, <2>1, <3>1
  <2> QED
    BY <2>2, <2>3
<1>3. 0 .. n \subseteq G
  <2> HIDE DEF G
  <2> QED
    BY <1>1, <1>2, UpTo
<1>4. P(n) = S
  OBVIOUS
<1>5. n \in G
  BY <1>3
<1>6. \A k \in 1 .. Cardinality(S) : Nth(S, k) # {}
  BY <1>4, <1>5
<1> QED
  BY <1>6 DEF Nth

\* One more place at the end is one more value at the end.
LEMMA ValuesMore ==
  ASSUME NEW line, NEW more, NEW x, OneMore(line, more, x), NEW S \in SUBSET (1 .. Len(line))
  PROVE  /\ IsSeq(ValuesAt(line, S))
         /\ ValuesAt(more, S) = ValuesAt(line, S)
         /\ ValuesAt(more, S \cup {Len(line) + 1}) = Append(ValuesAt(line, S), x.val)
<1> DEFINE n == Len(line)
           T == S \cup {n + 1}
           c == Cardinality(S)
           at(k) == CHOOSE i \in Nth(S, k) : TRUE
           v(k) == line[at(k)].val
           old == [k \in 1 .. c |-> v(k)]
<1>1. n \in Nat /\ (\A i \in 1 .. n : more[i] = line[i]) /\ more[n + 1] = x
  BY DEF OneMore
<1>2. S \in SUBSET (1 .. n)
  OBVIOUS
<1> HIDE DEF n
<1>3. /\ c \in Nat /\ Cardinality(T) = c + 1
      /\ \A k \in 1 .. c : Nth(T, k) = Nth(S, k)
      /\ Nth(T, c + 1) = {n + 1}
  BY <1>1, <1>2, NthMore
<1>4. \A k \in 1 .. c : at(k) \in 1 .. n
  <2>1. \A k \in 1 .. c : Nth(S, k) # {} /\ Nth(S, k) \in SUBSET S
    BY <1>1, <1>2, NthExists
  <2>2. \A N : N # {} => (CHOOSE i \in N : TRUE) \in N
    OBVIOUS
  <2>3. \A k \in 1 .. c : at(k) \in Nth(S, k)
    BY <2>1, <2>2
  <2> QED
    BY <1>2, <2>1, <2>3
<1>5. \A k \in 1 .. c : more[at(k)].val = v(k)
  BY <1>1, <1>4
<1>6. \A k \in 1 .. c : (CHOOSE i \in Nth(T, k) : TRUE) = at(k)
  BY <1>3
<1>7. (CHOOSE i \in Nth(T, c + 1) : TRUE) = n + 1
  BY <1>3
<1>8. /\ ValuesAt(line, S) = [k \in 1 .. c |-> v(k)]
      /\ ValuesAt(more, S) = [k \in 1 .. c |-> more[at(k)].val]
      /\ ValuesAt(more, T) = [k \in 1 .. Cardinality(T) |-> more[CHOOSE i \in Nth(T, k) : TRUE].val]
  BY ValuesDef
<1> HIDE DEF T, c, at, v
<1>9. old \in Seq({v(k) : k \in 1 .. c}) /\ Len(old) = c
  BY <1>3
<1>10. ValuesAt(line, S) = old /\ ValuesAt(more, S) = old
  BY <1>5, <1>8
<1>11. ValuesAt(more, T) = Append(old, x.val)
  <2> DEFINE w(k) == more[CHOOSE i \in Nth(T, k) : TRUE].val
             new == [k \in 1 .. c + 1 |-> w(k)]
  <2>1. \A k \in 1 .. c : w(k) = v(k)
    BY <1>5, <1>6
  <2>2. w(c + 1) = x.val
    BY <1>1, <1>7
  <2>3. ValuesAt(more, T) = new
    BY <1>3, <1>8
  <2> HIDE DEF w
  <2>4. new = Append(old, x.val)
    BY <1>3, <2>1, <2>2
  <2> QED
    BY <2>3, <2>4
<1>12. IsSeq(old)
  <2> HIDE DEF old
  <2> QED
    BY <1>9, SeqOfRange DEF IsSeq
<1> QED
  BY <1>10, <1>11, <1>12 DEF T, n

LEMMA SaidMore ==
  ASSUME NEW line, NEW more, NEW x, OneMore(line, more, x),
         NEW b, NEW path, NEW flag \in RouteFlags
  PROVE  /\ IsSeq(Said(line, b, path, flag))
         /\ Said(more, b, path, flag) =
              IF x.flag = flag /\ Concerns(line, b, path)
                THEN Append(Said(line, b, path, flag), x.val)
                ELSE Said(line, b, path, flag)
<1> DEFINE S == Places(line, b, path, flag)
<1>1. /\ S \in SUBSET (1 .. Len(line))
      /\ Places(more, b, path, flag) = S \cup
           (IF x.flag = flag /\ Concerns(line, b, path) THEN {Len(line) + 1} ELSE {})
  BY PlacesMore
<1>2. /\ Said(line, b, path, flag) = ValuesAt(line, S)
      /\ Said(more, b, path, flag) = ValuesAt(more, Places(more, b, path, flag))
  BY DEF Said
<1> HIDE DEF S
<1>3. /\ IsSeq(ValuesAt(line, S))
      /\ ValuesAt(more, S) = ValuesAt(line, S)
      /\ ValuesAt(more, S \cup {Len(line) + 1}) = Append(ValuesAt(line, S), x.val)
  BY <1>1, ValuesMore
<1>4. CASE x.flag = flag /\ Concerns(line, b, path)
  BY <1>1, <1>2, <1>3, <1>4
<1>5. CASE ~(x.flag = flag /\ Concerns(line, b, path))
  <2>1. Places(more, b, path, flag) = S
    BY <1>1, <1>5
  <2> QED
    BY <1>2, <1>3, <1>5, <2>1
<1> QED
  BY <1>4, <1>5

\* The last value of a flag counts.
LEMMA LastMore ==
  ASSUME NEW s, IsSeq(s), NEW e
  PROVE  /\ \A d : LastSaid(Append(s, e), d) = e
         /\ \A o : OptionSaid(o, Append(s, e)) =
                     IF o = "--load-balancer-mode" THEN NormalizeLBMode(e) ELSE e
         /\ \A n : HeaderSaid(Append(s, e), n) = IF e.name = n THEN e.kind ELSE HeaderSaid(s, n)
<1> DEFINE t == Append(s, e)
           m == Len(s)
<1>1. OneMore(s, t, e) /\ t # <<>>
  BY AppendOneMore, AppendAny
<1> HIDE DEF t
<1>2. /\ m \in Nat /\ DOMAIN s = 1 .. m /\ Len(t) = m + 1 /\ DOMAIN t = 1 .. m + 1
      /\ \A i \in 1 .. m : t[i] = s[i]
      /\ t[m + 1] = e
  BY <1>1 DEF OneMore
<1> HIDE DEF m
<1>3. \A d : LastSaid(t, d) = e
  BY <1>1, <1>2 DEF LastSaid
<1>4. \A o : OptionSaid(o, t) = IF o = "--load-balancer-mode" THEN NormalizeLBMode(e) ELSE e
  BY <1>1, <1>3 DEF OptionSaid, NormalizeLBMode
<1>5. ASSUME NEW n PROVE HeaderSaid(t, n) = IF e.name = n THEN e.kind ELSE HeaderSaid(s, n)
  <2> DEFINE a == {k \in DOMAIN s : s[k].name = n}
             c == {k \in DOMAIN t : t[k].name = n}
  <2>1. /\ HeaderSaid(s, n) = IF a = {} THEN "none" ELSE s[Max(a)].kind
        /\ HeaderSaid(t, n) = IF c = {} THEN "none" ELSE t[Max(c)].kind
    BY Zenon DEF HeaderSaid
  <2>2. a \in SUBSET (1 .. m) /\ c = a \cup (IF e.name = n THEN {m + 1} ELSE {})
    BY <1>2
  <2> HIDE DEF a, c
  <2>3. CASE e.name = n
    <3>1. m + 1 \in c /\ c \in SUBSET Nat /\ \A y \in c : y <= m + 1
      BY <1>2, <2>2, <2>3
    <3>2. Max(c) = m + 1
      BY <3>1, MaxIs
    <3> QED
      BY <1>2, <2>1, <2>3, <3>1, <3>2
  <2>4. CASE e.name # n
    <3>1. c = a
      BY <2>2, <2>4
    <3>2. a # {} => Max(a) \in 1 .. m
      BY <1>2, <2>2, MaxExists
    <3> QED
      BY <1>2, <2>1, <2>4, <3>1, <3>2
  <2> QED
    BY <2>3, <2>4
<1> QED
  BY <1>3, <1>4, <1>5 DEF t

-----------------------------------------------------------------------------
(* The route that is being built says what the command line said of it. *)

\* Where the route leads follows from a --dest it had when it was last flushed.
Led(r) ==
  /\ r.entries = <<>> => r.ups = <<>> /\ r.static = "none"
  /\ r.static # "none" => r.static \in Static /\ r.entries # <<>> /\ r.entries[1] = r.static
  /\ r.ups # <<>> => r.entries # <<>> /\ r.entries[1] \notin Static

Taken(r, line, b, path) ==
  /\ SettingsAsSaid(r, line, b, path)
  /\ Led(r) /\ Built(r)
  /\ r.opt = [o \in Options |-> r.opt[o]]

\* An argument about something else.
LEMMA SettingsSame ==
  ASSUME NEW line, NEW more, NEW x, OneMore(line, more, x), NEW b, NEW path,
         ~(x.flag \in RouteFlags /\ Concerns(line, b, path))
  PROVE  /\ \A r : SettingsAsSaid(r, line, b, path) <=> SettingsAsSaid(r, more, b, path)
         /\ \A r : Taken(r, line, b, path) => Taken(r, more, b, path)
<1>1. \A flag \in RouteFlags : Said(more, b, path, flag) = Said(line, b, path, flag)
  BY SaidMore
<1>2. \A r : SettingsAsSaid(r, line, b, path) <=> SettingsAsSaid(r, more, b, path)
  BY <1>1 DEF SettingsAsSaid, RouteFlags
<1> QED
  BY <1>2 DEF Taken

\* One about the route: only what is said with its flag changes.
LEMMA SaidOthers ==
  ASSUME NEW line, NEW more, NEW x, OneMore(line, more, x), NEW b, NEW path,
         x.flag \in RouteFlags, Concerns(line, b, path)
  PROVE  /\ IsSeq(Said(line, b, path, x.flag))
         /\ Said(more, b, path, x.flag) = Append(Said(line, b, path, x.flag), x.val)
         /\ \A flag \in RouteFlags \ {x.flag} : Said(more, b, path, flag) = Said(line, b, path, flag)
BY SaidMore

LEMMA TakenDest ==
  ASSUME NEW line, NEW more, NEW x, OneMore(line, more, x), NEW b, NEW path,
         x.flag = "--dest", Concerns(line, b, path), NEW r, Taken(r, line, b, path)
  PROVE  Taken([r EXCEPT !.entries = Append(@, x.val)], more, b, path)
<1> DEFINE s == [r EXCEPT !.entries = Append(@, x.val)]
           e == r.entries
           t == Append(e, x.val)
<1>1. /\ x.flag \in RouteFlags /\ x.flag \notin Options \cup Collected \cup HeaderFlags
      /\ Options \cup Collected \cup HeaderFlags \subseteq RouteFlags
  BY DEF RouteFlags, Options, Collected, HeaderFlags
<1>2. /\ Said(more, b, path, "--dest") = Append(Said(line, b, path, "--dest"), x.val)
      /\ \A flag \in Options \cup Collected \cup HeaderFlags :
           Said(more, b, path, flag) = Said(line, b, path, flag)
  BY <1>1, SaidOthers
<1>3. Built(s)
  BY DestBuilt DEF Taken
<1>4. /\ s.entries = t /\ s.static = r.static /\ s.ups = r.ups /\ s.opt = r.opt
      /\ s.many = r.many /\ s.add = r.add
  BY DEF Taken, Built, Shaped, IsRoute, RouteFields
<1>5. IsSeq(e) /\ e = Said(line, b, path, "--dest")
  BY DEF Taken, Built, Shaped, SettingsAsSaid
<1> HIDE DEF s
<1>6. SettingsAsSaid(s, more, b, path)
  BY <1>2, <1>4, <1>5 DEF SettingsAsSaid, Taken
<1>7. Led(s)
  <2>1. OneMore(e, t, x.val) /\ t # <<>>
    BY <1>5, AppendOneMore, AppendAny
  <2> HIDE DEF t
  <2>2. e # <<>> => t[1] = e[1]
    <3>1. Len(e) = 0 => e = <<>>
      BY <1>5, EmptySeq DEF IsSeq
    <3> QED
      BY <2>1, <3>1 DEF OneMore
  <2> QED
    BY <1>4, <2>1, <2>2 DEF Led, Taken
<1> QED
  BY <1>3, <1>4, <1>6, <1>7 DEF Taken, s

LEMMA TakenOption ==
  ASSUME NEW line, NEW more, NEW x, OneMore(line, more, x), NEW b, NEW path,
         x.flag \in Options, Concerns(line, b, path), NEW r, Taken(r, line, b, path),
         NEW val, val = IF x.flag = "--load-balancer-mode" THEN NormalizeLBMode(x.val) ELSE x.val
  PROVE  Taken([r EXCEPT !.opt[x.flag] = val], more, b, path)
<1> DEFINE f == x.flag
           s == [r EXCEPT !.opt[f] = val]
           old == r.opt
<1>1. f \in RouteFlags /\ f # "--dest" /\ f \notin Collected \cup HeaderFlags
  BY DEF RouteFlags, Options, Collected, HeaderFlags
<1>2. /\ IsSeq(Said(line, b, path, f)) /\ Said(more, b, path, f) = Append(Said(line, b, path, f), x.val)
      /\ \A flag \in RouteFlags \ {f} : Said(more, b, path, flag) = Said(line, b, path, flag)
  BY <1>1, SaidOthers
<1>3. Built(s)
  BY OptionBuilt DEF Taken
<1>4. /\ s.entries = r.entries /\ s.static = r.static /\ s.ups = r.ups
      /\ s.opt = [old EXCEPT ![f] = val] /\ s.many = r.many /\ s.add = r.add
  BY DEF Taken, Built, Shaped, IsRoute, RouteFields
<1> HIDE DEF s
<1>5. /\ s.opt = [o \in Options |-> s.opt[o]]
      /\ \A o \in Options : s.opt[o] = IF o = f THEN val ELSE old[o]
  <2>1. old = [o \in Options |-> old[o]]
    BY DEF Taken
  <2> HIDE DEF old, f
  <2> QED
    BY <1>4, <2>1
<1>6. OptionSaid(f, Said(more, b, path, f)) = val
  BY <1>2, LastMore
<1>7. SettingsAsSaid(s, more, b, path)
  <2>1. /\ "--dest" \in RouteFlags \ {f} /\ Collected \cup HeaderFlags \subseteq RouteFlags \ {f}
        /\ \A o \in Options \ {f} : o \in RouteFlags \ {f}
    BY <1>1 DEF RouteFlags
  <2> HIDE DEF f
  <2>2. s.entries = Said(more, b, path, "--dest")
    BY <1>2, <1>4, <2>1 DEF SettingsAsSaid, Taken
  <2>3. \A o \in Options : s.opt[o] = OptionSaid(o, Said(more, b, path, o))
    BY <1>2, <1>5, <1>6, <2>1 DEF SettingsAsSaid, Taken
  <2>4. \A o \in Collected : s.many[o] = Said(more, b, path, o)
    BY <1>2, <1>4, <2>1 DEF SettingsAsSaid, Taken
  <2>5. \A h \in HeaderFlags, n \in HeaderNames : s.add[h][n] = HeaderSaid(Said(more, b, path, h), n)
    BY <1>2, <1>4, <2>1 DEF SettingsAsSaid, Taken
  <2> QED
    BY <2>2, <2>3, <2>4, <2>5 DEF SettingsAsSaid
<1>8. Led(s)
  BY <1>4 DEF Led, Taken
<1> QED
  BY <1>3, <1>5, <1>7, <1>8 DEF Taken, s

LEMMA TakenCollect ==
  ASSUME NEW line, NEW more, NEW x, OneMore(line, more, x), NEW b, NEW path,
         x.flag \in Collected, Concerns(line, b, path), NEW r, Taken(r, line, b, path),
         NEW derived,
         x.val = "*" /\ x.flag = "--dest-del-header" => "DeleteHasWildcard" \in derived,
         x.val = "*" /\ x.flag = "--client-del-header" => "ClientDelHasWildcard" \in derived
  PROVE  Taken([r EXCEPT !.many[x.flag] = Append(@, x.val), !.flags = @ \cup derived], more, b, path)
<1> DEFINE f == x.flag
           s == [r EXCEPT !.many[f] = Append(@, x.val), !.flags = @ \cup derived]
           old == r.many
           new == Append(old[f], x.val)
<1>1. f \in RouteFlags /\ f # "--dest" /\ f \notin Options \cup HeaderFlags
  BY DEF RouteFlags, Options, Collected, HeaderFlags
<1>2. /\ Said(more, b, path, f) = Append(Said(line, b, path, f), x.val)
      /\ \A flag \in RouteFlags \ {f} : Said(more, b, path, flag) = Said(line, b, path, flag)
  BY <1>1, SaidOthers
<1>3. Built(s)
  BY CollectBuilt DEF Taken
<1>4. /\ s.entries = r.entries /\ s.static = r.static /\ s.ups = r.ups
      /\ s.opt = r.opt /\ s.many = [old EXCEPT ![f] = new] /\ s.add = r.add
  BY DEF Taken, Built, Shaped, IsRoute, RouteFields
<1> HIDE DEF s
<1>5. \A o \in Collected : s.many[o] = IF o = f THEN new ELSE old[o]
  <2>1. old = [o \in Collected |-> old[o]]
    BY DEF Taken, Built, Shaped
  <2> HIDE DEF old, f, new
  <2> QED
    BY <1>4, <2>1
<1>6. new = Said(more, b, path, f)
  BY <1>2 DEF Taken, SettingsAsSaid
<1> HIDE DEF new
<1>7. SettingsAsSaid(s, more, b, path)
  <2>1. /\ "--dest" \in RouteFlags \ {f} /\ Options \cup HeaderFlags \subseteq RouteFlags \ {f}
        /\ \A o \in Collected \ {f} : o \in RouteFlags \ {f}
    BY <1>1 DEF RouteFlags
  <2> HIDE DEF f
  <2>2. s.entries = Said(more, b, path, "--dest")
    BY <1>2, <1>4, <2>1 DEF SettingsAsSaid, Taken
  <2>3. \A o \in Options : s.opt[o] = OptionSaid(o, Said(more, b, path, o))
    BY <1>2, <1>4, <2>1 DEF SettingsAsSaid, Taken
  <2>4. \A o \in Collected : s.many[o] = Said(more, b, path, o)
    BY <1>2, <1>5, <1>6, <2>1 DEF SettingsAsSaid, Taken
  <2>5. \A h \in HeaderFlags, n \in HeaderNames : s.add[h][n] = HeaderSaid(Said(more, b, path, h), n)
    BY <1>2, <1>4, <2>1 DEF SettingsAsSaid, Taken
  <2> QED
    BY <2>2, <2>3, <2>4, <2>5 DEF SettingsAsSaid
<1>8. Led(s)
  BY <1>4 DEF Led, Taken
<1> QED
  BY <1>3, <1>4, <1>7, <1>8 DEF Taken, s

\* One more header is one more value of its name.
LEMMA AddedHeader ==
  ASSUME NEW add, add = [f \in HeaderFlags |-> [n \in HeaderNames |-> add[f][n]]],
         NEW flag \in HeaderFlags, NEW name, NEW kind
  PROVE  \A f \in HeaderFlags, n \in HeaderNames :
           [add EXCEPT ![flag] = [@ EXCEPT ![name] = kind]][f][n] =
             IF f = flag /\ n = name THEN kind ELSE add[f][n]
<1> DEFINE own == add[flag]
           new == [own EXCEPT ![name] = kind]
           added == [add EXCEPT ![flag] = new]
<1>1. own = [n \in HeaderNames |-> own[n]]
  OBVIOUS
<1> HIDE DEF own
<1>2. \A n \in HeaderNames : new[n] = IF n = name THEN kind ELSE own[n]
  BY <1>1
<1> HIDE DEF new
<1>3. \A f \in HeaderFlags : added[f] = IF f = flag THEN new ELSE add[f]
  OBVIOUS
<1> HIDE DEF added
<1>4. \A f \in HeaderFlags, n \in HeaderNames :
        added[f][n] = IF f = flag /\ n = name THEN kind ELSE add[f][n]
  BY <1>2, <1>3 DEF own
<1> QED
  BY <1>4 DEF added, new, own

LEMMA TakenHeader ==
  ASSUME NEW line, NEW more, NEW x, OneMore(line, more, x), NEW b, NEW path,
         x.flag \in HeaderFlags, Concerns(line, b, path), NEW r, Taken(r, line, b, path)
  PROVE  Taken([r EXCEPT !.add[x.flag][x.val.name] = x.val.kind,
                         !.flags = @ \cup HeaderDerived(x.flag, x.val.kind)], more, b, path)
<1> DEFINE f == x.flag
           name == x.val.name
           kind == x.val.kind
           derived == HeaderDerived(f, kind)
           s == [r EXCEPT !.add[f][name] = kind, !.flags = @ \cup derived]
           old == r.add
<1>1. f \in RouteFlags /\ f # "--dest" /\ f \notin Options \cup Collected
  BY DEF RouteFlags, Options, Collected, HeaderFlags
<1>2. /\ IsSeq(Said(line, b, path, f)) /\ Said(more, b, path, f) = Append(Said(line, b, path, f), x.val)
      /\ \A flag \in RouteFlags \ {f} : Said(more, b, path, flag) = Said(line, b, path, flag)
  BY <1>1, SaidOthers
<1>3. Built(s)
  BY HeaderBuilt DEF Taken
<1> HIDE DEF derived
<1>4. /\ s.entries = r.entries /\ s.static = r.static /\ s.ups = r.ups
      /\ s.opt = r.opt /\ s.many = r.many /\ s.add = [old EXCEPT ![f] = [@ EXCEPT ![name] = kind]]
  BY DEF Taken, Built, Shaped, IsRoute, RouteFields
<1> HIDE DEF s
<1>5. \A h \in HeaderFlags, n \in HeaderNames :
        s.add[h][n] = IF h = f /\ n = name THEN kind ELSE old[h][n]
  <2>1. old = [h \in HeaderFlags |-> [n \in HeaderNames |-> old[h][n]]]
    BY DEF Taken, Built, Shaped
  <2> HIDE DEF old, f, name, kind
  <2>2. f \in HeaderFlags
    BY DEF f
  <2> QED
    BY <1>4, <2>1, <2>2, AddedHeader
<1>6. \A n \in HeaderNames : HeaderSaid(Said(more, b, path, f), n) =
        IF name = n THEN kind ELSE HeaderSaid(Said(line, b, path, f), n)
  BY <1>2, LastMore
<1>7. SettingsAsSaid(s, more, b, path)
  <2>1. /\ "--dest" \in RouteFlags \ {f} /\ Options \cup Collected \subseteq RouteFlags \ {f}
        /\ \A h \in HeaderFlags \ {f} : h \in RouteFlags \ {f}
    BY <1>1 DEF RouteFlags
  <2> HIDE DEF f, name, kind
  <2>2. s.entries = Said(more, b, path, "--dest")
    BY <1>2, <1>4, <2>1 DEF SettingsAsSaid, Taken
  <2>3. \A o \in Options : s.opt[o] = OptionSaid(o, Said(more, b, path, o))
    BY <1>2, <1>4, <2>1 DEF SettingsAsSaid, Taken
  <2>4. \A o \in Collected : s.many[o] = Said(more, b, path, o)
    BY <1>2, <1>4, <2>1 DEF SettingsAsSaid, Taken
  <2>5. \A h \in HeaderFlags, n \in HeaderNames : s.add[h][n] = HeaderSaid(Said(more, b, path, h), n)
    <3>1. \A h \in HeaderFlags, n \in HeaderNames : old[h][n] = HeaderSaid(Said(line, b, path, h), n)
      BY DEF SettingsAsSaid, Taken
    <3> HIDE DEF old
    <3>2. \A h \in HeaderFlags \ {f} : Said(more, b, path, h) = Said(line, b, path, h)
      BY <1>2, <2>1
    <3> QED
      BY <1>5, <1>6, <3>1, <3>2
  <2> QED
    BY <2>2, <2>3, <2>4, <2>5 DEF SettingsAsSaid
<1>8. Led(s)
  BY <1>4 DEF Led, Taken
<1> QED
  BY <1>3, <1>4, <1>7, <1>8 DEF Taken, s, derived

\* A path that its block has not named: nothing is said of it yet.
LEMMA TakenEmpty ==
  ASSUME NEW line, IsSeq(line), NEW b, NEW path, path \notin Paths(line, b)
  PROVE  Taken(EmptyRoute, line, b, path)
<1>1. \A flag : Places(line, b, path, flag) = {}
  <2> SUFFICES ASSUME NEW flag, NEW i \in Places(line, b, path, flag) PROVE FALSE
    OBVIOUS
  <2> DEFINE r == RouteAt(line, i)
  <2>1. DOMAIN line = 1 .. Len(line) /\ Len(line) \in Nat
    BY LenProperties DEF IsSeq
  <2>2. i \in DOMAIN line /\ BlockOf(line, i) = b /\ r # 0 /\ line[r].val = path
    BY DEF Places
  <2>3. r \in 0 .. i /\ line[r].flag = "--route" /\ BlockOf(line, r) = b
    BY <2>1, <2>2, RouteFacts
  <2>4. r \in DOMAIN line
    BY <2>1, <2>2, <2>3
  <2> QED
    BY <2>2, <2>3, <2>4 DEF Paths
<1>2. \A flag : Said(line, b, path, flag) = <<>>
  <2>1. Cardinality({}) = 0
    BY FS_EmptySet
  <2>2. ValuesAt(line, {}) = <<>>
    BY <2>1, ValuesDef
  <2> QED
    BY <1>1, <2>2 DEF Said
<1>3. /\ EmptyRoute.entries = <<>> /\ EmptyRoute.static = "none" /\ EmptyRoute.ups = <<>>
      /\ EmptyRoute.opt = [o \in Options |-> Unset]
      /\ EmptyRoute.many = [o \in Collected |-> <<>>]
      /\ EmptyRoute.add = [f \in HeaderFlags |-> [n \in HeaderNames |-> "none"]]
  BY DEF EmptyRoute
<1>4. \A n : HeaderSaid(<<>>, n) = "none"
  BY DEF HeaderSaid
<1>5. \A o : OptionSaid(o, <<>>) = Unset
  BY DEF OptionSaid, LastSaid
<1>6. SettingsAsSaid(EmptyRoute, line, b, path)
  BY <1>2, <1>3, <1>4, <1>5 DEF SettingsAsSaid
<1>7. Led(EmptyRoute)
  BY <1>3 DEF Led
<1> QED
  BY <1>3, <1>6, <1>7, EmptyBuilt DEF Taken

\* flushRoute: it leads where its --dest say.
LEMMA TakenFlushed ==
  ASSUME NEW line, NEW b, NEW path, NEW r, Taken(r, line, b, path), ~DestError(r.entries)
  PROVE  LET s == ApplyDestEntries(r, r.entries)
         IN  Taken(s, line, b, path) /\ LeadsAsSaid(s)
<1> DEFINE e == r.entries
           s == ApplyDestEntries(r, e)
<1> SUFFICES Taken(s, line, b, path) /\ LeadsAsSaid(s)
  OBVIOUS
<1>1. Built(s)
  BY FlushBuilt DEF Taken
<1>2. IsRoute(r) /\ IsSeq(e)
  BY DEF Taken, Built, Shaped
<1>3. /\ s.entries = e /\ s.opt = r.opt /\ s.many = r.many /\ s.add = r.add
      /\ \/ e = <<>> /\ s = r
         \/ Len(e) = 1 /\ e[1] \in Static /\ s.static = e[1] /\ s.ups = r.ups
         \/ e # <<>> /\ ~(Len(e) = 1 /\ e[1] \in Static) /\ s.static = r.static /\ s.ups = e
  <2> USE DEF IsRoute, RouteFields
  <2>1. CASE e = <<>>
    BY <2>1, <1>2 DEF ApplyDestEntries
  <2>2. CASE e # <<>> /\ Len(e) = 1 /\ e[1] \in Static
    <3>1. s = [r EXCEPT !.static = e[1]]
      BY <2>2 DEF ApplyDestEntries
    <3> HIDE DEF s
    <3> QED
      BY <1>2, <2>2, <3>1
  <2>3. CASE e # <<>> /\ ~(Len(e) = 1 /\ e[1] \in Static)
    <3>1. s = [r EXCEPT !.ups = e]
      BY <2>3 DEF ApplyDestEntries
    <3> HIDE DEF s
    <3> QED
      BY <1>2, <2>3, <3>1
  <2> QED
    BY <2>1, <2>2, <2>3
<1> HIDE DEF s
<1>4. SettingsAsSaid(s, line, b, path)
  BY <1>3 DEF Taken, SettingsAsSaid
<1>5. Led(r)
  BY DEF Taken
<1>6. /\ Len(e) \in Nat /\ DOMAIN e = 1 .. Len(e) /\ (Len(e) = 0 => e = <<>>)
      /\ e = [i \in 1 .. Len(e) |-> e[i]]
  BY <1>2, LenProperties, EmptySeq DEF IsSeq
<1>7. Len(e) > 1 => \A i \in DOMAIN e : e[i] \notin Static
  BY DEF DestError
<1> HIDE DEF e
<1> SUFFICES LeadsAsSaid(s) /\ Led(s)
  BY <1>1, <1>3, <1>4 DEF Taken
<1>8. CASE e = <<>>
  <2>1. s.ups = <<>> /\ s.static = "none" /\ LastSaid(s.entries, "none") = "none"
    BY <1>3, <1>5, <1>8 DEF Led, LastSaid, e
  <2> QED
    BY <1>3, <1>8, <2>1 DEF LeadsAsSaid, Led
<1>9. CASE Len(e) = 1 /\ e[1] \in Static
  <2>1. e # <<>> /\ e = <<e[1]>>
    BY <1>2, <1>9, EmptySeq DEF IsSeq
  <2>2. s.static = e[1] /\ s.ups = r.ups /\ r.ups = <<>>
    BY <1>3, <1>5, <1>9, <2>1 DEF Led, e
  <2>3. e \in {<<>>, <<"status">>, <<"file">>} /\ LastSaid(s.entries, "none") = e[1]
    BY <1>3, <1>9, <2>1 DEF Static, LastSaid
  <2> QED
    BY <1>3, <1>9, <2>1, <2>2, <2>3 DEF LeadsAsSaid, Led
<1>10. CASE e # <<>> /\ ~(Len(e) = 1 /\ e[1] \in Static)
  <2>1. e[1] \notin Static
    <3>1. Len(e) # 0 /\ (Len(e) # 1 => Len(e) > 1)
      BY <1>6, <1>10
    <3>2. 1 \in DOMAIN e
      BY <1>6, <3>1
    <3> QED
      BY <1>7, <1>10, <3>1, <3>2
  <2>2. s.static = r.static /\ s.ups = e /\ r.static = "none"
    BY <1>3, <1>5, <1>10, <2>1 DEF Led, e
  <2>3. e \notin {<<>>, <<"status">>, <<"file">>}
    BY <1>10, <2>1 DEF Static
  <2> QED
    BY <1>3, <1>10, <2>1, <2>2, <2>3 DEF LeadsAsSaid, Led
<1> QED
  BY <1>3, <1>6, <1>8, <1>9, <1>10

-----------------------------------------------------------------------------
(* The TLS flags. *)

\* The places of a TLS flag that falls to a block.
TlsOwn(line, b, f) == {i \in DOMAIN line : line[i].flag = f /\ BlockOf(line, i) \in TlsFrom(line, b)}

LEMMA TlsDef ==
  ASSUME NEW tls, NEW line, NEW b
  PROVE  TlsAsSaid(tls, line, b) <=>
           \A f \in TlsFlags : tls[f] = IF TlsOwn(line, b, f) = {} THEN Unset
                                        ELSE line[Max(TlsOwn(line, b, f))].val
BY Zenon DEF TlsAsSaid, TlsOwn

\* The block of the last argument.
LastBlock(line) == BlockOf(line, Len(line))

LEMMA LastBlockMore ==
  ASSUME NEW line, NEW more, NEW x, OneMore(line, more, x)
  PROVE  /\ LastBlock(line) \in 0 .. Len(line)
         /\ LastBlock(more) = IF x.flag = "--vhost" THEN Len(line) + 1 ELSE LastBlock(line)
         /\ LastBlock(more) = BlockOf(more, Len(line) + 1)
         /\ Blocks(line) \in SUBSET (0 .. Len(line)) /\ Blocks(more) = Blocks(line) \cup {LastBlock(more)}
         /\ \A b \in Blocks(line) : b <= LastBlock(line) /\ b <= LastBlock(more)
         /\ Len(line) # 0 => LastBlock(line) \in Blocks(line)
         /\ Len(line) = 0 => Blocks(line) = {} /\ LastBlock(line) = 0
         /\ \A b : Paths(more, b) = Paths(line, b) \cup
                     (IF x.flag = "--route" /\ b = LastBlock(line) THEN {x.val} ELSE {})
         /\ \A b : b \notin Blocks(line) => Paths(line, b) = {}
<1>1. Len(line) \in Nat /\ Len(more) = Len(line) + 1
  BY DEF OneMore
<1>2. LastBlock(more) = BlockOf(more, Len(line) + 1)
  BY <1>1 DEF LastBlock
<1>3. /\ LastBlock(line) \in 0 .. Len(line)
      /\ LastBlock(more) = IF x.flag = "--vhost" THEN Len(line) + 1 ELSE LastBlock(line)
  BY <1>1, <1>2, BlockFacts, BlockMore DEF LastBlock
<1>4. /\ Blocks(line) \in SUBSET (0 .. Len(line)) /\ Blocks(more) = Blocks(line) \cup {LastBlock(more)}
      /\ \A b \in Blocks(line) : b <= LastBlock(line) /\ b <= LastBlock(more)
      /\ Len(line) # 0 => LastBlock(line) \in Blocks(line)
  BY <1>2, BlocksMore DEF LastBlock
<1>5. Len(line) = 0 => Blocks(line) = {} /\ LastBlock(line) = 0
  BY <1>2, BlocksMore DEF LastBlock
<1>6. /\ \A b : Paths(more, b) = Paths(line, b) \cup
                   (IF x.flag = "--route" /\ b = LastBlock(line) THEN {x.val} ELSE {})
      /\ \A b : b \notin Blocks(line) => Paths(line, b) = {}
  BY PathsMore DEF LastBlock
<1> QED
  BY <1>2, <1>3, <1>4, <1>5, <1>6

\* The block of the next argument gets those of the blocks before it that have
\* no routes; an older block keeps its own.
LEMMA TlsFromMore ==
  ASSUME NEW line, NEW more, NEW x, OneMore(line, more, x)
  PROVE  LET old == LastBlock(line)
             new == LastBlock(more)
         IN  /\ x.flag # "--vhost" => new = old /\ TlsFrom(more, new) = TlsFrom(line, old) \cup {new}
             /\ x.flag = "--vhost" =>
                  TlsFrom(more, new) =
                    (IF Paths(line, old) = {} THEN TlsFrom(line, old) ELSE {}) \cup {new}
             /\ \A b \in Blocks(line) \ {new} : TlsFrom(more, b) = TlsFrom(line, b) /\ new \notin TlsFrom(line, b)
<1> DEFINE n == Len(line)
           old == LastBlock(line)
           new == LastBlock(more)
<1>1. n \in Nat /\ n + 1 \in Nat
  BY DEF OneMore
<1>2. /\ Blocks(line) \in SUBSET (0 .. n) /\ Blocks(more) = Blocks(line) \cup {new}
      /\ \A b \in Blocks(line) : b <= old /\ b <= new
  BY LastBlockMore
<1>3. old \in 0 .. n /\ new = IF x.flag = "--vhost" THEN n + 1 ELSE old
  BY LastBlockMore
<1>4. /\ \A b : b # old \/ x.flag # "--route" => Paths(more, b) = Paths(line, b)
      /\ \A b : b \notin Blocks(line) => Paths(line, b) = {}
  <2>1. /\ \A b : Paths(more, b) = Paths(line, b) \cup
                     (IF x.flag = "--route" /\ b = old THEN {x.val} ELSE {})
        /\ \A b : b \notin Blocks(line) => Paths(line, b) = {}
    BY LastBlockMore
  <2> HIDE DEF old
  <2>2. ASSUME NEW b, b # old \/ x.flag # "--route" PROVE Paths(more, b) = Paths(line, b)
    BY <2>1, <2>2
  <2> QED
    BY <2>1, <2>2
<1> HIDE DEF n, old, new
<1>5. ASSUME x.flag # "--vhost" PROVE TlsFrom(more, new) = TlsFrom(line, old) \cup {new}
  <2>1. \A d \in Blocks(line) : d < new => Paths(more, d) = Paths(line, d)
    <3>1. \A d \in Blocks(line) : d < new => d # old
      BY <1>1, <1>3, <1>5
    <3> QED
      BY <1>4, <3>1
  <2> QED
    BY <1>1, <1>2, <1>3, <1>5, <2>1 DEF TlsFrom
<1>6. ASSUME x.flag = "--vhost"
      PROVE  TlsFrom(more, new) = (IF Paths(line, old) = {} THEN TlsFrom(line, old) ELSE {}) \cup {new}
  <2>1. \A b : Paths(more, b) = Paths(line, b)
    BY <1>4, <1>6
  <2>2. new = n + 1 /\ \A c \in Blocks(line) : c <= new /\ c < new
    BY <1>1, <1>2, <1>3, <1>6
  <2>3. TlsFrom(more, new) =
          {c \in Blocks(line) : \A d \in Blocks(line) : c <= d => Paths(line, d) = {}} \cup {new}
    BY <1>1, <1>2, <2>1, <2>2 DEF TlsFrom
  <2>4. CASE Paths(line, old) = {}
    <3>1. TlsFrom(line, old) =
            {c \in Blocks(line) : \A d \in Blocks(line) : c <= d => Paths(line, d) = {}}
      BY <1>1, <1>2, <1>3, <2>4 DEF TlsFrom
    <3> QED
      BY <2>3, <2>4, <3>1
  <2>5. CASE Paths(line, old) # {}
    <3>1. old \in Blocks(line)
      BY <1>4, <2>5
    <3>2. {c \in Blocks(line) : \A d \in Blocks(line) : c <= d => Paths(line, d) = {}} = {}
      BY <1>2, <2>5, <3>1
    <3> QED
      BY <2>3, <2>5, <3>2
  <2> QED
    BY <2>4, <2>5
<1>7. ASSUME NEW b \in Blocks(line) \ {new}
      PROVE  TlsFrom(more, b) = TlsFrom(line, b) /\ new \notin TlsFrom(line, b)
  <2>1. b < new /\ b \in 0 .. n
    BY <1>1, <1>2, <1>3
  <2>2. \A d \in Blocks(line) : d < b => Paths(more, d) = Paths(line, d)
    <3>1. b <= old /\ old \in Nat
      BY <1>1, <1>2, <1>3
    <3>2. \A d \in Blocks(line) : d < b => d # old
      BY <2>1, <3>1
    <3> QED
      BY <1>4, <3>2
  <2>3. new \in Nat /\ ~(new <= b) /\ ~(new < b)
    BY <1>1, <1>3, <2>1
  <2> QED
    BY <1>2, <2>1, <2>2, <2>3 DEF TlsFrom
<1> QED
  BY <1>3, <1>5, <1>6, <1>7 DEF old, new

\* So a TLS flag sets what its block has, --vhost hands on or drops it, and
\* nothing changes for an older block.
LEMMA TlsMore ==
  ASSUME NEW line, NEW more, NEW x, OneMore(line, more, x), NEW tls
  PROVE  LET old == LastBlock(line)
             new == LastBlock(more)
         IN
         /\ /\ x.flag \in TlsFlags /\ tls = [f \in TlsFlags |-> tls[f]]
            /\ TlsAsSaid(tls, line, old)
            => TlsAsSaid([tls EXCEPT ![x.flag] = x.val], more, new)
         /\ x.flag \notin TlsFlags \cup {"--vhost"} /\ TlsAsSaid(tls, line, old)
            => TlsAsSaid(tls, more, new)
         /\ x.flag = "--vhost" /\ Paths(line, old) = {} /\ TlsAsSaid(tls, line, old)
            => TlsAsSaid(tls, more, new)
         /\ x.flag = "--vhost" /\ Paths(line, old) # {} => TlsAsSaid(NoTLS, more, new)
         /\ \A b \in Blocks(line) \ {new} : TlsAsSaid(tls, line, b) => TlsAsSaid(tls, more, b)
<1> DEFINE n == Len(line)
           old == LastBlock(line)
           new == LastBlock(more)
           B == Blocks(line)
<1>1. /\ n \in Nat /\ DOMAIN line = 1 .. n /\ DOMAIN more = 1 .. n + 1
      /\ \A i \in 1 .. n : more[i] = line[i]
      /\ more[n + 1] = x
  BY DEF OneMore
<1>2. /\ \A i \in 1 .. n : BlockOf(more, i) = BlockOf(line, i)
      /\ new = IF x.flag = "--vhost" THEN n + 1 ELSE old
      /\ BlockOf(more, n + 1) = new
  BY <1>1, BlockMore, LastBlockMore
<1>3. /\ x.flag # "--vhost" => TlsFrom(more, new) = TlsFrom(line, old) \cup {new}
      /\ x.flag = "--vhost" =>
           TlsFrom(more, new) =
             (IF Paths(line, old) = {} THEN TlsFrom(line, old) ELSE {}) \cup {new}
      /\ \A b \in B \ {new} : TlsFrom(more, b) = TlsFrom(line, b) /\ new \notin TlsFrom(line, b)
  BY TlsFromMore
<1>4. /\ B \in SUBSET (0 .. n) /\ \A i \in 1 .. n : BlockOf(line, i) \in B
      /\ old \in B => old \in TlsFrom(line, old)
  <2>1. B \in SUBSET (0 .. n) /\ \A i \in 1 .. n : BlockOf(line, i) \in B
    BY <1>1, BlocksMore DEF Blocks
  <2> QED
    BY <2>1 DEF TlsFrom
<1>5. BlockOf(more, n + 1) = new
  BY <1>2
<1> HIDE DEF n, B, old, new
<1>6. \A b, f : TlsOwn(line, b, f) \in SUBSET (1 .. n)
  BY <1>1 DEF TlsOwn
\* The places, after one more argument.
<1>7. \A f \in TlsFlags : x.flag # "--vhost" =>
        TlsOwn(more, new, f) = TlsOwn(line, old, f) \cup (IF x.flag = f THEN {n + 1} ELSE {})
  <2> SUFFICES ASSUME NEW f \in TlsFlags, x.flag # "--vhost"
               PROVE  TlsOwn(more, new, f) = TlsOwn(line, old, f) \cup (IF x.flag = f THEN {n + 1} ELSE {})
    OBVIOUS
  <2>1. \A i \in 1 .. n : BlockOf(line, i) \in TlsFrom(more, new) <=> BlockOf(line, i) \in TlsFrom(line, old)
    BY <1>2, <1>3, <1>4
  <2>2. new \in TlsFrom(more, new)
    BY <1>3
  <2> QED
    BY <1>1, <1>2, <1>5, <2>1, <2>2 DEF TlsOwn
<1>8. \A f \in TlsFlags : x.flag = "--vhost" =>
        TlsOwn(more, new, f) = IF Paths(line, old) = {} THEN TlsOwn(line, old, f) ELSE {}
  <2> SUFFICES ASSUME NEW f \in TlsFlags, x.flag = "--vhost"
               PROVE  TlsOwn(more, new, f) = IF Paths(line, old) = {} THEN TlsOwn(line, old, f) ELSE {}
    OBVIOUS
  <2>1. more[n + 1].flag # f
    BY <1>1 DEF TlsFlags
  <2>2. \A i \in 1 .. n : BlockOf(line, i) # new
    BY <1>1, <1>2, <1>4
  <2>3. \A i \in 1 .. n : BlockOf(line, i) \in TlsFrom(more, new) <=>
                            Paths(line, old) = {} /\ BlockOf(line, i) \in TlsFrom(line, old)
    BY <1>3, <2>2
  <2>4. \A i : i \in TlsOwn(more, new, f) <=> i \in 1 .. n /\ i \in TlsOwn(more, new, f)
    BY <1>1, <2>1 DEF TlsOwn
  <2>5. \A i \in 1 .. n : i \in TlsOwn(more, new, f) <=>
                            Paths(line, old) = {} /\ i \in TlsOwn(line, old, f)
    BY <1>1, <1>2, <2>3 DEF TlsOwn
  <2> QED
    BY <1>6, <2>4, <2>5
<1>9. \A f \in TlsFlags : \A b \in B \ {new} : TlsOwn(more, b, f) = TlsOwn(line, b, f)
  BY <1>1, <1>2, <1>3, <1>5 DEF TlsOwn
\* So the values.
<1>10. ASSUME NEW b, NEW c, \A f \in TlsFlags : TlsOwn(more, c, f) = TlsOwn(line, b, f), TlsAsSaid(tls, line, b)
       PROVE  TlsAsSaid(tls, more, c)
  <2>1. \A f \in TlsFlags : TlsOwn(line, b, f) # {} => Max(TlsOwn(line, b, f)) \in 1 .. n
    BY <1>1, <1>6, MaxExists
  <2> QED
    BY <1>1, <1>10, <2>1, TlsDef
<1>11. ASSUME x.flag \in TlsFlags, tls = [f \in TlsFlags |-> tls[f]], TlsAsSaid(tls, line, old)
       PROVE  TlsAsSaid([tls EXCEPT ![x.flag] = x.val], more, new)
  <2> DEFINE t == [tls EXCEPT ![x.flag] = x.val]
  <2>1. \A f \in TlsFlags : t[f] = IF f = x.flag THEN x.val ELSE tls[f]
    BY <1>11
  <2> HIDE DEF t
  <2>2. x.flag # "--vhost"
    BY <1>11 DEF TlsFlags
  <2>3. ASSUME NEW f \in TlsFlags
        PROVE  t[f] = IF TlsOwn(more, new, f) = {} THEN Unset ELSE more[Max(TlsOwn(more, new, f))].val
    <3>1. CASE f = x.flag
      <4> DEFINE S == TlsOwn(more, new, f)
      <4>1. S = TlsOwn(line, old, f) \cup {n + 1} /\ TlsOwn(line, old, f) \in SUBSET (1 .. n)
        BY <1>6, <1>7, <2>2, <3>1
      <4> HIDE DEF S
      <4>2. S \in SUBSET Nat /\ n + 1 \in S /\ \A y \in S : y <= n + 1
        BY <1>1, <4>1
      <4>3. Max(S) = n + 1
        BY <4>2, MaxIs
      <4> QED
        BY <1>1, <2>1, <3>1, <4>2, <4>3 DEF S
    <3>2. CASE f # x.flag
      <4>1. TlsOwn(more, new, f) = TlsOwn(line, old, f)
        BY <1>7, <2>2, <3>2
      <4>2. TlsOwn(line, old, f) # {} => Max(TlsOwn(line, old, f)) \in 1 .. n
        BY <1>1, <1>6, MaxExists
      <4>3. tls[f] = IF TlsOwn(line, old, f) = {} THEN Unset ELSE line[Max(TlsOwn(line, old, f))].val
        BY <1>11, TlsDef
      <4> QED
        BY <1>1, <2>1, <3>2, <4>1, <4>2, <4>3
    <3> QED
      BY <3>1, <3>2
  <2>4. TlsAsSaid(t, more, new)
    BY <2>3, TlsDef
  <2> QED
    BY <2>4 DEF t
<1>12. ASSUME x.flag = "--vhost", Paths(line, old) # {} PROVE TlsAsSaid(NoTLS, more, new)
  <2>1. \A f \in TlsFlags : TlsOwn(more, new, f) = {} /\ NoTLS[f] = Unset
    BY <1>8, <1>12 DEF NoTLS
  <2> QED
    BY <2>1, TlsDef
<1>13. ASSUME x.flag \notin TlsFlags \cup {"--vhost"}, TlsAsSaid(tls, line, old) PROVE TlsAsSaid(tls, more, new)
  <2>1. \A f \in TlsFlags : TlsOwn(more, new, f) = TlsOwn(line, old, f)
    BY <1>7, <1>13
  <2> QED
    BY <1>10, <1>13, <2>1
<1>14. ASSUME x.flag = "--vhost", Paths(line, old) = {}, TlsAsSaid(tls, line, old) PROVE TlsAsSaid(tls, more, new)
  <2>1. \A f \in TlsFlags : TlsOwn(more, new, f) = TlsOwn(line, old, f)
    BY <1>8, <1>14
  <2> QED
    BY <1>10, <1>14, <2>1
<1>15. \A b \in B \ {new} : TlsAsSaid(tls, line, b) => TlsAsSaid(tls, more, b)
  BY <1>9, <1>10
<1> QED
  BY <1>11, <1>12, <1>13, <1>14, <1>15 DEF B, old, new

-----------------------------------------------------------------------------
(* The virtual hosts. *)

\* The catch-alls of the file, the virtual hosts that blocks make, and where
\* those of a block are.
Stars(base) == {i \in DOMAIN base : "*" \in base[i].domains}
First(base) == IF Stars(base) = {} THEN 0 ELSE Min(Stars(base))
New(base, blocks) == IF Stars(base) = {} THEN blocks ELSE blocks \ {0}
UpToBlock(base, blocks, b) == {c \in New(base, blocks) : c <= b}
Joined(line, blocks) == IF 0 \in blocks THEN Paths(line, 0) ELSE {}
At(base, blocks, b) ==
  IF b = 0 /\ Stars(base) # {} THEN First(base)
  ELSE Len(base) + Cardinality(UpToBlock(base, blocks, b))

\* The virtual host i of the file, with the routes that joined its paths.
FileHostAsSaid(v, old, joined) ==
  /\ v.domains = old.domains /\ v.tls = old.tls
  /\ \A p \in DOMAIN old.routes \ joined : v.routes[p] = old.routes[p]
  /\ DOMAIN v.routes = DOMAIN old.routes \cup joined

FileHostsAsSaid(vs, base, joined) ==
  \A i \in DOMAIN base :
    FileHostAsSaid(vs[i], base[i], IF i = First(base) THEN joined ELSE {})

\* The routes of block b, and the virtual host it makes.
RoutesAsSaid(v, line, b) == \A p \in Paths(line, b) : RouteAsSaid(v.routes[p], line, b, p)

NewHostAsSaid(v, line, b) ==
  /\ v.domains = IF b = 0 THEN {"*"} ELSE line[b].val
  /\ DOMAIN v.routes = Paths(line, b)
  /\ TlsAsSaid(v.tls, line, b)

LEMMA HostsDef ==
  ASSUME NEW vs, NEW base, NEW line, NEW blocks
  PROVE  HostsAsSaid(vs, base, line, blocks) <=>
           /\ Len(vs) = Len(base) + Cardinality(New(base, blocks))
           /\ FileHostsAsSaid(vs, base, Joined(line, blocks))
           /\ \A b \in blocks : RoutesAsSaid(vs[At(base, blocks, b)], line, b)
           /\ \A b \in New(base, blocks) : NewHostAsSaid(vs[At(base, blocks, b)], line, b)
<1> DEFINE star   == {i \in DOMAIN base : "*" \in base[i].domains}
           first  == IF star = {} THEN 0 ELSE Min(star)
           joined == IF 0 \in blocks THEN Paths(line, 0) ELSE {}
           new    == IF star = {} THEN blocks ELSE blocks \ {0}
           at(b)  == IF b = 0 /\ star # {} THEN first
                     ELSE Len(base) + Cardinality({c \in new : c <= b})
<1>1. HostsAsSaid(vs, base, line, blocks) <=>
        /\ Len(vs) = Len(base) + Cardinality(new)
        /\ \A i \in DOMAIN base :
             /\ vs[i].domains = base[i].domains /\ vs[i].tls = base[i].tls
             /\ \A p \in DOMAIN base[i].routes :
                  i # first \/ p \notin joined => vs[i].routes[p] = base[i].routes[p]
             /\ DOMAIN vs[i].routes =
                  DOMAIN base[i].routes \cup (IF i = first THEN joined ELSE {})
        /\ \A b \in blocks : \A p \in Paths(line, b) : RouteAsSaid(vs[at(b)].routes[p], line, b, p)
        /\ \A b \in new :
             /\ vs[at(b)].domains = IF b = 0 THEN {"*"} ELSE line[b].val
             /\ DOMAIN vs[at(b)].routes = Paths(line, b)
             /\ TlsAsSaid(vs[at(b)].tls, line, b)
  BY Zenon DEF HostsAsSaid
<1>2. /\ new = New(base, blocks) /\ joined = Joined(line, blocks) /\ first = First(base)
      /\ \A b : at(b) = At(base, blocks, b)
  BY Zenon DEF New, Joined, First, Stars, At, UpToBlock
<1> HIDE DEF star, first, joined, new, at
<1>3. FileHostsAsSaid(vs, base, joined) <=>
        \A i \in DOMAIN base :
          /\ vs[i].domains = base[i].domains /\ vs[i].tls = base[i].tls
          /\ \A p \in DOMAIN base[i].routes :
               i # first \/ p \notin joined => vs[i].routes[p] = base[i].routes[p]
          /\ DOMAIN vs[i].routes =
               DOMAIN base[i].routes \cup (IF i = first THEN joined ELSE {})
  BY <1>2 DEF FileHostsAsSaid, FileHostAsSaid
<1>4. (\A b \in blocks : RoutesAsSaid(vs[At(base, blocks, b)], line, b)) <=>
        \A b \in blocks : \A p \in Paths(line, b) : RouteAsSaid(vs[at(b)].routes[p], line, b, p)
  BY <1>2, Zenon DEF RoutesAsSaid
<1>5. (\A b \in New(base, blocks) : NewHostAsSaid(vs[At(base, blocks, b)], line, b)) <=>
        \A b \in new :
          /\ vs[at(b)].domains = IF b = 0 THEN {"*"} ELSE line[b].val
          /\ DOMAIN vs[at(b)].routes = Paths(line, b)
          /\ TlsAsSaid(vs[at(b)].tls, line, b)
  BY <1>2, Zenon DEF NewHostAsSaid
<1> QED
  BY <1>1, <1>2, <1>3, <1>4, <1>5

\* What is said of blocks that are over stays.
LEMMA HostsMore ==
  ASSUME NEW line, NEW more, NEW x, OneMore(line, more, x),
         NEW vs, NEW base, NEW blocks \in SUBSET (Blocks(line) \ {LastBlock(more)}),
         HostsAsSaid(vs, base, line, blocks)
  PROVE  HostsAsSaid(vs, base, more, blocks)
<1>1. /\ Len(vs) = Len(base) + Cardinality(New(base, blocks))
      /\ FileHostsAsSaid(vs, base, Joined(line, blocks))
      /\ \A b \in blocks : RoutesAsSaid(vs[At(base, blocks, b)], line, b)
      /\ \A b \in New(base, blocks) : NewHostAsSaid(vs[At(base, blocks, b)], line, b)
  BY HostsDef
<1>2. ASSUME NEW b \in blocks
      PROVE  /\ Paths(more, b) = Paths(line, b)
             /\ \A p, r : RouteAsSaid(r, line, b, p) => RouteAsSaid(r, more, b, p)
             /\ \A tls : TlsAsSaid(tls, line, b) => TlsAsSaid(tls, more, b)
             /\ b # 0 => more[b] = line[b]
  <2>1. /\ b \in 0 .. Len(line) /\ b \in Blocks(line) \ {LastBlock(more)}
        /\ x.flag # "--vhost" => b # LastBlock(line)
    BY LastBlockMore
  <2>2. Paths(more, b) = Paths(line, b)
    <3>1. x.flag = "--route" => b # LastBlock(line)
      BY <2>1
    <3>2. Paths(more, b) = Paths(line, b) \cup
            (IF x.flag = "--route" /\ b = LastBlock(line) THEN {x.val} ELSE {})
      BY LastBlockMore
    <3> QED
      BY <3>1, <3>2
  <2>3. \A p : ~(x.flag \in RouteFlags /\ Concerns(line, b, p))
    <3>1. "--vhost" \notin RouteFlags
      BY DEF RouteFlags, Options, Collected, HeaderFlags
    <3> QED
      BY <2>1, <3>1 DEF Concerns, LastBlock
  <2>4. \A p, r : RouteAsSaid(r, line, b, p) => RouteAsSaid(r, more, b, p)
    BY <2>3, SettingsSame DEF RouteAsSaid
  <2>5. \A tls : TlsAsSaid(tls, line, b) => TlsAsSaid(tls, more, b)
    BY <2>1, TlsMore
  <2>6. b # 0 => more[b] = line[b]
    BY <2>1 DEF OneMore
  <2> QED
    BY <2>2, <2>4, <2>5, <2>6
<1>3. Joined(more, blocks) = Joined(line, blocks)
  BY <1>2 DEF Joined
<1>4. \A b \in New(base, blocks) : b \in blocks
  BY DEF New
<1>5. \A b \in blocks : \A v : /\ RoutesAsSaid(v, line, b) => RoutesAsSaid(v, more, b)
                               /\ NewHostAsSaid(v, line, b) => NewHostAsSaid(v, more, b)
  BY <1>2 DEF RoutesAsSaid, NewHostAsSaid
<1> QED
  BY <1>1, <1>3, <1>4, <1>5, HostsDef

\* Where they are.
LEMMA FirstFacts ==
  ASSUME NEW base, IsSeq(base)
  PROVE  /\ Len(base) \in Nat /\ DOMAIN base = 1 .. Len(base)
         /\ Stars(base) # {} => First(base) \in DOMAIN base
         /\ Stars(base) = {} => First(base) = 0 /\ First(base) \notin DOMAIN base
<1> DEFINE S == Stars(base)
<1>1. Len(base) \in Nat /\ DOMAIN base = 1 .. Len(base)
  BY LenProperties DEF IsSeq
<1>2. S \in SUBSET Nat /\ S \subseteq DOMAIN base
  BY <1>1 DEF Stars
<1>3. First(base) = IF S = {} THEN 0 ELSE Min(S)
  BY DEF First
<1> HIDE DEF S
<1>4. S # {} => Min(S) \in S
  BY <1>2, MinIs
<1> QED
  BY <1>1, <1>2, <1>3, <1>4 DEF S

LEMMA AtFacts ==
  ASSUME NEW base, IsSeq(base), NEW n \in Nat, NEW blocks \in SUBSET (0 .. n)
  PROVE  /\ IsFiniteSet(New(base, blocks)) /\ Cardinality(New(base, blocks)) \in Nat
         /\ \A b \in blocks : At(base, blocks, b) \in 1 .. Len(base) + Cardinality(New(base, blocks))
         /\ \A b \in New(base, blocks) : ~(b = 0 /\ Stars(base) # {}) /\ b \in blocks
<1> DEFINE new == New(base, blocks)
<1>1. new \in SUBSET blocks /\ \A b \in new : ~(b = 0 /\ Stars(base) # {})
  BY DEF New
<1>2. IsFiniteSet(new) /\ Cardinality(new) \in Nat
  <2>1. IsFiniteSet(0 .. n)
    BY FS_Interval
  <2>2. new \in SUBSET (0 .. n)
    BY <1>1
  <2> HIDE DEF new
  <2> QED
    BY <2>1, <2>2, FS_Subset, FS_CardinalityType
<1>3. /\ Len(base) \in Nat /\ DOMAIN base = 1 .. Len(base)
      /\ Stars(base) # {} => First(base) \in DOMAIN base
  BY FirstFacts
<1>4. ASSUME NEW b \in blocks PROVE At(base, blocks, b) \in 1 .. Len(base) + Cardinality(new)
  <2>1. CASE b = 0 /\ Stars(base) # {}
    <3>1. At(base, blocks, b) = First(base)
      BY <2>1 DEF At
    <3> HIDE DEF new
    <3> QED
      BY <1>2, <1>3, <2>1, <3>1
  <2>2. CASE ~(b = 0 /\ Stars(base) # {})
    <3> DEFINE U == UpToBlock(base, blocks, b)
    <3>1. At(base, blocks, b) = Len(base) + Cardinality(U)
      BY <2>2 DEF At
    <3>2. b \in U /\ U \in SUBSET new
      BY <2>2 DEF UpToBlock, New
    <3> HIDE DEF U, new
    <3>3. IsFiniteSet(U) /\ Cardinality(U) <= Cardinality(new) /\ Cardinality(U) \in Nat
      BY <1>2, <3>2, FS_Subset, FS_CardinalityType
    <3>4. Cardinality(U) # 0
      BY <3>2, <3>3, FS_EmptySet
    <3> QED
      BY <1>2, <1>3, <3>1, <3>3, <3>4
  <2> QED
    BY <2>1, <2>2
<1> QED
  BY <1>1, <1>2, <1>4

\* flushVHost: one more virtual host.
LEMMA HostsAppend ==
  ASSUME NEW base, IsSeq(base), NEW vs, IsSeq(vs), NEW line,
         NEW n \in Nat, NEW blocks \in SUBSET (0 .. n),
         NEW b \in 0 .. n, \A c \in blocks : c < b, ~(b = 0 /\ Stars(base) # {}),
         HostsAsSaid(vs, base, line, blocks),
         NEW v, RoutesAsSaid(v, line, b), NewHostAsSaid(v, line, b)
  PROVE  HostsAsSaid(Append(vs, v), base, line, blocks \cup {b})
<1> DEFINE more == blocks \cup {b}
           w == Append(vs, v)
           new == New(base, blocks)
           k == Cardinality(new)
           m == Len(base)
<1>1. /\ Len(vs) = m + k
      /\ FileHostsAsSaid(vs, base, Joined(line, blocks))
      /\ \A c \in blocks : RoutesAsSaid(vs[At(base, blocks, c)], line, c)
      /\ \A c \in new : NewHostAsSaid(vs[At(base, blocks, c)], line, c)
  BY HostsDef
<1>2. OneMore(vs, w, v)
  BY AppendOneMore
<1>3. /\ m \in Nat /\ DOMAIN base = 1 .. m /\ IsFiniteSet(new) /\ k \in Nat
      /\ \A c \in blocks : At(base, blocks, c) \in 1 .. m + k
      /\ \A c \in new : ~(c = 0 /\ Stars(base) # {}) /\ c \in blocks
  BY FirstFacts, AtFacts
<1>4. New(base, more) = new \cup {b} /\ b \notin new
  <2>1. b \notin blocks
    OBVIOUS
  <2> QED
    BY <2>1 DEF New
<1>5. \A c \in blocks : At(base, more, c) = At(base, blocks, c)
  <2> SUFFICES ASSUME NEW c \in blocks PROVE UpToBlock(base, more, c) = UpToBlock(base, blocks, c)
    BY DEF At
  <2>1. ~(b <= c)
    OBVIOUS
  <2> QED
    BY <1>4, <2>1 DEF UpToBlock
<1>6. At(base, more, b) = m + k + 1 /\ Cardinality(New(base, more)) = k + 1
  <2>1. \A c \in new \cup {b} : c <= b
    <3>1. b <= b /\ \A c \in blocks : c <= b
      OBVIOUS
    <3> HIDE DEF new
    <3> QED
      BY <1>3, <3>1
  <2>2. UpToBlock(base, more, b) = new \cup {b}
    BY <1>4, <2>1 DEF UpToBlock
  <2> HIDE DEF new
  <2>3. Cardinality(new \cup {b}) = k + 1
    BY <1>3, <1>4, FS_AddElement
  <2>4. At(base, more, b) = m + Cardinality(UpToBlock(base, more, b))
    BY DEF At
  <2>5. At(base, more, b) = m + (k + 1)
    BY <2>2, <2>3, <2>4
  <2>6. m \in Nat /\ k \in Nat
    BY <1>3
  <2> HIDE DEF k, m, more
  <2>7. At(base, more, b) = m + k + 1
    BY <2>5, <2>6
  <2> QED
    BY <1>4, <2>3, <2>7
<1> HIDE DEF w, more, k, new, m
<1>7. /\ Len(w) = m + k + 1 /\ w[m + k + 1] = v
      /\ \A i \in 1 .. m + k : w[i] = vs[i]
  BY <1>1, <1>2, <1>3 DEF OneMore
<1>8. FileHostsAsSaid(w, base, Joined(line, more))
  <2>1. ASSUME NEW i \in DOMAIN base
        PROVE  /\ w[i] = vs[i]
               /\ i = First(base) => Joined(line, more) = Joined(line, blocks)
    <3>1. w[i] = vs[i]
      BY <1>3, <1>7
    <3>2. i = First(base) => b # 0
      BY FirstFacts
    <3>3. b # 0 => Joined(line, more) = Joined(line, blocks)
      BY DEF Joined, more
    <3> QED
      BY <3>1, <3>2, <3>3
  <2> QED
    BY <1>1, <2>1 DEF FileHostsAsSaid
<1>9. \A c \in more : RoutesAsSaid(w[At(base, more, c)], line, c)
  <2>1. ASSUME NEW c \in blocks PROVE RoutesAsSaid(w[At(base, more, c)], line, c)
    BY <1>1, <1>3, <1>5, <1>7
  <2>2. RoutesAsSaid(w[At(base, more, b)], line, b)
    BY <1>6, <1>7
  <2> QED
    BY <2>1, <2>2 DEF more
<1>10. \A c \in New(base, more) : NewHostAsSaid(w[At(base, more, c)], line, c)
  <2>1. ASSUME NEW c \in new PROVE NewHostAsSaid(w[At(base, more, c)], line, c)
    BY <1>1, <1>3, <1>5, <1>7
  <2>2. NewHostAsSaid(w[At(base, more, b)], line, b)
    BY <1>6, <1>7
  <2> QED
    BY <1>4, <2>1, <2>2
<1>11. Len(w) = Len(base) + Cardinality(New(base, more))
  BY <1>3, <1>6, <1>7 DEF m
<1> QED
  BY <1>8, <1>9, <1>10, <1>11, HostsDef DEF w, more

\* Or the routes before the first --vhost join the first catch-all of the file.
LEMMA HostsJoin ==
  ASSUME NEW base, AreVHosts(base), NEW vs, AreVHosts(vs), NEW line, Stars(base) # {},
         HostsAsSaid(vs, base, line, {}),
         NEW routes, DOMAIN routes = Paths(line, 0), \A p \in DOMAIN routes : RouteAsSaid(routes[p], line, 0, p)
  PROVE  HostsAsSaid([vs EXCEPT ![First(base)].routes = Merged(@, routes)], base, line, {0})
<1> DEFINE first == First(base)
           u == vs[first]
           merged == Merged(u.routes, routes)
           v == [u EXCEPT !.routes = merged]
           w == [vs EXCEPT ![first] = v]
           m == Len(base)
<1>1. /\ New(base, {}) = {} /\ New(base, {0}) = {}
      /\ Cardinality(New(base, {})) = 0 /\ Cardinality(New(base, {0})) = 0
  <2>1. New(base, {}) = {} /\ New(base, {0}) = {}
    BY DEF New
  <2> QED
    BY <2>1, FS_EmptySet
<1>2. Len(vs) = m /\ FileHostsAsSaid(vs, base, {})
  <2>1. m \in Nat
    BY FirstFacts DEF AreVHosts
  <2>2. Joined(line, {}) = {}
    BY DEF Joined
  <2>3. /\ Len(vs) = Len(base) + Cardinality(New(base, {}))
        /\ FileHostsAsSaid(vs, base, Joined(line, {}))
    BY HostsDef
  <2>4. Len(vs) = m + 0
    BY <1>1, <2>3
  <2>5. FileHostsAsSaid(vs, base, {})
    BY <2>2, <2>3
  <2> HIDE DEF m
  <2>6. Len(vs) = m
    BY <2>1, <2>4
  <2> QED
    BY <2>5, <2>6
<1>3. m \in Nat /\ DOMAIN base = 1 .. m /\ first \in 1 .. m
  BY FirstFacts DEF AreVHosts
<1>4. DOMAIN vs = 1 .. m /\ vs \in Seq(Range(vs))
  BY <1>2, LenProperties DEF AreVHosts, IsSeq
<1>5. u = [f \in {"domains", "tls", "routes"} |-> u[f]]
  BY <1>3, <1>4 DEF AreVHosts, IsVHost
<1>6. FileHostAsSaid(u, base[first], {})
  BY <1>2, <1>3 DEF FileHostsAsSaid
<1> HIDE DEF first, u, m
<1>7. v.domains = u.domains /\ v.tls = u.tls /\ v.routes = merged
  <2> HIDE DEF merged
  <2> QED
    BY <1>5
<1>8. /\ DOMAIN merged = DOMAIN u.routes \cup DOMAIN routes
      /\ \A p \in DOMAIN routes : merged[p] = routes[p]
      /\ \A p \in DOMAIN u.routes \ DOMAIN routes : merged[p] = u.routes[p]
  BY DEF Merged
<1> HIDE DEF merged, v
<1>9. FileHostAsSaid(v, base[first], DOMAIN routes)
  BY <1>6, <1>7, <1>8 DEF FileHostAsSaid
<1>10. RoutesAsSaid(v, line, 0)
  BY <1>7, <1>8 DEF RoutesAsSaid
<1>11. /\ DOMAIN w = 1 .. m /\ w[first] = v /\ \A i \in 1 .. m : i # first => w[i] = vs[i]
       /\ Len(w) = m
  BY <1>3, <1>4
<1> HIDE DEF w
<1>12. Joined(line, {0}) = DOMAIN routes /\ At(base, {0}, 0) = first
  BY DEF Joined, At, first
<1>13. FileHostsAsSaid(w, base, Joined(line, {0}))
  BY <1>2, <1>3, <1>9, <1>11, <1>12 DEF FileHostsAsSaid, first
<1>14. Len(w) = Len(base) + Cardinality(New(base, {0}))
  BY <1>1, <1>3, <1>11 DEF m
<1>15. /\ \A b \in {0} : RoutesAsSaid(w[At(base, {0}, b)], line, b)
       /\ \A b \in New(base, {0}) : NewHostAsSaid(w[At(base, {0}, b)], line, b)
  BY <1>1, <1>10, <1>11, <1>12
<1>16. HostsAsSaid(w, base, line, {0})
  BY <1>13, <1>14, <1>15, HostsDef
<1> QED
  BY <1>16 DEF w, v, merged, u, first

-----------------------------------------------------------------------------
(* The virtual host and the route that are being built. *)

\* Arguments as ArgsAssumption has them.
ValidArgs(line) ==
  /\ IsSeq(line)
  /\ \A i \in DOMAIN line : /\ line[i].flag = "--vhost" => line[i].val # {}
                            /\ line[i].flag = "--route" => line[i].val # NoPath

LastRoute(line) == RouteAt(line, Len(line))

\* What the local variables of applyCLI hold after the arguments line: what
\* line says of its last block, of which the last route is not flushed yet.
CurSaid(line, domains, tls, routes, path, r) ==
  /\ domains = IF LastBlock(line) = 0 THEN {} ELSE line[LastBlock(line)].val
  /\ path = IF LastRoute(line) = 0 THEN NoPath ELSE line[LastRoute(line)].val
  /\ routes = [p \in DOMAIN routes |-> routes[p]]
  /\ Paths(line, LastBlock(line)) = DOMAIN routes \cup (IF path = NoPath THEN {} ELSE {path})
  /\ \A p \in DOMAIN routes \ {path} :
       Taken(routes[p], line, LastBlock(line), p) /\ LeadsAsSaid(routes[p])
  /\ path # NoPath => Taken(r, line, LastBlock(line), path)
  /\ tls = [f \in TlsFlags |-> tls[f]] /\ TlsAsSaid(tls, line, LastBlock(line))

LEMMA LastRouteFacts ==
  ASSUME NEW line, ValidArgs(line)
  PROVE  /\ LastRoute(line) \in 0 .. Len(line) /\ Len(line) \in Nat
         /\ LastRoute(line) # 0 => line[LastRoute(line)].val # NoPath
         /\ \A b : NoPath \notin Paths(line, b)
         /\ LastBlock(line) \in 0 .. Len(line)
         /\ LastBlock(line) # 0 => line[LastBlock(line)].val # {}
<1>1. DOMAIN line = 1 .. Len(line) /\ Len(line) \in Nat
  BY LenProperties DEF ValidArgs, IsSeq
<1>2. /\ LastRoute(line) \in 0 .. Len(line)
      /\ LastRoute(line) # 0 => line[LastRoute(line)].flag = "--route"
  BY <1>1, RouteFacts DEF LastRoute
<1>3. /\ LastBlock(line) \in 0 .. Len(line)
      /\ LastBlock(line) # 0 => line[LastBlock(line)].flag = "--vhost"
  BY <1>1, BlockFacts DEF LastBlock
<1>4. /\ LastRoute(line) # 0 => LastRoute(line) \in DOMAIN line
      /\ LastBlock(line) # 0 => LastBlock(line) \in DOMAIN line
  BY <1>1, <1>2, <1>3
<1>5. \A b : NoPath \notin Paths(line, b)
  BY DEF Paths, ValidArgs
<1> QED
  BY <1>1, <1>2, <1>3, <1>4, <1>5 DEF ValidArgs

LEMMA LastRouteMore ==
  ASSUME NEW line, NEW more, NEW x, OneMore(line, more, x)
  PROVE  /\ x.flag = "--vhost" => LastRoute(more) = 0
         /\ x.flag = "--route" => LastRoute(more) = Len(line) + 1
         /\ x.flag \notin {"--vhost", "--route"} => LastRoute(more) = LastRoute(line)
<1>1. LastRoute(more) = RouteAt(more, Len(line) + 1) /\ LastRoute(line) = RouteAt(line, Len(line))
  BY DEF LastRoute, OneMore
<1> QED
  BY <1>1, RouteMore

\* flushRoute: all paths of the last block, as they are said.
Flushed(routes, path, r) ==
  IF path = NoPath THEN routes
  ELSE [p \in DOMAIN routes \cup {path} |->
          IF p = path THEN ApplyDestEntries(r, r.entries) ELSE routes[p]]

LEMMA FlushSaid ==
  ASSUME NEW line, ValidArgs(line), NEW domains, NEW tls, NEW routes, NEW path, NEW r,
         CurSaid(line, domains, tls, routes, path, r), path # NoPath => ~DestError(r.entries)
  PROVE  LET fl == Flushed(routes, path, r)
         IN  /\ fl = [p \in DOMAIN fl |-> fl[p]]
             /\ DOMAIN fl = Paths(line, LastBlock(line))
             /\ \A p \in DOMAIN fl : Taken(fl[p], line, LastBlock(line), p) /\ LeadsAsSaid(fl[p])
<1> DEFINE fl == Flushed(routes, path, r)
           s == ApplyDestEntries(r, r.entries)
           b == LastBlock(line)
<1>1. /\ routes = [p \in DOMAIN routes |-> routes[p]]
      /\ Paths(line, b) = DOMAIN routes \cup (IF path = NoPath THEN {} ELSE {path})
      /\ \A p \in DOMAIN routes \ {path} : Taken(routes[p], line, b, p) /\ LeadsAsSaid(routes[p])
  BY DEF CurSaid
<1>2. CASE path = NoPath
  <2>1. fl = routes
    BY <1>2 DEF Flushed
  <2>2. NoPath \notin DOMAIN routes
    BY <1>1, LastRouteFacts
  <2> HIDE DEF fl, b
  <2>3. /\ fl = [p \in DOMAIN fl |-> fl[p]] /\ DOMAIN fl = Paths(line, b)
        /\ \A p \in DOMAIN fl : Taken(fl[p], line, b, p) /\ LeadsAsSaid(fl[p])
    BY <1>1, <1>2, <2>1, <2>2
  <2> QED
    BY <2>3 DEF fl, b
<1>3. CASE path # NoPath
  <2>1. Taken(s, line, b, path) /\ LeadsAsSaid(s)
    BY <1>3, TakenFlushed DEF CurSaid
  <2> HIDE DEF s
  <2>2. fl = [p \in DOMAIN routes \cup {path} |-> IF p = path THEN s ELSE routes[p]]
    BY <1>3 DEF Flushed, s
  <2> HIDE DEF fl, b
  <2>3. /\ fl = [p \in DOMAIN fl |-> fl[p]] /\ DOMAIN fl = Paths(line, b)
        /\ \A p \in DOMAIN fl : fl[p] = IF p = path THEN s ELSE routes[p]
    BY <1>1, <1>3, <2>2
  <2>4. \A p \in DOMAIN fl : Taken(fl[p], line, b, p) /\ LeadsAsSaid(fl[p])
    BY <1>1, <2>1, <2>2, <2>3
  <2> QED
    BY <2>3, <2>4 DEF fl, b
<1> QED
  BY <1>2, <1>3

\* A flag that is not of a route.
LEMMA CurOther ==
  ASSUME NEW line, ValidArgs(line), NEW more, NEW x, OneMore(line, more, x),
         x.flag \notin RouteFlags \cup {"--vhost", "--route"},
         NEW domains, NEW tls, NEW routes, NEW path, NEW r,
         CurSaid(line, domains, tls, routes, path, r),
         NEW new, IF x.flag \in TlsFlags THEN new = [tls EXCEPT ![x.flag] = x.val] ELSE new = tls
  PROVE  CurSaid(more, domains, new, routes, path, r)
<1> DEFINE b == LastBlock(line)
<1>1. LastBlock(more) = b /\ Paths(more, b) = Paths(line, b)
  <2>1. Paths(more, b) = Paths(line, b) \cup (IF x.flag = "--route" /\ b = b THEN {x.val} ELSE {})
    BY LastBlockMore
  <2> QED
    BY <2>1, LastBlockMore
<1>2. LastRoute(more) = LastRoute(line)
  BY LastRouteMore
<1>3. /\ b # 0 => more[b] = line[b]
      /\ LastRoute(line) # 0 => more[LastRoute(line)] = line[LastRoute(line)]
  BY LastRouteFacts DEF OneMore
<1>4. \A p, s : Taken(s, line, b, p) => Taken(s, more, b, p)
  BY SettingsSame
<1>5. new = [f \in TlsFlags |-> new[f]] /\ TlsAsSaid(new, more, b)
  <2>1. tls = [f \in TlsFlags |-> tls[f]] /\ TlsAsSaid(tls, line, b)
    BY DEF CurSaid
  <2>2. TlsAsSaid(new, more, b)
    BY <1>1, <2>1, TlsMore
  <2>3. new = [f \in TlsFlags |-> new[f]]
    BY <2>1
  <2> QED
    BY <2>2, <2>3
<1> HIDE DEF b
<1>6. /\ domains = IF b = 0 THEN {} ELSE line[b].val
      /\ path = IF LastRoute(line) = 0 THEN NoPath ELSE line[LastRoute(line)].val
      /\ routes = [p \in DOMAIN routes |-> routes[p]]
      /\ Paths(line, b) = DOMAIN routes \cup (IF path = NoPath THEN {} ELSE {path})
      /\ \A p \in DOMAIN routes \ {path} : Taken(routes[p], line, b, p) /\ LeadsAsSaid(routes[p])
      /\ path # NoPath => Taken(r, line, b, path)
  BY DEF CurSaid, b
<1> QED
  BY <1>1, <1>2, <1>3, <1>4, <1>5, <1>6 DEF CurSaid

\* A flag of the route.
LEMMA CurSetting ==
  ASSUME NEW line, ValidArgs(line), NEW more, NEW x, OneMore(line, more, x),
         x.flag \in RouteFlags,
         NEW domains, NEW tls, NEW routes, NEW path, NEW r,
         CurSaid(line, domains, tls, routes, path, r), path # NoPath,
         NEW s, Concerns(line, LastBlock(line), path) /\ Taken(r, line, LastBlock(line), path)
                  => Taken(s, more, LastBlock(line), path)
  PROVE  CurSaid(more, domains, tls, routes, path, s)
<1> DEFINE b == LastBlock(line)
<1>0. x.flag \notin TlsFlags \cup {"--vhost", "--route"}
  BY DEF RouteFlags, Options, Collected, HeaderFlags, TlsFlags
<1>1. LastBlock(more) = b /\ Paths(more, b) = Paths(line, b)
  <2>1. Paths(more, b) = Paths(line, b) \cup (IF x.flag = "--route" /\ b = b THEN {x.val} ELSE {})
    BY LastBlockMore
  <2> QED
    BY <1>0, <2>1, LastBlockMore
<1>2. LastRoute(more) = LastRoute(line)
  BY <1>0, LastRouteMore
<1>3. /\ b # 0 => more[b] = line[b]
      /\ LastRoute(line) # 0 => more[LastRoute(line)] = line[LastRoute(line)]
  BY LastRouteFacts DEF OneMore
<1>4. path = IF LastRoute(line) = 0 THEN NoPath ELSE line[LastRoute(line)].val
  BY DEF CurSaid
<1>5. \A p : Concerns(line, b, p) <=> p = path
  BY <1>4 DEF Concerns, LastRoute, LastBlock
<1>6. \A p, q : p # path /\ Taken(q, line, b, p) => Taken(q, more, b, p)
  BY <1>5, SettingsSame
<1>7. tls = [f \in TlsFlags |-> tls[f]] /\ TlsAsSaid(tls, more, b)
  BY <1>0, <1>1, TlsMore DEF CurSaid
<1> HIDE DEF b
<1>8. /\ domains = IF b = 0 THEN {} ELSE line[b].val
      /\ routes = [p \in DOMAIN routes |-> routes[p]]
      /\ Paths(line, b) = DOMAIN routes \cup (IF path = NoPath THEN {} ELSE {path})
      /\ \A p \in DOMAIN routes \ {path} : Taken(routes[p], line, b, p) /\ LeadsAsSaid(routes[p])
      /\ Taken(s, more, b, path)
  BY <1>5 DEF CurSaid, b
<1> QED
  BY <1>1, <1>2, <1>3, <1>4, <1>6, <1>7, <1>8 DEF CurSaid

\* --route, after the flush.
LEMMA CurRouteFlag ==
  ASSUME NEW line, ValidArgs(line), NEW more, NEW x, OneMore(line, more, x),
         x.flag = "--route", x.val # NoPath,
         NEW domains, NEW tls, NEW routes, NEW path, NEW r,
         CurSaid(line, domains, tls, routes, path, r), path # NoPath => ~DestError(r.entries),
         NEW fl, fl = Flushed(routes, path, r)
  PROVE  CurSaid(more, domains, tls, fl, x.val, IF x.val \in DOMAIN fl THEN fl[x.val] ELSE EmptyRoute)
<1> DEFINE b == LastBlock(line)
           new == IF x.val \in DOMAIN fl THEN fl[x.val] ELSE EmptyRoute
<1>1. LastBlock(more) = b /\ Paths(more, b) = Paths(line, b) \cup {x.val}
  <2>1. Paths(more, b) = Paths(line, b) \cup (IF x.flag = "--route" /\ b = b THEN {x.val} ELSE {})
    BY LastBlockMore
  <2> QED
    BY <2>1, LastBlockMore
<1>2. LastRoute(more) = Len(line) + 1 /\ LastRoute(more) # 0 /\ more[LastRoute(more)].val = x.val
  <2>1. LastRoute(more) = Len(line) + 1 /\ Len(line) \in Nat
    BY LastRouteMore, LastRouteFacts
  <2>2. more[Len(line) + 1] = x
    BY DEF OneMore
  <2> QED
    BY <2>1, <2>2
<1>3. b # 0 => more[b] = line[b]
  BY LastRouteFacts DEF OneMore
<1>4. \A p, s : Taken(s, line, b, p) => Taken(s, more, b, p)
  <2>1. x.flag \notin RouteFlags
    BY DEF RouteFlags, Options, Collected, HeaderFlags
  <2> QED
    BY <2>1, SettingsSame
<1>5. tls = [f \in TlsFlags |-> tls[f]] /\ TlsAsSaid(tls, more, b)
  <2>1. x.flag \notin TlsFlags \cup {"--vhost"}
    BY DEF TlsFlags
  <2> QED
    BY <1>1, <2>1, TlsMore DEF CurSaid
<1>6. /\ fl = [p \in DOMAIN fl |-> fl[p]] /\ DOMAIN fl = Paths(line, b)
      /\ \A p \in DOMAIN fl : Taken(fl[p], line, b, p) /\ LeadsAsSaid(fl[p])
  BY FlushSaid
<1>7. Taken(new, line, b, x.val)
  <2>1. x.val \notin DOMAIN fl => Taken(EmptyRoute, line, b, x.val)
    BY <1>6, TakenEmpty DEF ValidArgs
  <2> QED
    BY <1>6, <2>1
<1>8. domains = IF b = 0 THEN {} ELSE line[b].val
  BY DEF CurSaid
<1> HIDE DEF b, new
<1>9. CurSaid(more, domains, tls, fl, x.val, new)
  BY <1>1, <1>2, <1>3, <1>4, <1>5, <1>6, <1>7, <1>8 DEF CurSaid
<1> QED
  BY <1>9 DEF new

\* --vhost, after the flush.
LEMMA CurVHostFlag ==
  ASSUME NEW line, ValidArgs(line), NEW more, NEW x, OneMore(line, more, x), x.flag = "--vhost",
         NEW domains, NEW tls, NEW routes, NEW path, NEW r,
         CurSaid(line, domains, tls, routes, path, r),
         NEW new, new = IF Paths(line, LastBlock(line)) = {} THEN tls ELSE NoTLS
  PROVE  CurSaid(more, x.val, new, NoRoutes, NoPath, EmptyRoute)
<1> DEFINE b == LastBlock(more)
<1>1. b = Len(line) + 1 /\ b # 0 /\ more[b].val = x.val
  <2>1. b = Len(line) + 1 /\ Len(line) \in Nat
    BY LastBlockMore, LastRouteFacts
  <2>2. more[Len(line) + 1] = x
    BY DEF OneMore
  <2> QED
    BY <2>1, <2>2
<1>2. LastRoute(more) = 0
  BY LastRouteMore
<1>3. Paths(more, b) = {}
  <2>1. b \notin Blocks(line)
    <3>1. Len(line) \in Nat /\ Blocks(line) \in SUBSET (0 .. Len(line))
      BY LastBlockMore, LastRouteFacts
    <3> QED
      BY <1>1, <3>1
  <2>2. Paths(line, b) = {} /\ Paths(more, b) = Paths(line, b) \cup {}
    BY <2>1, LastBlockMore
  <2> QED
    BY <2>2
<1>4. tls = [f \in TlsFlags |-> tls[f]] /\ TlsAsSaid(tls, line, LastBlock(line))
  BY DEF CurSaid
<1>5. TlsAsSaid(new, more, b)
  <2>1. CASE Paths(line, LastBlock(line)) = {}
    <3>1. new = tls
      BY <2>1
    <3> QED
      BY <1>4, <2>1, <3>1, TlsMore
  <2>2. CASE Paths(line, LastBlock(line)) # {}
    <3>1. new = NoTLS
      BY <2>2
    <3>2. TlsAsSaid(NoTLS, more, b)
      BY <2>2, TlsMore
    <3> QED
      BY <3>1, <3>2
  <2> QED
    BY <2>1, <2>2
<1>6. new = [f \in TlsFlags |-> new[f]]
  BY <1>4 DEF NoTLS
<1> HIDE DEF b
<1>7. NoRoutes = [p \in DOMAIN NoRoutes |-> NoRoutes[p]] /\ DOMAIN NoRoutes = {}
  BY DEF NoRoutes
<1> QED
  BY <1>1, <1>2, <1>3, <1>5, <1>6, <1>7 DEF CurSaid, b

\* The blocks with routes, but for the last.
OverBlocks(line) == RouteBlocks(line) \ {LastBlock(line)}

LEMMA OverBlocksMore ==
  ASSUME NEW line, NEW more, NEW x, OneMore(line, more, x)
  PROVE  /\ x.flag # "--vhost" => OverBlocks(more) = OverBlocks(line)
         /\ x.flag = "--vhost" => OverBlocks(more) = RouteBlocks(line)
         /\ OverBlocks(more) \in SUBSET (Blocks(line) \ {LastBlock(more)})
         /\ \A b \in OverBlocks(line) : b < LastBlock(line)
         /\ RouteBlocks(line) = OverBlocks(line) \cup
              (IF Paths(line, LastBlock(line)) = {} THEN {} ELSE {LastBlock(line)})
<1> DEFINE old == LastBlock(line)
           new == LastBlock(more)
<1>1. /\ Len(line) \in Nat
      /\ old \in 0 .. Len(line) /\ new = IF x.flag = "--vhost" THEN Len(line) + 1 ELSE old
      /\ Blocks(line) \in SUBSET (0 .. Len(line)) /\ Blocks(more) = Blocks(line) \cup {new}
      /\ \A b \in Blocks(line) : b <= old
  BY LastBlockMore DEF OneMore
<1>2. \A b : b \notin Blocks(line) => Paths(line, b) = {}
  BY LastBlockMore
<1>3. \A b : b # old \/ x.flag # "--route" => Paths(more, b) = Paths(line, b)
  <2>1. \A b : Paths(more, b) = Paths(line, b) \cup
                 (IF x.flag = "--route" /\ b = old THEN {x.val} ELSE {})
    BY LastBlockMore
  <2> HIDE DEF old
  <2>2. ASSUME NEW b, b # old \/ x.flag # "--route" PROVE Paths(more, b) = Paths(line, b)
    BY <2>1, <2>2
  <2> QED
    BY <2>2
<1> HIDE DEF old, new
<1>4. \A b : b \in RouteBlocks(line) <=> Paths(line, b) # {}
  BY <1>2 DEF RouteBlocks
<1>5. \A b : b \in OverBlocks(line) <=> b # old /\ Paths(line, b) # {}
  BY <1>4 DEF OverBlocks, old
<1>6. \A b : b \in OverBlocks(more) <=> b \in Blocks(line) /\ b # new /\ Paths(more, b) # {}
  BY <1>1 DEF OverBlocks, RouteBlocks, new
<1>7. x.flag # "--vhost" => OverBlocks(more) = OverBlocks(line)
  BY <1>1, <1>2, <1>3, <1>5, <1>6
<1>8. x.flag = "--vhost" => OverBlocks(more) = RouteBlocks(line)
  <2>1. \A b \in Blocks(line) : b # Len(line) + 1
    BY <1>1
  <2> QED
    BY <1>1, <1>2, <1>3, <1>4, <1>6, <2>1
<1>9. \A b \in OverBlocks(line) : b < old
  BY <1>1, <1>2, <1>5
<1>10. RouteBlocks(line) = OverBlocks(line) \cup (IF Paths(line, old) = {} THEN {} ELSE {old})
  BY <1>4, <1>5
<1> QED
  BY <1>6, <1>7, <1>8, <1>9, <1>10 DEF old, new

-----------------------------------------------------------------------------
(* What the command line has built. *)

\* flushVHost: the virtual hosts with those of the last block.
LEMMA HostsFlushed ==
  ASSUME file \in Files, AreVHosts(vhosts), ValidArgs(args),
         CurSaid(args, curDomains, curTLS, curRoutes, curPath, curRoute),
         HostsAsSaid(vhosts, LoadConfigFile(file), args, OverBlocks(args)),
         ~FlushVHostFails
  PROVE  /\ HostsAsSaid(FlushedVHosts, LoadConfigFile(file), args, RouteBlocks(args))
         /\ FlushedRoutes = NoRoutes <=> Paths(args, LastBlock(args)) = {}
<1> DEFINE base == LoadConfigFile(file)
           b == LastBlock(args)
           over == OverBlocks(args)
           fl == FlushedRoutes
           first == CHOOSE i \in CatchAlls : \A j \in CatchAlls : i <= j
<1>1. /\ over \in SUBSET (0 .. Len(args)) /\ Len(args) \in Nat /\ b \in 0 .. Len(args)
      /\ \A c \in over : c < b
      /\ RouteBlocks(args) = over \cup (IF Paths(args, b) = {} THEN {} ELSE {b})
      /\ b # 0 => args[b].val # {}
  <2>1. OneMore(args, Append(args, 0), 0)
    BY AppendOneMore DEF ValidArgs
  <2>2. /\ Blocks(args) \in SUBSET (0 .. Len(args)) /\ over \in SUBSET Blocks(args)
        /\ \A c \in over : c < b
        /\ RouteBlocks(args) = over \cup (IF Paths(args, b) = {} THEN {} ELSE {b})
    <3>1. over \in SUBSET Blocks(args)
      BY DEF OverBlocks, RouteBlocks
    <3> QED
      BY <2>1, <3>1, LastBlockMore, OverBlocksMore
  <2> QED
    BY <2>2, LastRouteFacts
<1>2. /\ fl = [p \in DOMAIN fl |-> fl[p]] /\ DOMAIN fl = Paths(args, b)
      /\ \A p \in DOMAIN fl : RouteAsSaid(fl[p], args, b, p)
  <2>1. fl = Flushed(curRoutes, curPath, curRoute)
    BY DEF FlushedRoutes, Flushed
  <2>2. curPath # NoPath => ~DestError(curRoute.entries)
    BY DEF FlushVHostFails, FlushRouteFails
  <2>3. /\ fl = [p \in DOMAIN fl |-> fl[p]] /\ DOMAIN fl = Paths(args, b)
        /\ \A p \in DOMAIN fl : Taken(fl[p], args, b, p) /\ LeadsAsSaid(fl[p])
    <3> HIDE DEF fl
    <3> QED
      BY <2>1, <2>2, FlushSaid
  <2> HIDE DEF fl, b
  <2> QED
    BY <2>3 DEF Taken, RouteAsSaid
<1>3. /\ curDomains = IF b = 0 THEN {} ELSE args[b].val
      /\ TlsAsSaid(curTLS, args, b)
  BY DEF CurSaid
<1>4. AreVHosts(base)
  BY LoadedVHosts
<1>5. /\ FlushedVHosts =
           CASE fl = NoRoutes -> vhosts
             [] fl # NoRoutes /\ curDomains = {} /\ CatchAlls # {} ->
                  [vhosts EXCEPT ![first].routes = Merged(@, fl)]
             [] OTHER ->
                  Append(vhosts, [domains |-> IF curDomains = {} THEN {"*"} ELSE curDomains,
                                  routes |-> fl, tls |-> curTLS])
  BY Zenon DEF FlushedVHosts
<1> HIDE DEF fl, b, over, base, first
<1>6. fl = NoRoutes <=> Paths(args, b) = {}
  BY <1>2 DEF NoRoutes
<1>7. curDomains = {} <=> b = 0
  BY <1>1, <1>3
<1>8. HostsAsSaid(vhosts, base, args, over)
  BY DEF base, over
<1>9. b = 0 => over = {} /\ CatchAlls = Stars(base) /\ (CatchAlls # {} => first = First(base))
  <2> SUFFICES ASSUME b = 0
               PROVE  over = {} /\ CatchAlls = Stars(base) /\ (CatchAlls # {} => first = First(base))
    OBVIOUS
  <2>1. over = {}
    BY <1>1
  <2>2. Len(vhosts) = Len(base) + Cardinality(New(base, {})) /\ FileHostsAsSaid(vhosts, base, Joined(args, {}))
    BY <1>8, <2>1, HostsDef
  <2>3. New(base, {}) = {} /\ Cardinality({}) = 0
    BY FS_EmptySet DEF New
  <2>4. Len(base) \in Nat /\ DOMAIN base = 1 .. Len(base)
    BY <1>4, FirstFacts DEF AreVHosts
  <2>5. Len(vhosts) = Len(base)
    <3>1. Len(vhosts) = Len(base) + 0
      BY <2>2, <2>3
    <3> QED
      BY <2>4, <3>1
  <2>6. DOMAIN vhosts = DOMAIN base
    BY <2>4, <2>5, LenProperties DEF AreVHosts, IsSeq
  <2>7. \A i \in DOMAIN base : vhosts[i].domains = base[i].domains
    BY <2>2 DEF FileHostsAsSaid, FileHostAsSaid
  <2>8. CatchAlls = Stars(base)
    BY <2>6, <2>7 DEF CatchAlls, Stars
  <2>9. CatchAlls # {} => first = First(base)
    <3>1. Stars(base) # {} => First(base) = Min(Stars(base))
      BY DEF First
    <3>2. \A S : Min(S) = CHOOSE i \in S : \A j \in S : i <= j
      BY Zenon DEF Min
    <3>3. first = Min(CatchAlls)
      BY <3>2, Zenon DEF first
    <3> QED
      BY <2>8, <3>1, <3>3
  <2> QED
    BY <2>1, <2>8, <2>9
<1>10. HostsAsSaid(FlushedVHosts, base, args, RouteBlocks(args))
  <2>1. CASE fl = NoRoutes
    <3>1. FlushedVHosts = vhosts /\ RouteBlocks(args) = over
      BY <1>1, <1>5, <1>6, <2>1
    <3> QED
      BY <1>8, <3>1
  <2>2. CASE fl # NoRoutes /\ b = 0 /\ CatchAlls # {}
    <3>1. FlushedVHosts = [vhosts EXCEPT ![First(base)].routes = Merged(@, fl)]
      BY <1>5, <1>7, <1>9, <2>2
    <3>2. RouteBlocks(args) = {0} /\ HostsAsSaid(vhosts, base, args, {})
      BY <1>1, <1>6, <1>8, <1>9, <2>2
    <3>3. /\ Stars(base) # {} /\ DOMAIN fl = Paths(args, 0)
          /\ \A p \in DOMAIN fl : RouteAsSaid(fl[p], args, 0, p)
      BY <1>2, <1>9, <2>2
    <3>4. HostsAsSaid([vhosts EXCEPT ![First(base)].routes = Merged(@, fl)], base, args, {0})
      BY <1>4, <3>2, <3>3, HostsJoin
    <3> QED
      BY <3>1, <3>2, <3>4
  <2>3. CASE fl # NoRoutes /\ ~(b = 0 /\ CatchAlls # {})
    <3> DEFINE v == [domains |-> IF curDomains = {} THEN {"*"} ELSE curDomains,
                     routes |-> fl, tls |-> curTLS]
    <3>1. FlushedVHosts = Append(vhosts, v) /\ RouteBlocks(args) = over \cup {b}
      BY <1>1, <1>5, <1>6, <1>7, <2>3
    <3>2. v.domains = (IF b = 0 THEN {"*"} ELSE args[b].val) /\ v.routes = fl /\ v.tls = curTLS
      BY <1>3, <1>7
    <3> HIDE DEF v
    <3>3. RoutesAsSaid(v, args, b) /\ NewHostAsSaid(v, args, b)
      BY <1>2, <1>3, <3>2 DEF RoutesAsSaid, NewHostAsSaid
    <3>4. ~(b = 0 /\ Stars(base) # {})
      BY <1>9, <2>3
    <3>5. IsSeq(base) /\ IsSeq(vhosts)
      BY <1>4 DEF AreVHosts
    <3>6. HostsAsSaid(Append(vhosts, v), base, args, over \cup {b})
      BY <1>1, <1>8, <3>3, <3>4, <3>5, HostsAppend
    <3> QED
      BY <3>1, <3>6
  <2> QED
    BY <2>1, <2>2, <2>3
<1> QED
  BY <1>6, <1>10 DEF fl, b, base

\* While the arguments are read, the configuration is that of the file with the
\* blocks that are over, and the local variables hold the last one.
Progress ==
  /\ ValidArgs(args)
  /\ CurSaid(args, curDomains, curTLS, curRoutes, curPath, curRoute)
  /\ HostsAsSaid(vhosts, LoadConfigFile(file), args, OverBlocks(args))

HostsBuilt == Parsed => HostsAsSaid(vhosts, LoadConfigFile(file), args, RouteBlocks(args))

BuiltInv ==
  /\ file \in Files /\ vocabulary \in Vocabularies
  /\ status = "parsing" => Progress
  /\ HostsBuilt

LEMMA InitBuiltInv == Init => BuiltInv
<1> SUFFICES ASSUME Init PROVE BuiltInv
  OBVIOUS
<1>1. /\ args = <<>> /\ curDomains = {} /\ curTLS = NoTLS /\ curRoutes = NoRoutes
      /\ curPath = NoPath /\ file \in Files /\ vocabulary \in Vocabularies
      /\ vhosts = LoadConfigFile(file) /\ status \in {"parsing", "error"}
  BY DEF Init
<1>2. /\ ValidArgs(args) /\ DOMAIN args = {} /\ Len(args) = 0
  BY <1>1, EmptySeq DEF ValidArgs, IsSeq
<1>3. /\ LastBlock(args) = 0 /\ LastRoute(args) = 0 /\ Blocks(args) = {}
      /\ \A b : Paths(args, b) = {}
  <2>1. Blocks(args) = {} /\ \A b : Paths(args, b) = {}
    BY <1>2 DEF Blocks, Paths
  <2>2. LastBlock(args) = 0 /\ LastRoute(args) = 0
    <3>1. LastBlock(args) \in 0 .. Len(args) /\ LastRoute(args) \in 0 .. Len(args)
      BY <1>2, LastRouteFacts
    <3> QED
      BY <1>2, <3>1
  <2> QED
    BY <2>1, <2>2
<1>4. CurSaid(args, curDomains, curTLS, curRoutes, curPath, curRoute)
  <2>1. TlsAsSaid(NoTLS, args, 0)
    <3>1. \A f \in TlsFlags : TlsOwn(args, 0, f) = {} /\ NoTLS[f] = Unset
      BY <1>2 DEF TlsOwn, NoTLS
    <3> QED
      BY <3>1, TlsDef
  <2>2. NoTLS = [f \in TlsFlags |-> NoTLS[f]]
    BY DEF NoTLS
  <2>3. NoRoutes = [p \in DOMAIN NoRoutes |-> NoRoutes[p]] /\ DOMAIN NoRoutes = {}
    BY DEF NoRoutes
  <2> QED
    BY <1>1, <1>3, <2>1, <2>2, <2>3 DEF CurSaid
<1>5. HostsAsSaid(vhosts, LoadConfigFile(file), args, OverBlocks(args))
  <2> DEFINE base == LoadConfigFile(file)
  <2>1. OverBlocks(args) = {}
    BY <1>3 DEF OverBlocks, RouteBlocks
  <2>2. New(base, {}) = {} /\ Cardinality({}) = 0 /\ Joined(args, {}) = {}
    BY FS_EmptySet DEF New, Joined
  <2>3. Len(base) \in Nat
    BY <1>1, LoadedVHosts, FirstFacts DEF AreVHosts
  <2> HIDE DEF base
  <2>4. FileHostsAsSaid(base, base, {})
    BY DEF FileHostsAsSaid, FileHostAsSaid
  <2>5. Len(base) = Len(base) + Cardinality(New(base, {}))
    <3>1. Len(base) = Len(base) + 0
      BY <2>3
    <3> QED
      BY <2>2, <3>1
  <2>6. HostsAsSaid(base, base, args, {})
    BY <2>2, <2>4, <2>5, HostsDef
  <2> QED
    BY <1>1, <2>1, <2>6 DEF base
<1> QED
  BY <1>1, <1>2, <1>4, <1>5 DEF BuiltInv, Progress, HostsBuilt, Parsed

\* An argument.
LEMMA TakeOneMore ==
  ASSUME BuiltInv, NEW flag, NEW val, Take(flag, val)
  PROVE  /\ Progress /\ ValidArgs(args')
         /\ OneMore(args, args', [flag |-> flag, val |-> val])
         /\ flag = "--route" => val # NoPath
         /\ UNCHANGED <<file, vocabulary>>
<1> DEFINE x == [flag |-> flag, val |-> val]
<1>1. /\ status = "parsing" /\ x \in vocabulary.args
      /\ args' = Append(args, x) /\ UNCHANGED <<file, vocabulary>>
  BY DEF Take
<1>2. Progress /\ ValidArgs(args)
  BY <1>1 DEF BuiltInv, Progress
<1>3. x.flag = flag /\ x.val = val
  OBVIOUS
<1>4. (flag = "--vhost" => val # {}) /\ (flag = "--route" => val # NoPath)
  BY <1>1, <1>3, ArgsAssumption DEF BuiltInv, NoPath
<1> HIDE DEF x
<1>5. IsSeq(args') /\ OneMore(args, args', x)
  BY <1>1, <1>2, AppendOneMore DEF ValidArgs
<1>6. ValidArgs(args')
  <2> SUFFICES ASSUME NEW i \in DOMAIN args'
               PROVE  /\ args'[i].flag = "--vhost" => args'[i].val # {}
                      /\ args'[i].flag = "--route" => args'[i].val # NoPath
    BY <1>5 DEF ValidArgs
  <2>1. (i \in DOMAIN args /\ args'[i] = args[i]) \/ args'[i] = x
    BY <1>5 DEF OneMore
  <2> QED
    BY <1>2, <1>3, <1>4, <2>1 DEF ValidArgs
<1> QED
  BY <1>1, <1>2, <1>4, <1>5, <1>6 DEF x

\* It leaves what is over alone.
LEMMA OverKept ==
  ASSUME BuiltInv, NEW flag, NEW val, Take(flag, val), flag # "--vhost", vhosts' = vhosts
  PROVE  HostsAsSaid(vhosts', LoadConfigFile(file'), args', OverBlocks(args'))
<1> DEFINE x == [flag |-> flag, val |-> val]
<1>1. OneMore(args, args', x) /\ Progress /\ file' = file
  BY TakeOneMore
<1>2. x.flag # "--vhost"
  OBVIOUS
<1> HIDE DEF x
<1>3. /\ OverBlocks(args') = OverBlocks(args)
      /\ OverBlocks(args') \in SUBSET (Blocks(args) \ {LastBlock(args')})
  BY <1>1, <1>2, OverBlocksMore
<1> QED
  BY <1>1, <1>3, HostsMore DEF Progress

LEMMA FailBuiltInv ==
  ASSUME BuiltInv, Fail, UNCHANGED <<file, vocabulary>>
  PROVE  BuiltInv'
BY DEF BuiltInv, Fail, HostsBuilt, Parsed

\* A flag that goes on with the same virtual host.
LEMMA GoesOn ==
  ASSUME BuiltInv, NEW flag, NEW val, Take(flag, val), flag # "--vhost", vhosts' = vhosts,
         status' = "parsing",
         CurSaid(args, curDomains, curTLS, curRoutes, curPath, curRoute)'
  PROVE  BuiltInv'
<1>1. /\ file' \in Files /\ vocabulary' \in Vocabularies /\ ValidArgs(args')
  BY TakeOneMore DEF BuiltInv
<1>2. HostsAsSaid(vhosts', LoadConfigFile(file'), args', OverBlocks(args'))
  BY OverKept
<1> QED
  BY <1>1, <1>2 DEF BuiltInv, Progress, HostsBuilt, Parsed

\* A flag that has nothing to do with a route.
LEMMA OtherFlagBuiltInv ==
  ASSUME BuiltInv, NEW flag, NEW val,
         \/ flag \in TlsFlags /\ TlsFlag(flag, val)
         \/ flag \in GlobalFlags /\ GlobalFlag(flag, val)
         \/ flag \in ListFlags /\ ListFlag(flag, val)
  PROVE  BuiltInv'
<1> DEFINE x == [flag |-> flag, val |-> val]
<1>1. Take(flag, val) /\ UNCHANGED <<file, vocabulary>>
  BY DEF TlsFlag, GlobalFlag, ListFlag, Take
<1>2. CASE Fail
  BY <1>1, <1>2, FailBuiltInv
<1>3. CASE ~Fail
  <2>1. /\ UNCHANGED <<vhosts, curDomains, curRoutes, curPath, curRoute>> /\ status' = "parsing"
        /\ IF flag \in TlsFlags THEN curTLS' = [curTLS EXCEPT ![flag] = val] ELSE curTLS' = curTLS
    <3>1. TlsFlags \cap (GlobalFlags \cup ListFlags) = {}
      BY DEF TlsFlags, GlobalFlags, ListFlags, JwtFlags, AcmeFlags
    <3> QED
      BY <1>1, <1>3, <3>1 DEF TlsFlag, GlobalFlag, ListFlag, cur, Take
  <2>2. flag \notin RouteFlags \cup {"--vhost", "--route"}
    BY DEF RouteFlags, Options, Collected, HeaderFlags, TlsFlags, GlobalFlags, ListFlags, JwtFlags, AcmeFlags
  <2>3. OneMore(args, args', x) /\ ValidArgs(args) /\ x.flag = flag /\ x.val = val
        /\ CurSaid(args, curDomains, curTLS, curRoutes, curPath, curRoute)
    BY <1>1, TakeOneMore DEF Progress
  <2> HIDE DEF x
  <2>4. CurSaid(args', curDomains, curTLS', curRoutes, curPath, curRoute)
    BY <2>1, <2>2, <2>3, CurOther
  <2>5. CurSaid(args, curDomains, curTLS, curRoutes, curPath, curRoute)'
    BY <2>1, <2>4
  <2> QED
    BY <1>1, <2>1, <2>2, <2>5, GoesOn
<1> QED
  BY <1>2, <1>3

\* A flag of the route.
LEMMA SettingBuiltInv ==
  ASSUME BuiltInv, NEW flag \in RouteFlags, NEW val, Take(flag, val), NEW new, RouteSetting(new),
         OneMore(args, args', [flag |-> flag, val |-> val])
           /\ Concerns(args, LastBlock(args), curPath)
           /\ Taken(curRoute, args, LastBlock(args), curPath)
         => Taken(new, args', LastBlock(args), curPath)
  PROVE  BuiltInv'
<1> DEFINE x == [flag |-> flag, val |-> val]
<1>1. UNCHANGED <<file, vocabulary>> /\ status = "parsing"
  BY DEF Take
<1>2. CASE Fail
  BY <1>1, <1>2, FailBuiltInv
<1>3. CASE ~Fail
  <2>1. /\ curPath # NoPath /\ curRoute' = new /\ status' = "parsing"
        /\ UNCHANGED <<vhosts, curDomains, curTLS, curRoutes, curPath>>
    BY <1>1, <1>3 DEF RouteSetting
  <2>2. OneMore(args, args', x) /\ ValidArgs(args) /\ x.flag = flag
        /\ CurSaid(args, curDomains, curTLS, curRoutes, curPath, curRoute)
    BY TakeOneMore DEF Progress
  <2>3. Concerns(args, LastBlock(args), curPath) /\ Taken(curRoute, args, LastBlock(args), curPath)
        => Taken(new, args', LastBlock(args), curPath)
    BY <2>2
  <2> HIDE DEF x
  <2>4. CurSaid(args', curDomains, curTLS, curRoutes, curPath, new)
    BY <2>1, <2>2, <2>3, CurSetting
  <2>5. CurSaid(args, curDomains, curTLS, curRoutes, curPath, curRoute)'
    BY <2>1, <2>4
  <2>6. flag # "--vhost"
    BY DEF RouteFlags, Options, Collected, HeaderFlags
  <2> QED
    BY <2>1, <2>5, <2>6, GoesOn
<1> QED
  BY <1>2, <1>3

LEMMA RouteFlagsBuiltInv ==
  ASSUME BuiltInv, NEW f, NEW v,
         \/ f = "--dest" /\ DestFlag(v)
         \/ f \in Options /\ OptionFlag(f, v)
         \/ f \in Collected /\ CollectFlag(f, v)
         \/ f \in HeaderFlags /\ HeaderFlag(f, v)
  PROVE  BuiltInv'
<1> DEFINE x == [flag |-> f, val |-> v]
           b == LastBlock(args)
           about == /\ OneMore(args, args', x) /\ Concerns(args, b, curPath)
                    /\ Taken(curRoute, args, b, curPath)
<1>0. x.flag = f /\ x.val = v
  OBVIOUS
<1>1. /\ Take(f, v) /\ f \in RouteFlags /\ UNCHANGED <<file, vocabulary>>
  BY DEF DestFlag, OptionFlag, CollectFlag, HeaderFlag, Take, RouteFlags
<1>2. CASE Fail
  BY <1>1, <1>2, FailBuiltInv
<1>3. CASE f = "--dest" /\ DestFlag(v)
  <2> DEFINE new == [curRoute EXCEPT !.entries = Append(@, v)]
  <2>1. RouteSetting(new)
    BY <1>3 DEF DestFlag
  <2> HIDE DEF x, b
  <2>2. about => Taken(new, args', b, curPath)
    BY <1>0, <1>3, TakenDest
  <2> HIDE DEF new
  <2> QED
    BY <1>1, <2>1, <2>2, SettingBuiltInv DEF x, b
<1>4. CASE f \in Options /\ OptionFlag(f, v) /\ ~Fail
  <2> DEFINE val == IF f = "--load-balancer-mode" THEN NormalizeLBMode(v) ELSE v
             new == [curRoute EXCEPT !.opt[f] = val]
  <2>1. RouteSetting(new)
    BY <1>4 DEF OptionFlag
  <2> HIDE DEF x, b
  <2>2. ASSUME about PROVE Taken(new, args', b, curPath)
    <3>1. val = IF x.flag = "--load-balancer-mode" THEN NormalizeLBMode(x.val) ELSE x.val
      BY <1>0
    <3> HIDE DEF val
    <3>2. Taken([curRoute EXCEPT !.opt[x.flag] = val], args', b, curPath)
      BY <1>0, <1>4, <2>2, <3>1, TakenOption
    <3> QED
      BY <1>0, <3>2
  <2> HIDE DEF new
  <2> QED
    BY <1>1, <2>1, <2>2, SettingBuiltInv DEF x, b
<1>5. CASE f \in Collected /\ CollectFlag(f, v)
  <2> DEFINE derived == IF v # "*" THEN {}
                        ELSE CASE f = "--dest-del-header" -> {"DeleteHasWildcard"}
                               [] f = "--client-del-header" -> {"ClientDelHasWildcard"}
                               [] OTHER -> {}
             new == [curRoute EXCEPT !.many[f] = Append(@, v), !.flags = @ \cup derived]
  <2>1. RouteSetting(new)
    BY <1>5 DEF CollectFlag
  <2>2. /\ v = "*" /\ f = "--dest-del-header" => "DeleteHasWildcard" \in derived
        /\ v = "*" /\ f = "--client-del-header" => "ClientDelHasWildcard" \in derived
    OBVIOUS
  <2> HIDE DEF x, b, derived
  <2>3. ASSUME about PROVE Taken(new, args', b, curPath)
    <3>1. Taken([curRoute EXCEPT !.many[x.flag] = Append(@, x.val), !.flags = @ \cup derived],
                args', b, curPath)
      BY <1>0, <1>5, <2>2, <2>3, TakenCollect
    <3> QED
      BY <1>0, <3>1
  <2> HIDE DEF new
  <2> QED
    BY <1>1, <2>1, <2>3, SettingBuiltInv DEF x, b
<1>6. CASE f \in HeaderFlags /\ HeaderFlag(f, v) /\ ~Fail
  <2> DEFINE new == [curRoute EXCEPT !.add[f][v.name] = v.kind, !.flags = @ \cup HeaderDerived(f, v.kind)]
  <2>1. RouteSetting(new)
    BY <1>6 DEF HeaderFlag
  <2> HIDE DEF x, b
  <2>2. ASSUME about PROVE Taken(new, args', b, curPath)
    <3>1. Taken([curRoute EXCEPT !.add[x.flag][x.val.name] = x.val.kind,
                                 !.flags = @ \cup HeaderDerived(x.flag, x.val.kind)],
                args', b, curPath)
      BY <1>0, <1>6, <2>2, TakenHeader
    <3> QED
      BY <1>0, <3>1
  <2> HIDE DEF new
  <2> QED
    BY <1>1, <2>1, <2>2, SettingBuiltInv DEF x, b
<1> QED
  BY <1>2, <1>3, <1>4, <1>5, <1>6

\* --route.
LEMMA RouteFlagBuiltInv ==
  ASSUME BuiltInv, NEW v, RouteFlag(v)
  PROVE  BuiltInv'
<1> DEFINE x == [flag |-> "--route", val |-> v]
           fl == FlushedRoutes
<1>1. Take("--route", v) /\ UNCHANGED <<file, vocabulary>>
  BY DEF RouteFlag, Take
<1>2. CASE Fail
  BY <1>1, <1>2, FailBuiltInv
<1>3. CASE ~Fail
  <2>1. /\ ~FlushRouteFails /\ curRoutes' = fl /\ curPath' = v
        /\ curRoute' = IF v \in DOMAIN fl THEN fl[v] ELSE EmptyRoute
        /\ UNCHANGED <<vhosts, curDomains, curTLS>> /\ status' = "parsing"
    BY <1>1, <1>3 DEF RouteFlag, Take
  <2>2. /\ OneMore(args, args', x) /\ ValidArgs(args) /\ x.flag = "--route" /\ x.val = v /\ v # NoPath
        /\ CurSaid(args, curDomains, curTLS, curRoutes, curPath, curRoute)
    BY <1>1, TakeOneMore DEF Progress
  <2>3. curPath # NoPath => ~DestError(curRoute.entries)
    BY <2>1 DEF FlushRouteFails
  <2>4. fl = Flushed(curRoutes, curPath, curRoute)
    BY DEF FlushedRoutes, Flushed
  <2> HIDE DEF x, fl
  <2>5. CurSaid(args', curDomains, curTLS, fl, x.val, IF x.val \in DOMAIN fl THEN fl[x.val] ELSE EmptyRoute)
    BY <2>2, <2>3, <2>4, CurRouteFlag
  <2>6. CurSaid(args, curDomains, curTLS, curRoutes, curPath, curRoute)'
    BY <2>1, <2>2, <2>5
  <2> QED
    BY <1>1, <2>1, <2>6, GoesOn
<1> QED
  BY <1>2, <1>3

\* --vhost: the last block is over.
LEMMA VHostFlagBuiltInv ==
  ASSUME BuiltInv, IInv, NEW v, VHostFlag(v)
  PROVE  BuiltInv'
<1> DEFINE x == [flag |-> "--vhost", val |-> v]
           base == LoadConfigFile(file)
<1>1. Take("--vhost", v) /\ UNCHANGED <<file, vocabulary>>
  BY DEF VHostFlag, Take
<1>2. CASE Fail
  BY <1>1, <1>2, FailBuiltInv
<1>3. CASE ~Fail
  <2>1. /\ ~FlushVHostFails /\ vhosts' = FlushedVHosts
        /\ curRoutes' = NoRoutes /\ curPath' = NoPath /\ curRoute' = EmptyRoute
        /\ curTLS' = IF FlushedRoutes = NoRoutes THEN curTLS ELSE NoTLS
        /\ curDomains' = v /\ status' = "parsing"
    BY <1>1, <1>3 DEF VHostFlag, Take
  <2>2. /\ OneMore(args, args', x) /\ ValidArgs(args) /\ ValidArgs(args')
        /\ x.flag = "--vhost" /\ x.val = v
        /\ CurSaid(args, curDomains, curTLS, curRoutes, curPath, curRoute) /\ Progress
    BY <1>1, TakeOneMore DEF Progress
  <2> HIDE DEF x
  <2>3. /\ HostsAsSaid(FlushedVHosts, base, args, RouteBlocks(args))
        /\ FlushedRoutes = NoRoutes <=> Paths(args, LastBlock(args)) = {}
    BY <2>1, <2>2, HostsFlushed DEF BuiltInv, Progress, IInv
  <2>4. curTLS' = IF Paths(args, LastBlock(args)) = {} THEN curTLS ELSE NoTLS
    BY <2>1, <2>3
  <2>5. CurSaid(args', x.val, curTLS', NoRoutes, NoPath, EmptyRoute)
    BY <2>2, <2>4, CurVHostFlag
  <2>6. CurSaid(args, curDomains, curTLS, curRoutes, curPath, curRoute)'
    BY <2>1, <2>2, <2>5
  <2>7. HostsAsSaid(vhosts, base, args, OverBlocks(args))'
    <3>1. /\ OverBlocks(args') = RouteBlocks(args)
          /\ OverBlocks(args') \in SUBSET (Blocks(args) \ {LastBlock(args')})
      BY <2>2, OverBlocksMore
    <3> HIDE DEF base
    <3>2. HostsAsSaid(vhosts', base, args', OverBlocks(args'))
      BY <2>1, <2>2, <2>3, <3>1, HostsMore
    <3>3. base' = base
      BY <1>1 DEF base
    <3> QED
      BY <3>2, <3>3
  <2> QED
    BY <1>1, <2>1, <2>2, <2>6, <2>7 DEF BuiltInv, Progress, HostsBuilt, Parsed
<1> QED
  BY <1>2, <1>3

\* The end: so is the command line.
LEMMA FinishBuiltInv ==
  ASSUME BuiltInv, IInv, Finish
  PROVE  BuiltInv'
<1>1. status = "parsing" /\ UNCHANGED <<file, vocabulary, args>> /\ Progress
  BY DEF Finish, BuiltInv
<1>2. CASE Fail
  BY <1>1, <1>2, FailBuiltInv
<1>3. CASE ~Fail
  <2>1. ~FlushVHostFails /\ vhosts' = FlushedVHosts /\ status' = "parsed"
    BY <1>3 DEF Finish
  <2>2. HostsAsSaid(FlushedVHosts, LoadConfigFile(file), args, RouteBlocks(args))
    BY <1>1, <2>1, HostsFlushed DEF BuiltInv, Progress, IInv
  <2>3. HostsAsSaid(vhosts', LoadConfigFile(file'), args', RouteBlocks(args'))
    BY <1>1, <2>1, <2>2
  <2> QED
    BY <1>1, <2>1, <2>3 DEF BuiltInv, HostsBuilt
<1> QED
  BY <1>2, <1>3

LEMMA NextBuiltInv == BuiltInv /\ IInv /\ [Next]_vars => BuiltInv'
<1> SUFFICES ASSUME BuiltInv, IInv, [Next]_vars PROVE BuiltInv'
  OBVIOUS
<1>1. CASE BadFlag
  <2>1. Fail /\ UNCHANGED <<file, vocabulary>>
    BY <1>1 DEF BadFlag, Take
  <2> QED
    BY <2>1, FailBuiltInv
<1>2. CASE Validate
  <2>1. /\ status \in {"parsed"} /\ status' \in {"rejected", "accepted"}
        /\ UNCHANGED <<file, vocabulary, vhosts, args>>
    BY <1>2 DEF Validate
  <2> QED
    BY <2>1 DEF BuiltInv, HostsBuilt, Parsed
<1>3. CASE UNCHANGED vars
  <2>1. UNCHANGED <<file, vocabulary, vhosts, args, status, curDomains, curTLS, curRoutes, curPath, curRoute>>
    BY <1>3 DEF vars
  <2>2. Progress' <=> Progress
    BY <2>1 DEF Progress
  <2> QED
    BY <2>1, <2>2 DEF BuiltInv, HostsBuilt, Parsed
<1>4. CASE Finish
  BY <1>4, FinishBuiltInv
<1>5. ASSUME NEW v, VHostFlag(v) \/ RouteFlag(v) PROVE BuiltInv'
  BY <1>5, VHostFlagBuiltInv, RouteFlagBuiltInv
<1>6. ASSUME NEW f, NEW v,
             \/ f \in TlsFlags /\ TlsFlag(f, v)
             \/ f \in GlobalFlags /\ GlobalFlag(f, v)
             \/ f \in ListFlags /\ ListFlag(f, v)
      PROVE  BuiltInv'
  BY <1>6, OtherFlagBuiltInv
<1>7. ASSUME NEW v, DestFlag(v) PROVE BuiltInv'
  BY <1>7, RouteFlagsBuiltInv
<1>8. ASSUME NEW f, NEW v,
             \/ f \in Options /\ OptionFlag(f, v)
             \/ f \in Collected /\ CollectFlag(f, v)
             \/ f \in HeaderFlags /\ HeaderFlag(f, v)
      PROVE  BuiltInv'
  BY <1>8, RouteFlagsBuiltInv
<1> QED
  BY <1>1, <1>2, <1>3, <1>4, <1>5, <1>6, <1>7, <1>8 DEF Next

-----------------------------------------------------------------------------
(* The global settings. *)

\* One more argument is one more value of its own flag.
LEMMA AnywhereMore ==
  ASSUME NEW line, NEW more, NEW x, OneMore(line, more, x), NEW flag
  PROVE  /\ IsSeq(SaidAnywhere(line, flag))
         /\ SaidAnywhere(more, flag) =
              IF x.flag = flag THEN Append(SaidAnywhere(line, flag), x.val)
              ELSE SaidAnywhere(line, flag)
<1> DEFINE at(l) == {i \in DOMAIN l : l[i].flag = flag}
<1>1. /\ at(line) \in SUBSET (1 .. Len(line))
      /\ at(more) = at(line) \cup (IF x.flag = flag THEN {Len(line) + 1} ELSE {})
  BY DEF OneMore
<1>2. /\ SaidAnywhere(line, flag) = ValuesAt(line, at(line))
      /\ SaidAnywhere(more, flag) = ValuesAt(more, at(more))
  BY DEF SaidAnywhere
<1> HIDE DEF at
<1>3. /\ IsSeq(ValuesAt(line, at(line)))
      /\ ValuesAt(more, at(line)) = ValuesAt(line, at(line))
      /\ ValuesAt(more, at(line) \cup {Len(line) + 1}) = Append(ValuesAt(line, at(line)), x.val)
  BY <1>1, ValuesMore
<1>4. CASE x.flag = flag
  BY <1>1, <1>2, <1>3, <1>4
<1>5. CASE x.flag # flag
  <2>1. at(more) = at(line)
    BY <1>1, <1>5
  <2> QED
    BY <1>2, <1>3, <1>5, <2>1
<1> QED
  BY <1>4, <1>5

\* What is added to the end of a sequence after another.
LEMMA AppendAfter ==
  ASSUME NEW s, IsSeq(s), NEW t, IsSeq(t), NEW e
  PROVE  Append(s \o t, e) = s \o Append(t, e)
<1> DEFINE S == Range(s) \cup Range(t) \cup {e}
<1>1. s \in Seq(S) /\ t \in Seq(S) /\ e \in S
  BY SeqMonotonic DEF IsSeq
<1> HIDE DEF S
<1> QED
  BY <1>1

\* While nothing is wrong the global settings are those of the file with those
\* of the arguments so far.
GlobalsInv ==
  /\ file \in Files
  /\ status # "error" =>
       /\ IsSeq(args)
       /\ globals = [g \in GlobalFlags \cup ListFlags |-> globals[g]]
       /\ GlobalsAsSaid(globals, file.globals, args)

LEMMA InitGlobalsInv == Init => GlobalsInv
<1> SUFFICES ASSUME Init PROVE GlobalsInv
  OBVIOUS
<1>1. file \in Files /\ globals = file.globals /\ args = <<>>
  BY DEF Init
<1>2. \A flag : SaidAnywhere(args, flag) = <<>>
  <2>1. \A flag : {i \in DOMAIN args : args[i].flag = flag} = {}
    BY <1>1
  <2>2. ValuesAt(args, {}) = <<>>
    BY FS_EmptySet, ValuesDef
  <2> QED
    BY <2>1, <2>2 DEF SaidAnywhere
<1>3. \A g \in GlobalFlags : globals[g] = LastSaid(SaidAnywhere(args, g), file.globals[g])
  BY <1>1, <1>2 DEF LastSaid
<1>4. \A l \in ListFlags : globals[l] = file.globals[l] \o SaidAnywhere(args, l)
  <2> SUFFICES ASSUME NEW l \in ListFlags PROVE globals[l] = globals[l] \o <<>>
    BY <1>1, <1>2
  <2>1. globals[l] \in Seq(Range(globals[l]))
    BY <1>1, GlobalsAssumption
  <2> QED
    BY <2>1
<1>5. globals = [g \in GlobalFlags \cup ListFlags |-> globals[g]]
  BY <1>1, GlobalsAssumption
<1>6. IsSeq(args)
  BY <1>1, EmptySeq DEF IsSeq
<1> QED
  BY <1>1, <1>3, <1>4, <1>5, <1>6 DEF GlobalsInv, GlobalsAsSaid

LEMMA FailGlobalsInv ==
  ASSUME GlobalsInv, status' = "error", UNCHANGED file
  PROVE  GlobalsInv'
BY DEF GlobalsInv

\* A flag that is not a global one leaves them alone.
LEMMA OtherGlobalsInv ==
  ASSUME GlobalsInv, NEW flag, NEW val, Take(flag, val), UNCHANGED globals,
         flag \notin GlobalFlags \cup ListFlags
  PROVE  GlobalsInv'
<1> DEFINE x == [flag |-> flag, val |-> val]
<1>1. /\ status # "error" /\ args' = Append(args, x) /\ UNCHANGED file /\ IsSeq(args)
  BY DEF Take, GlobalsInv
<1>2. x.flag = flag
  OBVIOUS
<1> HIDE DEF x
<1>3. OneMore(args, args', x) /\ IsSeq(args')
  BY <1>1, AppendOneMore
<1>4. \A g \in GlobalFlags \cup ListFlags : SaidAnywhere(args', g) = SaidAnywhere(args, g)
  BY <1>2, <1>3, AnywhereMore
<1> QED
  BY <1>1, <1>3, <1>4 DEF GlobalsInv, GlobalsAsSaid

LEMMA GlobalFlagGlobalsInv ==
  ASSUME GlobalsInv, NEW flag \in GlobalFlags, NEW val, GlobalFlag(flag, val)
  PROVE  GlobalsInv'
<1> DEFINE x == [flag |-> flag, val |-> val]
<1>1. /\ status # "error" /\ args' = Append(args, x) /\ UNCHANGED file /\ IsSeq(args)
      /\ globals = [g \in GlobalFlags \cup ListFlags |-> globals[g]]
      /\ GlobalsAsSaid(globals, file.globals, args)
  BY DEF GlobalFlag, Take, GlobalsInv
<1>2. x.flag = flag /\ x.val = val /\ GlobalFlags \cap ListFlags = {}
  BY DEF GlobalFlags, ListFlags, JwtFlags, AcmeFlags
<1> HIDE DEF x
<1>3. OneMore(args, args', x) /\ IsSeq(args')
  BY <1>1, AppendOneMore
<1>4. CASE Fail
  BY <1>1, <1>4, FailGlobalsInv DEF Fail
<1>5. CASE ~Fail
  <2>1. globals' = [globals EXCEPT ![flag] = val]
    BY <1>5 DEF GlobalFlag
  <2>2. /\ globals' = [g \in GlobalFlags \cup ListFlags |-> globals'[g]]
        /\ globals'[flag] = val
        /\ \A g \in (GlobalFlags \cup ListFlags) \ {flag} : globals'[g] = globals[g]
    BY <1>1, <2>1
  <2>3. \A g : g # flag => SaidAnywhere(args', g) = SaidAnywhere(args, g)
    BY <1>2, <1>3, AnywhereMore
  <2>4. \A d : LastSaid(SaidAnywhere(args', flag), d) = val
    <3>1. /\ IsSeq(SaidAnywhere(args, flag))
          /\ SaidAnywhere(args', flag) = Append(SaidAnywhere(args, flag), val)
      BY <1>2, <1>3, AnywhereMore
    <3> QED
      BY <3>1, LastMore
  <2>5. GlobalsAsSaid(globals', file.globals, args')
    BY <1>1, <1>2, <2>2, <2>3, <2>4 DEF GlobalsAsSaid
  <2> QED
    BY <1>1, <1>3, <2>2, <2>5 DEF GlobalsInv
<1> QED
  BY <1>4, <1>5

LEMMA ListFlagGlobalsInv ==
  ASSUME GlobalsInv, NEW flag \in ListFlags, NEW val, ListFlag(flag, val)
  PROVE  GlobalsInv'
<1> DEFINE x == [flag |-> flag, val |-> val]
           base == file.globals
<1>1. /\ status # "error" /\ args' = Append(args, x) /\ UNCHANGED file /\ IsSeq(args)
      /\ globals = [g \in GlobalFlags \cup ListFlags |-> globals[g]]
      /\ GlobalsAsSaid(globals, base, args)
      /\ IsSeq(base[flag])
  BY GlobalsAssumption DEF ListFlag, Take, GlobalsInv, IsSeq
<1>2. x.flag = flag /\ x.val = val /\ GlobalFlags \cap ListFlags = {}
  BY DEF GlobalFlags, ListFlags, JwtFlags, AcmeFlags
<1>a. base' = base
  BY <1>1
<1> HIDE DEF x, base
<1>3. OneMore(args, args', x) /\ IsSeq(args')
  BY <1>1, AppendOneMore
<1>4. CASE Fail
  BY <1>1, <1>4, FailGlobalsInv DEF Fail
<1>5. CASE ~Fail
  <2>1. globals' = [globals EXCEPT ![flag] = Append(@, val)]
    BY <1>5 DEF ListFlag
  <2>2. /\ globals' = [g \in GlobalFlags \cup ListFlags |-> globals'[g]]
        /\ globals'[flag] = Append(globals[flag], val)
        /\ \A g \in (GlobalFlags \cup ListFlags) \ {flag} : globals'[g] = globals[g]
    BY <1>1, <2>1
  <2>3. \A g : g # flag => SaidAnywhere(args', g) = SaidAnywhere(args, g)
    BY <1>2, <1>3, AnywhereMore
  <2>4. globals'[flag] = base[flag] \o SaidAnywhere(args', flag)
    <3>1. /\ IsSeq(SaidAnywhere(args, flag))
          /\ SaidAnywhere(args', flag) = Append(SaidAnywhere(args, flag), val)
      BY <1>2, <1>3, AnywhereMore
    <3>2. globals[flag] = base[flag] \o SaidAnywhere(args, flag)
      BY <1>1 DEF GlobalsAsSaid
    <3>3. Append(base[flag] \o SaidAnywhere(args, flag), val)
            = base[flag] \o Append(SaidAnywhere(args, flag), val)
      <4>1. IsSeq(base[flag]) /\ IsSeq(SaidAnywhere(args, flag))
        BY <1>1, <3>1
      <4>2. ASSUME NEW s, NEW t, IsSeq(s), IsSeq(t)
            PROVE  Append(s \o t, val) = s \o Append(t, val)
        BY <4>2, AppendAfter
      <4> QED
        BY <4>1, <4>2
    <3>4. globals'[flag] = Append(globals[flag], val)
      BY <2>2
    <3>5. base[flag] \o SaidAnywhere(args', flag) = base[flag] \o Append(SaidAnywhere(args, flag), val)
      BY ONLY <3>1
    <3>6. Append(globals[flag], val) = Append(base[flag] \o SaidAnywhere(args, flag), val)
      BY ONLY <3>2
    <3> QED
      BY ONLY <3>3, <3>4, <3>5, <3>6
  <2>5. GlobalsAsSaid(globals', base, args')
    BY <1>1, <1>2, <2>2, <2>3, <2>4 DEF GlobalsAsSaid
  <2> QED
    BY <1>1, <1>3, <2>2, <2>5 DEF GlobalsInv, base
<1> QED
  BY <1>4, <1>5

LEMMA NextGlobalsInv == GlobalsInv /\ [Next]_vars => GlobalsInv'
<1> SUFFICES ASSUME GlobalsInv, [Next]_vars PROVE GlobalsInv'
  OBVIOUS
<1>1. ASSUME NEW f, NEW v,
             \/ f = "--vhost" /\ VHostFlag(v)
             \/ f \in TlsFlags /\ TlsFlag(f, v)
             \/ f = "--route" /\ RouteFlag(v)
             \/ f = "--dest" /\ DestFlag(v)
             \/ f \in Options /\ OptionFlag(f, v)
             \/ f \in Collected /\ CollectFlag(f, v)
             \/ f \in HeaderFlags /\ HeaderFlag(f, v)
      PROVE  GlobalsInv'
  <2>1. Take(f, v) /\ UNCHANGED globals
    BY <1>1 DEF VHostFlag, TlsFlag, RouteFlag, DestFlag, OptionFlag, CollectFlag, HeaderFlag,
                RouteSetting, Fail
  <2>2. f \notin GlobalFlags \cup ListFlags
    BY <1>1 DEF TlsFlags, Options, Collected, HeaderFlags, GlobalFlags, ListFlags, JwtFlags, AcmeFlags
  <2> QED
    BY <2>1, <2>2, OtherGlobalsInv
<1>2. ASSUME NEW f, NEW v,
             \/ f \in GlobalFlags /\ GlobalFlag(f, v)
             \/ f \in ListFlags /\ ListFlag(f, v)
      PROVE  GlobalsInv'
  BY <1>2, GlobalFlagGlobalsInv, ListFlagGlobalsInv
<1>3. CASE BadFlag
  BY <1>3, FailGlobalsInv DEF BadFlag, Fail, Take
<1>4. CASE Finish \/ Validate
  <2>1. UNCHANGED <<file, globals, args>> /\ status # "error"
    BY <1>4 DEF Finish, Validate, Fail
  <2> QED
    BY <2>1 DEF GlobalsInv
<1>5. CASE UNCHANGED vars
  <2>1. UNCHANGED <<file, globals, args, status>>
    BY <1>5 DEF vars
  <2> QED
    BY <2>1 DEF GlobalsInv
<1> QED
  BY <1>1, <1>2, <1>3, <1>4, <1>5 DEF Next

\* Whatever the file and the flags, in whatever order: applyCLI builds what the
\* command line as a whole says, on top of what loadConfigFile has read.
THEOREM CommandLineBuiltAsSaid == Spec => []BuiltAsSaid
<1>1. BuiltInv /\ GlobalsInv => BuiltAsSaid
  BY DEF BuiltInv, HostsBuilt, GlobalsInv, BuiltAsSaid, Parsed
<1> QED
  BY <1>1, InitIInv, NextIInv, InitBuiltInv, NextBuiltInv, InitGlobalsInv, NextGlobalsInv,
     PTL DEF Spec
=============================================================================
