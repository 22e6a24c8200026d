------------------------- MODULE RequestPathProofs -------------------------
(***************************************************************************)
(* Theorems about RequestPath, for any number of addresses,                *)
(* configurations, requests, refreshes and reloads: the decision of        *)
(* IPFilter.Allow stands whatever happens while it is made; the walk of    *)
(* trusted_xff stops where the list says; the types; one configuration     *)
(* decides the whole answer, as README's tables have it; and the upstream  *)
(* gets the forwarding headers that the trust in the client calls for.     *)
(***************************************************************************)
EXTENDS RequestPath, SequenceTheorems, WellFoundedInduction, TLAPS

-----------------------------------------------------------------------------
(* The operators of Routing: compileVHosts, buildMux, the Director and the *)
(* two authentications do what README's tables say, for any set of virtual *)
(* hosts, routes and paths.                                                *)

\* A nonempty set of natural numbers has a least one.
LEMMA LeastExists ==
  ASSUME NEW S \in SUBSET Nat, S # {}
  PROVE  \E i \in S : \A j \in S : i <= j
  <1> DEFINE R == {ss \in Nat \X Nat : ss[1] < ss[2]}
  <1>1. IsWellFoundedOn(R, Nat)
    BY NatLessThanWellFounded DEF OpToRel
  <1>2. \E i \in S : \A j \in S : ~(<<j, i>> \in R)
    <2> HIDE DEF R
    <2> QED
      BY <1>1, WFMin, Zenon
  <1>3. \A i, j \in Nat : j < i => <<j, i>> \in R
    OBVIOUS
  <1>4. PICK i \in S : \A j \in S : ~(<<j, i>> \in R)
    BY <1>2, Zenon
  <1>5. ASSUME NEW j \in S PROVE i <= j
    <2>1. i \in Nat /\ j \in Nat
      OBVIOUS
    <2>2. ~(j < i)
      BY <1>3, <1>4, <2>1, Zenon
    <2> QED
      BY <2>1, <2>2
  <1> QED
    BY <1>5

-----------------------------------------------------------------------------
(* Virtual hosts. *)

\* The smallest of a set of places.
LEMMA FirstPlace ==
  ASSUME NEW S \in SUBSET Nat, S # {}
  PROVE  LET m == CHOOSE i \in S : \A j \in S : i <= j
         IN  m \in S /\ \A j \in S : m <= j
  BY LeastExists

\* No vhost has the empty domain, which isCatchAll puts last but which, unlike
\* "*", matchHost matches to no host that a client names.
NamedDomains(c) == \A i \in DOMAIN c.vhosts : "" \notin c.vhosts[i].domains

\* The vhost the handler finds is the one of README "Virtual hosts", in whatever
\* order the file has them.
LEMMA VHostIsDoc ==
  ASSUME NEW c, NamedDomains(c), DOMAIN c.vhosts = 1 .. Len(c.vhosts), Len(c.vhosts) \in Nat
  PROVE  /\ VHostFor(c.vhosts, in.host) = DocVHost(c)
         /\ DocVHost(c) # 0 => DocVHost(c) \in DOMAIN c.vhosts
  <1> DEFINE vs == c.vhosts
             all(i) == "*" \in vs[i].domains
             named == {i \in DOMAIN vs : in.host \in vs[i].domains /\ "*" \notin vs[i].domains}
             rest  == {i \in DOMAIN vs : "*" \in vs[i].domains}
             first(S) == CHOOSE i \in S : \A j \in S : i <= j
             matches == {i \in DOMAIN vs : MatchHost(vs[i], in.host)}
             ahead(i) == \A j \in matches \ {i} : Before(vs, i, j)
  <1>1. \A i \in DOMAIN vs : IsCatchAll(vs[i].domains) <=> all(i)
    BY DEF NamedDomains, IsCatchAll
  <1>2. matches = named \cup rest
    BY DEF MatchHost
  <1>3. DocVHost(c) = IF named # {} THEN first(named) ELSE IF rest # {} THEN first(rest) ELSE 0
    BY DEF DocVHost
  <1>4. VHostFor(vs, in.host) =
          IF SingleMux(vs) THEN 1 ELSE IF matches = {} THEN 0 ELSE CHOOSE i \in matches : ahead(i)
    BY DEF VHostFor
  <1>5. named \subseteq DOMAIN vs /\ rest \subseteq DOMAIN vs /\ DOMAIN vs \subseteq Nat \ {0}
    OBVIOUS
  <1>6. \A S \in SUBSET DOMAIN vs : S # {} => first(S) \in S /\ \A j \in S : first(S) <= j
    BY <1>5, FirstPlace
  <1>7. \A i, j \in DOMAIN vs : Before(vs, i, j) <=> IF all(i) <=> all(j) THEN i < j ELSE all(j)
    BY <1>1 DEF Before
  <1>8. CASE SingleMux(vs)
    <2>1. Len(vs) = 1 /\ all(1)
      BY <1>1, <1>8 DEF SingleMux
    <2>2. named = {} /\ rest = {1}
      BY <2>1
    <2>3. first(rest) = 1
      <3> HIDE DEF rest
      <3> QED
        BY <1>6, <2>2, <1>5
    <2> QED
      BY <1>3, <1>4, <1>8, <2>1, <2>2, <2>3
  <1>9. CASE ~SingleMux(vs) /\ matches = {}
    BY <1>2, <1>3, <1>4, <1>9
  <1>10. CASE ~SingleMux(vs) /\ matches # {}
    <2> DEFINE m == IF named # {} THEN first(named) ELSE first(rest)
    <2>1. /\ m \in matches
          /\ named # {} => m \in named /\ \A j \in named : m <= j
          /\ named = {} => m \in rest /\ matches = rest /\ \A j \in rest : m <= j
      <3> HIDE DEF first, named, rest, matches
      <3> QED
        BY <1>2, <1>5, <1>6, <1>10
    <2>2. DocVHost(c) = m
      BY <1>2, <1>3, <1>10
    <2> HIDE DEF m, first
    <2>3. \A i \in matches : i \in DOMAIN vs /\ i \in Nat /\ (i \in named <=> ~all(i))
      BY <1>5, <1>2
    <2>4. ahead(m)
      BY <1>2, <1>7, <2>1, <2>3
    <2>5. \A i \in matches : ahead(i) => i = m
      BY <1>7, <2>1, <2>3, <2>4
    <2>6. (CHOOSE i \in matches : ahead(i)) = m
      <3> HIDE DEF ahead, matches
      <3> QED
        BY <2>1, <2>4, <2>5
    <2> QED
      BY <1>4, <1>10, <2>1, <2>2, <2>3, <2>6
  <1> QED
    BY <1>8, <1>9, <1>10

-----------------------------------------------------------------------------
(* Paths and patterns. *)

LEMMA SlashText == Slash \in Texts
  BY DEF Texts

\* The first segments of a path.
LEMMA FrontOf ==
  ASSUME NEW S, NEW p \in Seq(S), NEW n \in Nat, n <= Len(p)
  PROVE  /\ SubSeq(p, 1, n) \in Seq(S) /\ Len(SubSeq(p, 1, n)) = n
         /\ \A k \in 1 .. n : SubSeq(p, 1, n)[k] = p[k]
  OBVIOUS

\* A path is its core, with or without a slash at the end.
LEMMA CoreOf ==
  ASSUME NEW p \in Seq(Texts)
  PROVE  /\ Core(p) \in Seq(Texts)
         /\ EndsInSlash(p) =>
              p = Append(Core(p), Slash) /\ Len(p) = Len(Core(p)) + 1 /\ Slashed(p) = p
         /\ ~EndsInSlash(p) => p = Core(p) /\ Slashed(p) = Append(p, Slash)
  <1>1. CASE EndsInSlash(p)
    <2>1. p # <<>> /\ p[Len(p)] = Slash /\ Core(p) = SubSeq(p, 1, Len(p) - 1) /\ Slashed(p) = p
      BY <1>1 DEF EndsInSlash, Core, Slashed
    <2>2. Len(p) \in Nat \ {0}
      BY <2>1
    <2>3. Core(p) \in Seq(Texts) /\ Len(Core(p)) = Len(p) - 1
      <3>1. Len(p) - 1 \in Nat /\ Len(p) - 1 <= Len(p)
        BY <2>2
      <3> QED
        BY <2>1, <3>1, FrontOf
    <2>4. \A k \in 1 .. Len(p) : p[k] = Append(Core(p), Slash)[k]
      BY <2>1, <2>2, <2>3
    <2>5. Append(Core(p), Slash) \in Seq(Texts) /\ Len(Append(Core(p), Slash)) = Len(p)
      BY <2>2, <2>3, SlashText
    <2>6. p = Append(Core(p), Slash)
      BY <2>4, <2>5, SeqEqual
    <2> QED
      BY <1>1, <2>1, <2>2, <2>3, <2>6
  <1>2. CASE ~EndsInSlash(p)
    BY <1>2 DEF Core, Slashed
  <1> QED
    BY <1>1, <1>2

\* The subtree pattern of a path.
LEMMA SlashedOf ==
  ASSUME NEW p \in Seq(Texts)
  PROVE  /\ Slashed(p) \in Seq(Texts) /\ EndsInSlash(Slashed(p))
         /\ Core(Slashed(p)) = Core(p)
         /\ Slashed(p) = Append(Core(p), Slash)
  <1>1. CASE EndsInSlash(p)
    BY <1>1, CoreOf
  <1>2. CASE ~EndsInSlash(p)
    <2> DEFINE a == Append(p, Slash)
    <2>1. Slashed(p) = a /\ Core(p) = p
      BY <1>2, CoreOf
    <2>2. a \in Seq(Texts) /\ a # <<>> /\ a[Len(a)] = Slash /\ Len(a) = Len(p) + 1
      BY SlashText
    <2>3. EndsInSlash(a)
      BY <2>2 DEF EndsInSlash
    <2>4. Core(a) \in Seq(Texts) /\ Len(Core(a)) = Len(p) /\ a = Append(Core(a), Slash)
      <3> HIDE DEF a
      <3> QED
        BY <2>2, <2>3, CoreOf
    <2>5. \A k \in 1 .. Len(p) : Core(a)[k] = p[k]
      <3>1. \A k \in 1 .. Len(p) : Append(p, Slash)[k] = p[k]
        OBVIOUS
      <3>2. \A k \in 1 .. Len(p) : Append(Core(a), Slash)[k] = Core(a)[k]
        BY <2>4
      <3> QED
        BY <2>4, <3>1, <3>2
    <2>6. Core(a) = p
      BY <2>4, <2>5, SeqEqual
    <2> QED
      BY <2>1, <2>2, <2>3, <2>6
  <1> QED
    BY <1>1, <1>2

LEMMA AppendSame ==
  ASSUME NEW p \in Seq(Texts), NEW q \in Seq(Texts), Append(p, Slash) = Append(q, Slash)
  PROVE  p = q
  <1>1. Len(p) = Len(q)
    <2>1. Len(Append(p, Slash)) = Len(p) + 1 /\ Len(Append(q, Slash)) = Len(q) + 1
      OBVIOUS
    <2> QED
      BY <2>1
  <1>2. \A k \in 1 .. Len(p) : Append(p, Slash)[k] = p[k] /\ Append(q, Slash)[k] = q[k]
    BY <1>1
  <1> QED
    BY <1>1, <1>2, SeqEqual

\* A pattern as http.ServeMux matches it.
Fits(q, path) == IF EndsInSlash(q) THEN Below(q, path) ELSE q = path

\* The beginning of a path, to compare cores with.
Begins(path, core) == Len(core) <= Len(path) /\ SubSeq(path, 1, Len(core)) = core

LEMMA WholeBegins ==
  ASSUME NEW path \in Seq(Texts), NEW core \in Seq(Texts), Len(core) = Len(path)
  PROVE  Begins(path, core) <=> core = path
  <1>1. SubSeq(path, 1, Len(path)) = path
    <2> DEFINE t == SubSeq(path, 1, Len(path))
    <2>1. t \in Seq(Texts) /\ Len(t) = Len(path)
      OBVIOUS
    <2>2. \A k \in 1 .. Len(path) : t[k] = path[k]
      OBVIOUS
    <2> QED
      BY <2>1, <2>2, SeqEqual
  <1> QED
    BY <1>1 DEF Begins

\* What a pattern matches, said of its core.
LEMMA FitsCore ==
  ASSUME NEW q \in Seq(Texts), NEW path \in Seq(Texts)
  PROVE  Fits(q, path) <=>
           /\ Begins(path, Core(q))
           /\ IF EndsInSlash(q) THEN Len(path) > Len(Core(q)) ELSE Len(path) = Len(Core(q))
  <1>1. CASE EndsInSlash(q)
    <2>1. Core(q) = SubSeq(q, 1, Len(q) - 1) /\ Len(q) = Len(Core(q)) + 1 /\ Len(Core(q)) \in Nat
      BY <1>1, CoreOf DEF Core
    <2>2. Fits(q, path) <=> Len(path) >= Len(q) /\ SubSeq(path, 1, Len(q) - 1) = Core(q)
      BY <1>1, <2>1 DEF Fits, Below
    <2>3. Len(q) - 1 = Len(Core(q)) /\ (Len(path) >= Len(q) <=> Len(path) > Len(Core(q)))
      BY <2>1
    <2> QED
      BY <1>1, <2>1, <2>2, <2>3 DEF Begins
  <1>2. CASE ~EndsInSlash(q)
    <2>1. Core(q) = q
      BY <1>2, CoreOf
    <2>2. Fits(q, path) <=> q = path
      BY <1>2 DEF Fits
    <2> QED
      BY <1>2, <2>1, <2>2, WholeBegins
  <1> QED
    BY <1>1, <1>2

\* A path belongs to a route when one of the two patterns of the route fits it.
LEMMA CoversFits ==
  ASSUME NEW p \in Seq(Texts), NEW path \in Seq(Texts)
  PROVE  /\ Covers(p, path) <=> Fits(p, path) \/ Fits(Slashed(p), path)
         /\ Covers(p, path) => Begins(path, Core(p))
  <1>1. Core(p) \in Seq(Texts) /\ Slashed(p) \in Seq(Texts)
        /\ Core(Slashed(p)) = Core(p) /\ EndsInSlash(Slashed(p))
    BY CoreOf, SlashedOf
  <1>2. Len(p) \in Nat /\ Len(path) \in Nat /\ Len(Core(p)) \in Nat
    BY <1>1
  <1>3. Fits(Slashed(p), path) <=> Begins(path, Core(p)) /\ Len(path) > Len(Core(p))
    BY <1>1, FitsCore
  <1>4. Fits(p, path) <=>
           /\ Begins(path, Core(p))
           /\ IF EndsInSlash(p) THEN Len(path) > Len(Core(p)) ELSE Len(path) = Len(Core(p))
    BY FitsCore
  <1>5. IF EndsInSlash(p) THEN Len(p) = Len(Core(p)) + 1 ELSE Len(p) = Len(Core(p))
    BY CoreOf
  <1>6. Covers(p, path) <=> Len(path) >= Len(p) /\ SubSeq(path, 1, Len(Core(p))) = Core(p)
    BY DEF Covers
  <1> QED
    BY <1>2, <1>3, <1>4, <1>5, <1>6 DEF Begins

-----------------------------------------------------------------------------
(* The routes of a virtual host. *)

\* Routes for which buildMux does not panic.
GoodRoutes(routes) == ~MuxPanics(routes) /\ \A p \in DOMAIN routes : IsPath(p)

LEMMA GoodPath ==
  ASSUME NEW routes, GoodRoutes(routes), NEW p \in DOMAIN routes
  PROVE  p \in Seq(Texts)
  BY DEF GoodRoutes, IsPath

\* The route of a pattern.
LEMMA RouteOfPattern ==
  ASSUME NEW routes, GoodRoutes(routes), NEW q \in Patterns(routes)
  PROVE  /\ RouteOf(routes, q) \in DOMAIN routes /\ q \in Seq(Texts)
         /\ q \in {RouteOf(routes, q), Slashed(RouteOf(routes, q))}
         /\ Core(RouteOf(routes, q)) = Core(q)
  <1>1. CASE q \in DOMAIN routes
    BY <1>1, GoodPath DEF RouteOf
  <1>2. CASE q \notin DOMAIN routes
    <2> DEFINE p == CHOOSE p \in DOMAIN routes : Slashed(p) = q
    <2>1. \E r \in DOMAIN routes : Slashed(r) = q
      BY <1>2 DEF Patterns
    <2>2. p \in DOMAIN routes /\ Slashed(p) = q
      BY <2>1
    <2>3. RouteOf(routes, q) = p
      BY <1>2 DEF RouteOf
    <2> HIDE DEF p
    <2>4. p \in Seq(Texts)
      BY <2>2, GoodPath
    <2> QED
      BY <2>2, <2>3, <2>4, SlashedOf
  <1> QED
    BY <1>1, <1>2

\* Two routes never differ in the slash at the end only.
LEMMA CoreDecides ==
  ASSUME NEW routes, GoodRoutes(routes), NEW p \in DOMAIN routes, NEW r \in DOMAIN routes,
         Core(p) = Core(r)
  PROVE  p = r
  <1>1. p \in Seq(Texts) /\ r \in Seq(Texts)
    BY GoodPath
  <1>2. \A s \in {p, r} : Slashed(s) = Append(Core(s), Slash)
    BY <1>1, SlashedOf
  <1>3. \A s \in {p, r} : s = IF EndsInSlash(s) THEN Slashed(s) ELSE Core(s)
    BY <1>1, CoreOf
  <1>4. \A s \in {p, r} : ~EndsInSlash(s) => Slashed(s) \notin DOMAIN routes
    BY DEF GoodRoutes, MuxPanics
  <1> QED
    BY <1>2, <1>3, <1>4

LEMMA MatchesFit ==
  ASSUME NEW routes, NEW path
  PROVE  Matches(routes, path) = {q \in Patterns(routes) : Fits(q, path)}
  BY DEF Matches, Fits

\* A path is matched when it belongs to a route.
LEMMA NoMatch ==
  ASSUME NEW routes, GoodRoutes(routes), NEW path \in Seq(Texts)
  PROVE  Matches(routes, path) = {} <=> \A p \in DOMAIN routes : ~Covers(p, path)
  <1>1. ASSUME NEW p \in DOMAIN routes, Covers(p, path) PROVE Matches(routes, path) # {}
    <2>1. p \in Patterns(routes) /\ Slashed(p) \in Patterns(routes)
      BY DEF Patterns
    <2>2. Fits(p, path) \/ Fits(Slashed(p), path)
      BY <1>1, CoversFits, GoodPath
    <2> QED
      BY <2>1, <2>2, MatchesFit
  <1>2. ASSUME NEW q \in Matches(routes, path)
        PROVE  \E p \in DOMAIN routes : Covers(p, path)
    <2> DEFINE p == RouteOf(routes, q)
    <2>1. q \in Patterns(routes) /\ Fits(q, path)
      BY MatchesFit
    <2>2. p \in DOMAIN routes /\ q \in {p, Slashed(p)}
      BY <2>1, RouteOfPattern
    <2> HIDE DEF p
    <2> QED
      BY <2>1, <2>2, CoversFits, GoodPath
  <1> QED
    BY <1>1, <1>2

\* http.ServeMux finds a longest match.
LEMMA LongestFits ==
  ASSUME NEW routes, GoodRoutes(routes), NEW path \in Seq(Texts), Matches(routes, path) # {}
  PROVE  LET q == Longest(Matches(routes, path))
         IN  /\ q \in Matches(routes, path)
             /\ \A r \in Matches(routes, path) : Len(Core(r)) <= Len(Core(q))
  <1> DEFINE M == Matches(routes, path)
             left(q) == Len(path) - Len(Core(q))
             S == {left(q) : q \in M}
  <1>1. \A q \in M : Len(Core(q)) \in Nat /\ Len(Core(q)) <= Len(path)
    <2> TAKE q \in M
    <2>1. q \in Patterns(routes) /\ Fits(q, path)
      BY MatchesFit
    <2>2. q \in Seq(Texts)
      BY <2>1, RouteOfPattern
    <2>3. Begins(path, Core(q)) /\ Core(q) \in Seq(Texts)
      BY <2>1, <2>2, FitsCore, CoreOf
    <2> QED
      BY <2>3 DEF Begins
  <1>2. S \in SUBSET Nat /\ S # {}
    BY <1>1
  <1>3. PICK i \in S : \A j \in S : i <= j
    <2> HIDE DEF S
    <2> QED
      BY <1>2, LeastExists
  <1>4. PICK q \in M : i = left(q)
    BY <1>3
  <1>5. \A r \in M : Len(Core(r)) <= Len(Core(q))
    <2> TAKE r \in M
    <2>1. left(q) <= left(r)
      BY <1>3, <1>4
    <2> QED
      BY <1>1, <2>1
  <1> QED
    BY <1>4, <1>5 DEF Longest

\* The route whose handler runs is the most specific one the path belongs to.
LEMMA RouteIsDoc ==
  ASSUME NEW routes, GoodRoutes(routes), NEW path \in Seq(Texts), Matches(routes, path) # {}
  PROVE  LET q == Longest(Matches(routes, path))
         IN  /\ RouteOf(routes, q) = DocRoute(routes, path)
             /\ DocRoute(routes, path) \in DOMAIN routes
             /\ q \in {DocRoute(routes, path), Slashed(DocRoute(routes, path))}
             /\ Fits(q, path)
  <1> DEFINE q == Longest(Matches(routes, path))
             p == RouteOf(routes, q)
             best(r) == Covers(r, path) /\ \A s \in DOMAIN routes :
                          Covers(s, path) => Len(Core(s)) <= Len(Core(r))
  <1>1. /\ q \in Patterns(routes) /\ Fits(q, path)
        /\ \A r \in Matches(routes, path) : Len(Core(r)) <= Len(Core(q))
    BY LongestFits, MatchesFit
  <1> HIDE DEF q
  <1>2. p \in DOMAIN routes /\ q \in {p, Slashed(p)} /\ Core(p) = Core(q)
    BY <1>1, RouteOfPattern
  <1> HIDE DEF p
  <1>3. Covers(p, path)
    BY <1>1, <1>2, CoversFits, GoodPath
  <1>4. ASSUME NEW s \in DOMAIN routes, Covers(s, path) PROVE Len(Core(s)) <= Len(Core(p))
    <2>1. s \in Seq(Texts) /\ s \in Patterns(routes) /\ Slashed(s) \in Patterns(routes)
      BY GoodPath DEF Patterns
    <2>2. Core(Slashed(s)) = Core(s) /\ (Fits(s, path) \/ Fits(Slashed(s), path))
      BY <1>4, <2>1, SlashedOf, CoversFits
    <2> QED
      BY <1>1, <1>2, <2>1, <2>2, MatchesFit
  <1>5. best(p)
    BY <1>3, <1>4
  <1>6. ASSUME NEW r \in DOMAIN routes, best(r) PROVE r = p
    <2>1. \A s \in {p, r} : Core(s) \in Seq(Texts) /\ Begins(path, Core(s))
      BY <1>2, <1>3, <1>6, CoversFits, GoodPath, CoreOf
    <2>2. Len(Core(r)) = Len(Core(p))
      <3>1. Len(Core(r)) <= Len(Core(p)) /\ Len(Core(p)) <= Len(Core(r))
        BY <1>2, <1>3, <1>4, <1>6
      <3>2. Len(Core(r)) \in Nat /\ Len(Core(p)) \in Nat
        BY <2>1
      <3> QED
        BY <3>1, <3>2
    <2>3. Core(r) = Core(p)
      BY <2>1, <2>2 DEF Begins
    <2> QED
      BY <1>2, <2>3, CoreDecides
  <1>7. DocRoute(routes, path) = CHOOSE r \in DOMAIN routes : best(r)
    BY DEF DocRoute
  <1>8. DocRoute(routes, path) = p
    <2> HIDE DEF best
    <2> QED
      BY <1>2, <1>5, <1>6, <1>7
  <1> QED
    BY <1>1, <1>2, <1>8 DEF p, q

\* http.ServeMux redirects the paths that are routes but for a slash.
LEMMA RedirectIsDoc ==
  ASSUME NEW routes, GoodRoutes(routes), NEW path \in Seq(Texts)
  PROVE  Redirected(routes, path) <=> DocRedirect(routes, path)
  <1>1. ASSUME Redirected(routes, path) PROVE DocRedirect(routes, path)
    <2>1. ~EndsInSlash(path) /\ path \notin DOMAIN routes /\ Slashed(path) \in Patterns(routes)
      BY <1>1 DEF Redirected, Patterns
    <2>2. Slashed(path) = Append(path, Slash) /\ Core(path) = path
      BY <2>1, CoreOf
    <2>3. ASSUME NEW r \in DOMAIN routes, Slashed(r) = Slashed(path) PROVE Slashed(path) \in DOMAIN routes
      <3>1. CASE EndsInSlash(r)
        BY <2>3, <3>1, CoreOf, GoodPath
      <3>2. CASE ~EndsInSlash(r)
        <4>1. Append(r, Slash) = Append(path, Slash) /\ r \in Seq(Texts)
          BY <2>2, <2>3, <3>2, CoreOf, GoodPath
        <4>2. r = path
          BY <4>1, AppendSame
        <4> QED
          BY <2>1, <4>2
      <3> QED
        BY <3>1, <3>2
    <2> QED
      BY <2>1, <2>2, <2>3 DEF DocRedirect, Patterns
  <1>2. ASSUME DocRedirect(routes, path) PROVE Redirected(routes, path)
    <2> DEFINE a == Append(path, Slash)
    <2>1. path \notin DOMAIN routes /\ a \in DOMAIN routes
      BY <1>2 DEF DocRedirect
    <2>2. \A k \in 1 .. Len(a) - 1 : a[k] # Slash
      BY <2>1 DEF GoodRoutes, IsPath
    <2>3. ~EndsInSlash(path)
      <3> SUFFICES ASSUME path # <<>>, path[Len(path)] = Slash PROVE FALSE
        BY DEF EndsInSlash
      <3>1. Len(path) \in 1 .. Len(a) - 1 /\ a[Len(path)] = path[Len(path)]
        OBVIOUS
      <3> QED
        BY <2>2, <3>1
    <2>4. Slashed(path) = a
      BY <2>3, CoreOf
    <2>5. path \notin Patterns(routes)
      <3> SUFFICES ASSUME NEW r \in DOMAIN routes, Slashed(r) = path PROVE FALSE
        BY <2>1 DEF Patterns
      <3> QED
        BY <2>3, SlashedOf, GoodPath
    <2> QED
      BY <2>1, <2>3, <2>4, <2>5 DEF Redirected, Patterns
  <1> QED
    BY <1>1, <1>2

\* The Director gives the upstream the path of README's tables.
LEMMA PathIsDoc ==
  ASSUME NEW p \in Seq(Texts), NEW q \in {p, Slashed(p)}, NEW path \in Seq(Texts),
         NEW dest \in Seq(Texts), Fits(q, path)
  PROVE  UpstreamPath(q, p, dest, path) = DocPath(p, dest, path)
  <1> DEFINE rest == SubSeq(path, Len(Core(p)) + 1, Len(path))
             base == IF q # p THEN Slashed(dest) ELSE dest
             stripped == SubSeq(path, Len(q), Len(path))
  <1>1. /\ q \in Seq(Texts) /\ Core(q) = Core(p)
        /\ Core(p) \in Seq(Texts) /\ Begins(path, Core(p))
        /\ Slashed(p) = Append(Core(p), Slash) /\ EndsInSlash(Slashed(p))
    BY CoreOf, SlashedOf, FitsCore
  <1>2. Core(Slashed(dest)) = Core(dest) /\ EndsInSlash(Slashed(dest))
        /\ Core(dest) \in Seq(Texts)
    BY CoreOf, SlashedOf
  <1>3. UpstreamPath(q, p, dest, path) =
          IF path = q THEN base
          ELSE IF EndsInSlash(base) THEN SubSeq(base, 1, Len(base) - 1) \o stripped
          ELSE base \o stripped
    BY DEF UpstreamPath
  <1>4. UpstreamPath(q, p, dest, path) = IF path = q THEN base ELSE Core(base) \o stripped
    BY <1>3 DEF Core
  <1>5. Core(base) = Core(dest)
    BY <1>2
  <1>6. /\ path = p => DocPath(p, dest, path) = dest
        /\ path # p /\ rest = <<Slash>> => DocPath(p, dest, path) = Slashed(dest)
        /\ path # p /\ rest # <<Slash>> => DocPath(p, dest, path) = Core(dest) \o rest
    BY DEF DocPath
  <1>7. CASE ~EndsInSlash(q)
    <2>1. q = path /\ q = p
      BY <1>1, <1>7 DEF Fits
    <2> QED
      BY <1>4, <1>6, <2>1
  <1>8. CASE EndsInSlash(q)
    <2>1. q = Append(Core(p), Slash) /\ Len(q) = Len(Core(p)) + 1 /\ Len(path) >= Len(q)
      BY <1>1, <1>8, CoreOf DEF Fits, Below
    <2>2. stripped = rest
      BY <2>1
    <2>3. rest = <<Slash>> <=> path = q
      <3>1. Len(Core(p)) \in Nat /\ Len(path) \in Nat /\ Len(path) > Len(Core(p))
        BY <1>1, <2>1
      <3>2. Len(rest) = Len(path) - Len(Core(p)) /\ rest[1] = path[Len(Core(p)) + 1]
        BY <3>1
      <3>3. \A k \in 1 .. Len(Core(p)) : path[k] = Core(p)[k] /\ q[k] = Core(p)[k]
        <4>1. \A k \in 1 .. Len(Core(p)) : SubSeq(path, 1, Len(Core(p)))[k] = path[k]
          BY <3>1, FrontOf
        <4>2. SubSeq(path, 1, Len(Core(p))) = Core(p)
          BY <1>1 DEF Begins
        <4>3. \A k \in 1 .. Len(Core(p)) : Append(Core(p), Slash)[k] = Core(p)[k]
          BY <1>1
        <4> QED
          BY <2>1, <4>1, <4>2, <4>3
      <3>4. q[Len(Core(p)) + 1] = Slash
        BY <1>1, <2>1
      <3>5. ASSUME rest = <<Slash>> PROVE path = q
        <4> HIDE DEF rest
        <4>1. Len(rest) = 1 /\ rest[1] = Slash
          BY <3>5
        <4>2. Len(path) = Len(q) /\ path[Len(Core(p)) + 1] = Slash
          <5>1. path[Len(Core(p)) + 1] = Slash
            BY <3>2, <4>1, Zenon
          <5>2. Len(path) - Len(Core(p)) = 1
            BY <3>2, <4>1, Zenon
          <5> QED
            BY <2>1, <3>1, <5>1, <5>2
        <4>3. \A k \in 1 .. Len(path) : path[k] = q[k]
          BY <2>1, <3>1, <3>3, <3>4, <4>2
        <4> QED
          BY <1>1, <4>2, <4>3, SeqEqual
      <3>6. ASSUME path = q PROVE rest = <<Slash>>
        <4>1. Len(rest) = 1 /\ rest[1] = Slash
          BY <2>1, <3>1, <3>2, <3>4, <3>6
        <4>2. rest \in Seq(Texts)
          BY <3>1
        <4> HIDE DEF rest
        <4> QED
          BY <4>1, <4>2
      <3> QED
        BY <3>5, <3>6
    <2> HIDE DEF rest, stripped
    <2>4. q # p => path # p
      <3> SUFFICES ASSUME q # p, path = p PROVE FALSE
        OBVIOUS
      <3>1. ~EndsInSlash(p)
        BY CoreOf
      <3>2. Len(p) = Len(Core(p))
        BY <3>1, CoreOf
      <3>3. Len(Core(p)) \in Nat
        BY <1>1
      <3> QED
        BY <2>1, <3>2, <3>3
    <2> QED
      BY <1>4, <1>5, <1>6, <2>2, <2>3, <2>4
  <1> QED
    BY <1>7, <1>8

-----------------------------------------------------------------------------
(* Authentication. *)

\* The two middlewares let in whom README admits, and turn away the others.
LEMMA AdmittedIsDoc ==
  ASSUME NEW c, NEW r
  PROVE  /\ AuthAnswer(c, r, in) = "pass" <=> DocAdmitted(c, r)
         /\ AuthAnswer(c, r, in) # "pass" => AuthAnswer(c, r, in) \in {"401", "403"}
  <1> DEFINE token == TokenOf(c.jwt, in)
             jwt == JwtAnswer(c, r, in)
             passes == c.jwt.on /\ ~r.skipJwt =>
                         /\ token \notin {"none", "bad"}
                         /\ c.jwt.claim => /\ token # "nobody"
                                           /\ token \in r.users \/ (r.users = {} /\ c.jwt.allowAll)
  <1>1. jwt \in {"pass", "401", "403"} /\ (jwt = "pass" <=> passes)
    BY DEF JwtAnswer
  <1>2. BasicAnswer(c, r, in) \in {"pass", "401"}
        /\ (BasicAnswer(c, r, in) = "pass" <=> EffectiveAuth(c, r) = "" \/ EffectiveAuth(c, r) = in.basic)
    BY DEF BasicAnswer
  <1>3. DocAdmitted(c, r) <=> passes /\ (EffectiveAuth(c, r) # "" => in.basic = EffectiveAuth(c, r))
    BY DEF DocAdmitted, EffectiveAuth
  <1>4. AuthAnswer(c, r, in) = IF jwt # "pass" THEN jwt ELSE BasicAnswer(c, r, in)
    BY DEF AuthAnswer
  <1> HIDE DEF jwt, passes
  <1> QED
    BY <1>1, <1>2, <1>3, <1>4

-----------------------------------------------------------------------------
(* The decision of Allow. *)

\* The places inside Allow.
FilterPlaces == {"lenAllowed", "lenBlocked", "inAllowed", "inBlocked"}

\* The places of a request that Allow has not decided on.
Undecided == FilterPlaces \cup {"arrived"}

ShapeInv ==
  /\ scenario \in Scenarios
  /\ served \in Configs[scenario] /\ cfg \in Configs[scenario]
  /\ nets \in [Lists(scenario) -> SUBSET Addrs]
  /\ has \in [allowed : BOOLEAN, blocked : BOOLEAN]
  /\ seen \in [ListNames -> SUBSET SUBSET Addrs]
  /\ verdict \in {None, "allow", "deny"}

\* Inside Allow: the lists as they are now are among those that were seen.
InAllowInv ==
  /\ pc \in Undecided => verdict = None
  /\ pc \in FilterPlaces =>
       /\ in.addr # NoAddr
       /\ Nets(cfg, "allowed") \in seen["allowed"]
       /\ Nets(cfg, "blocked") \in seen["blocked"]

\* What Allow knows from its earlier questions was true of a list it has seen.
AnswersInv ==
  /\ pc \in {"lenBlocked", "inAllowed", "inBlocked"} =>
       IF has.allowed THEN \E a \in seen["allowed"] : a # {} ELSE {} \in seen["allowed"]
  /\ pc \in {"inAllowed", "inBlocked"} /\ ~has.blocked => {} \in seen["blocked"]
  /\ pc = "inAllowed" => has.allowed
  /\ pc = "inBlocked" /\ has.allowed => \E a \in seen["allowed"] : in.addr \in a

FilterInv == ShapeInv /\ InAllowInv /\ AnswersInv /\ FilterDecisionStands

\* A step that leaves the lists, the decision and what was seen alone, and does
\* not lead to Allow.
LEMMA StepAside ==
  ASSUME FilterInv, pc' \notin Undecided,
         UNCHANGED <<env, in, cfg, has, verdict, seen>>
  PROVE  FilterInv'
  <1>1. ShapeInv'
    BY DEF FilterInv, ShapeInv, env, Lists
  <1>2. InAllowInv' /\ AnswersInv'
    BY DEF FilterPlaces, Undecided, InAllowInv, AnswersInv
  <1>3. FilterDecisionStands'
    BY DEF FilterInv, FilterDecisionStands, Permits
  <1> QED
    BY <1>1, <1>2, <1>3 DEF FilterInv

\* A refresh adds what it brings to what was seen of its list.
LEMMA RefreshSeen ==
  ASSUME FilterInv, NEW c \in Configs[scenario], NEW l \in c.lists, Refresh(c, l)
  PROVE  FilterInv'
  <1> USE DEF FilterInv
  <1>0. PICK new \in SUBSET Addrs :
          /\ nets' = [nets EXCEPT ![<<c, l>>] = new]
          /\ seen' = IF c = cfg /\ (verdict = None \/ l = "proxies")
                       THEN [seen EXCEPT ![l] = @ \cup {new}] ELSE seen
    BY DEF Refresh
  <1>1. UNCHANGED <<scenario, served, pc, in, cfg, has, verdict>>
    BY DEF Refresh
  <1>2. <<c, l>> \in Lists(scenario)
    BY DEF Lists
  <1>3. ShapeInv'
    BY <1>0, <1>1, <1>2 DEF ShapeInv, Lists, ListNames
  <1>4. \A m \in {"allowed", "blocked"} : seen[m] \subseteq seen'[m]
    BY <1>0 DEF ShapeInv, ListNames
  <1>5. \A m \in {"allowed", "blocked"} : verdict # None => seen'[m] = seen[m]
    BY <1>0 DEF ShapeInv, ListNames
  <1>6. ASSUME NEW m \in {"allowed", "blocked"}, pc \in FilterPlaces
        PROVE  Nets(cfg, m)' \in seen'[m]
    <2>1. verdict = None /\ Nets(cfg, m) \in seen[m]
      BY <1>6 DEF InAllowInv, FilterPlaces, Undecided
    <2>2. m \in cfg.lists => <<cfg, m>> \in Lists(scenario)
      BY DEF ShapeInv, Lists
    <2>3. CASE c = cfg /\ l = m
      BY <1>0, <1>1, <1>2, <2>1, <2>3 DEF Nets, ShapeInv, ListNames
    <2>4. CASE ~(c = cfg /\ l = m)
      <3>1. Nets(cfg, m)' = Nets(cfg, m)
        BY <1>0, <1>1, <2>2, <2>4 DEF Nets, ShapeInv
      <3> QED
        BY <2>1, <3>1, <1>4
    <2> QED
      BY <2>3, <2>4
  <1>7. InAllowInv'
    BY <1>1, <1>6 DEF InAllowInv, FilterPlaces, Undecided
  <1>8. AnswersInv'
    BY <1>1, <1>4 DEF AnswersInv
  <1>9. FilterDecisionStands'
    BY <1>1, <1>5 DEF FilterDecisionStands, Permits, None
  <1> QED
    BY <1>3, <1>7, <1>8, <1>9

\* Each of the four questions of Allow.
LEMMA Questions ==
  ASSUME FilterInv, ReadAllowedLen \/ ReadBlockedLen \/ ReadAllowed \/ ReadBlocked
  PROVE  FilterInv'
  <1> USE DEF FilterInv
  <1>0. UNCHANGED <<env, in, cfg, seen>>
    BY DEF ReadAllowedLen, ReadBlockedLen, ReadAllowed, ReadBlocked
  <1>n. Nets(cfg, "allowed")' = Nets(cfg, "allowed") /\ Nets(cfg, "blocked")' = Nets(cfg, "blocked")
    BY <1>0 DEF Nets, env
  <1>s. has' \in [allowed : BOOLEAN, blocked : BOOLEAN] /\ verdict' \in {None, "allow", "deny"}
        => ShapeInv'
    BY <1>0 DEF ShapeInv, env, Lists
  <1>1. CASE ReadAllowedLen
    BY <1>0, <1>n, <1>s, <1>1
       DEF ReadAllowedLen, ShapeInv, InAllowInv, AnswersInv, FilterDecisionStands, FilterPlaces, Undecided, None
  <1>2. CASE ReadBlockedLen
    <2>1. has' = [has EXCEPT !.blocked = Nets(cfg, "blocked") # {}] /\ pc = "lenBlocked"
      BY <1>2 DEF ReadBlockedLen
    <2>2. ShapeInv'
      BY <1>2, <1>s DEF ReadBlockedLen, ShapeInv
    <2>3. InAllowInv'
      BY <1>0, <1>n, <1>2 DEF ReadBlockedLen, InAllowInv, FilterPlaces, Undecided
    <2>4. AnswersInv'
      BY <1>0, <1>2 DEF ReadBlockedLen, ShapeInv, InAllowInv, AnswersInv, FilterPlaces, Undecided
    <2>5. FilterDecisionStands'
      BY <1>0, <1>2
         DEF ReadBlockedLen, ShapeInv, InAllowInv, AnswersInv, FilterDecisionStands,
             FilterPlaces, Undecided, Permits, None
    <2> QED
      BY <2>2, <2>3, <2>4, <2>5
  <1>3. CASE ReadAllowed
    <2>1. ShapeInv'
      BY <1>3, <1>s DEF ReadAllowed, ShapeInv
    <2>2. InAllowInv'
      BY <1>0, <1>n, <1>3
         DEF ReadAllowed, CloseConnection, Reply, InAllowInv, FilterPlaces, Undecided
    <2>3. AnswersInv'
      BY <1>0, <1>3
         DEF ReadAllowed, CloseConnection, Reply, Contains, InAllowInv, AnswersInv, FilterPlaces, Undecided
    <2>4. FilterDecisionStands'
      BY <1>0, <1>3
         DEF ReadAllowed, Contains, InAllowInv, AnswersInv, FilterDecisionStands,
             FilterPlaces, Undecided, Permits, None
    <2> QED
      BY <2>1, <2>2, <2>3, <2>4
  <1>4. CASE ReadBlocked
    <2>1. ShapeInv'
      BY <1>4, <1>s DEF ReadBlocked, ShapeInv
    <2>2. InAllowInv' /\ AnswersInv'
      BY <1>4 DEF ReadBlocked, CloseConnection, Reply, InAllowInv, AnswersInv, FilterPlaces, Undecided
    <2>3. FilterDecisionStands'
      BY <1>0, <1>4
         DEF ReadBlocked, Contains, InAllowInv, AnswersInv, FilterDecisionStands,
             FilterPlaces, Undecided, Permits, None
    <2> QED
      BY <2>1, <2>2, <2>3
  <1> QED
    BY <1>1, <1>2, <1>3, <1>4

LEMMA FilterInit == Init => FilterInv
  <1> SUFFICES ASSUME Init PROVE FilterInv
    OBVIOUS
  <1>1. ShapeInv
    BY DEF Init, ShapeInv, ListNames, None
  <1>2. InAllowInv /\ AnswersInv /\ FilterDecisionStands
    BY DEF Init, InAllowInv, AnswersInv, FilterDecisionStands, FilterPlaces, Undecided, None
  <1> QED
    BY <1>1, <1>2 DEF FilterInv

\* Every step of a request, of a refresh and of a reload keeps the invariant.
LEMMA FilterStep == FilterInv /\ [Next]_vars => FilterInv'
  <1> SUFFICES ASSUME FilterInv, [Next]_vars PROVE FilterInv'
    OBVIOUS
  <1>1. CASE Arrive
    <2>1. ShapeInv'
      BY <1>1 DEF Arrive, FilterInv, ShapeInv, env, Lists, None
    <2>2. InAllowInv' /\ AnswersInv' /\ FilterDecisionStands'
      BY <1>1 DEF Arrive, InAllowInv, AnswersInv, FilterDecisionStands, FilterPlaces, Undecided, None
    <2> QED
      BY <2>1, <2>2 DEF FilterInv
  <1>2. CASE LoadState
    <2>0. UNCHANGED <<env, in, has>> /\ cfg' = served
          /\ seen' = [l \in ListNames |-> {Nets(served, l)}]
      BY <1>2 DEF LoadState
    <2>1. \A l \in ListNames : Nets(served, l) \in SUBSET Addrs
      BY DEF FilterInv, ShapeInv, Nets, Lists
    <2>2. ShapeInv'
      BY <1>2, <2>0, <2>1 DEF LoadState, FilterInv, ShapeInv, env, Lists
    <2>3. Nets(cfg, "allowed")' \in seen'["allowed"] /\ Nets(cfg, "blocked")' \in seen'["blocked"]
      BY <2>0 DEF Nets, env, ListNames
    <2>4. pc' \in FilterPlaces => pc' = "lenAllowed" /\ verdict' = verdict /\ in.addr # NoAddr
      BY <1>2 DEF LoadState, CloseConnection, Reply, FilterPlaces, Undecided
    <2>5. InAllowInv'
      BY <1>2, <2>0, <2>3
         DEF LoadState, CloseConnection, Reply, FilterInv, InAllowInv, FilterPlaces, Undecided
    <2>6. AnswersInv'
      BY <2>4 DEF AnswersInv, FilterPlaces
    <2>7. FilterDecisionStands'
      BY <1>2, <2>0
         DEF LoadState, FilterInv, InAllowInv, FilterDecisionStands, Undecided, None
    <2> QED
      BY <2>2, <2>5, <2>6, <2>7 DEF FilterInv
  <1>3. CASE ReadAllowedLen \/ ReadBlockedLen \/ ReadAllowed \/ ReadBlocked
    BY <1>3, Questions
  <1>4. CASE ServeChallenge \/ ServeStatus \/ ServeFile \/ ServeDir
    <2>1. UNCHANGED <<env, in, cfg, has, verdict, seen>> /\ pc' = "done"
      BY <1>4 DEF ServeChallenge, ServeStatus, ServeFile, ServeDir, Reply
    <2> QED
      BY <2>1, StepAside DEF Undecided, FilterPlaces
  <1>5. CASE Dispatch \/ Authenticate
    <2>1. UNCHANGED <<env, in, cfg, has, verdict, seen>>
      BY <1>5 DEF Dispatch, Authenticate
    <2>2. pc' \in {"done", "auth", "direct", "serve"}
      BY <1>5, Zenon DEF Dispatch, Authenticate, CloseConnection, Reply
    <2> QED
      BY <2>1, <2>2, StepAside DEF Undecided, FilterPlaces
  <1>6. CASE Direct \/ Forward \/ DialFails \/ ProxyFails \/ UpstreamAnswers
    <2>1. UNCHANGED <<env, in, cfg, has, verdict, seen>>
      BY <1>6 DEF Direct, Forward, DialFails, ProxyFails, UpstreamAnswers
    <2>2. pc' \in {"done", "destWalk", "send", "await", "clientWalk"}
      BY <1>6, Zenon DEF Direct, Forward, DialFails, ProxyFails, UpstreamAnswers, Reply
    <2> QED
      BY <2>1, <2>2, StepAside DEF Undecided, FilterPlaces
  <1>7. CASE EvalPlain \/ EvalHop \/ TimeOut
    <2>1. UNCHANGED <<env, in, cfg, has, verdict, seen>>
      BY <1>7 DEF EvalPlain, EvalHop, TimeOut
    <2>2. pc' \in {"done", "send", "direct", "destWalk", "await", "clientWalk"}
      <3>1. CASE EvalPlain
        BY <3>1 DEF EvalPlain, Found, Reply
      <3>2. CASE EvalHop
        BY <3>2 DEF EvalHop, Found, Reply
      <3>3. CASE TimeOut
        BY <3>3 DEF TimeOut
      <3> QED
        BY <1>7, <3>1, <3>2, <3>3
    <2> QED
      BY <2>1, <2>2, StepAside DEF Undecided, FilterPlaces
  <1>8. ASSUME NEW c \in Reloads[scenario], Swap(c) PROVE FilterInv'
    <2>1. served' = c /\ UNCHANGED <<scenario, nets, pc, in, cfg, has, verdict, seen>>
      BY <1>8 DEF Swap
    <2>2. c \in Configs[scenario]
      BY ReloadsAssumption DEF FilterInv, ShapeInv
    <2>3. ShapeInv'
      BY <2>1, <2>2 DEF FilterInv, ShapeInv, Lists
    <2>4. InAllowInv' /\ AnswersInv' /\ FilterDecisionStands'
      BY <2>1 DEF FilterInv, InAllowInv, AnswersInv, FilterDecisionStands, Nets, Permits
    <2> QED
      BY <2>3, <2>4 DEF FilterInv
  <1>9. ASSUME NEW cl \in Lists(scenario), Refresh(cl[1], cl[2]) PROVE FilterInv'
    <2>1. cl[1] \in Configs[scenario] /\ cl[2] \in cl[1].lists
      BY DEF Lists
    <2> QED
      BY <1>9, <2>1, RefreshSeen
  <1>10. CASE UNCHANGED vars
    BY <1>10 DEF vars, FilterInv, ShapeInv, InAllowInv, AnswersInv, FilterDecisionStands,
                 Nets, Lists, Permits
  <1> QED
    BY <1>1, <1>2, <1>3, <1>4, <1>5, <1>6, <1>7, <1>8, <1>9, <1>10 DEF Next, Progress

\* IPFilter.Allow decides as the table above it says, for two lists that were in
\* effect while it ran, whatever is refreshed and reloaded between its questions.
THEOREM RequestFilterDecisionStands == Spec => []FilterDecisionStands
  <1>1. FilterInv => FilterDecisionStands
    BY DEF FilterInv
  <1> QED
    BY <1>1, FilterInit, FilterStep, PTL DEF Spec

-----------------------------------------------------------------------------
(* The value of ${trusted_xff}. *)

WalkPlaces == {"destWalk", "clientWalk"}

\* The places at which no value has been found yet, and those at which the
\* Director has set the chain.
Early == Undecided \cup {"idle", "dispatch", "auth", "serve", "direct"}
Proxying == WalkPlaces \cup {"send", "await"}

\* A record with the fields of NoFwd.
FwdRecord(trusted, chain, headers, hop) ==
  [trusted |-> trusted, chain |-> chain, headers |-> headers, hop |-> hop]

FwdType(f) ==
  /\ f = FwdRecord(f.trusted, f.chain, f.headers, f.hop)
  /\ f.chain \in Seq(Hops)

CarriedInv ==
  /\ in \in Inputs[scenario]
  /\ FwdType(fwd)
  /\ pc \in Early => realIP = None /\ shown = None
  /\ pc \notin {"idle", "arrived", "done"} => Nets(cfg, "proxies") \in seen["proxies"]

\* The chain ends with the address of the client.
ChainInv ==
  (pc \in Proxying /\ in.addr # NoAddr) =>
    fwd.chain # <<>> /\ fwd.chain[Len(fwd.chain)] = in.addr

WasTrusted(a) == \E s \in seen["proxies"] : a \in s

\* In the middle of a walk every hop that was passed is an address and was in
\* the list when it was looked up.
WalkInv ==
  (pc \in WalkPlaces /\ in.addr # NoAddr /\ Walks(cfg, Chain)) =>
    /\ fwd.hop \in 1 .. Len(fwd.chain)
    /\ \A j \in fwd.hop + 1 .. Len(fwd.chain) :
         fwd.chain[j] # Junk /\ WasTrusted(fwd.chain[j])

HopsInv == CarriedInv /\ ChainInv /\ WalkInv /\ TrustedHops

\* The route depends on the request and the configuration it loaded only.
LEMMA SameRoute == cfg' = cfg /\ in' = in => Route' = Route
  BY DEF Route, Routes, Pattern, VHost

\* What the list of proxies has been is not forgotten, so a value stays right.
LEMMA RealHopStays ==
  ASSUME NEW v, cfg' = cfg, in' = in, fwd'.chain = fwd.chain,
         seen["proxies"] \subseteq seen'["proxies"], RealHop(v)
  PROVE  RealHop(v)'
  BY DEF RealHop

LEMMA TrustedHopsStay ==
  ASSUME TrustedHops, cfg' = cfg, in' = in, fwd'.chain = fwd.chain,
         seen["proxies"] \subseteq seen'["proxies"], realIP' = realIP, shown' = shown
  PROVE  TrustedHops'
  <1>1. \A v : RealHop(v) => RealHop(v)'
    BY RealHopStays
  <1>2. Route' = Route
    BY SameRoute
  <1> QED
    BY <1>1, <1>2 DEF TrustedHops

\* A step that leaves the request, its headers and the lists alone, and neither
\* goes back nor begins a walk.
LEMMA HopsAside ==
  ASSUME HopsInv,
         UNCHANGED <<scenario, nets, in, cfg, fwd, realIP, shown, seen>>,
         pc' \in Early => pc \in Early,
         pc' \notin {"idle", "arrived", "done"} => pc \notin {"idle", "arrived", "done"},
         pc' \in Proxying => pc \in Proxying,
         pc' \in WalkPlaces => pc' = pc
  PROVE  HopsInv'
  <1>1. CarriedInv'
    BY DEF HopsInv, CarriedInv, Nets
  <1>2. ChainInv'
    BY DEF HopsInv, ChainInv
  <1>3. WalkInv'
    <2>1. Route' = Route
      BY SameRoute
    <2>2. pc' \in WalkPlaces => Chain' = Chain
      BY <2>1 DEF Chain, ClientChain
    <2> QED
      BY <2>2 DEF HopsInv, WalkInv, Walks, WasTrusted
  <1>4. TrustedHops'
    BY TrustedHopsStay DEF HopsInv
  <1> QED
    BY <1>1, <1>2, <1>3, <1>4 DEF HopsInv

\* A refresh in the middle of a walk.
LEMMA RefreshHops ==
  ASSUME FilterInv, HopsInv, NEW c \in Configs[scenario], NEW l \in c.lists, Refresh(c, l)
  PROVE  HopsInv'
  <1>0. PICK new \in SUBSET Addrs :
          /\ nets' = [nets EXCEPT ![<<c, l>>] = new]
          /\ seen' = IF c = cfg /\ (verdict = None \/ l = "proxies")
                       THEN [seen EXCEPT ![l] = @ \cup {new}] ELSE seen
    BY DEF Refresh
  <1>1. UNCHANGED <<scenario, pc, in, cfg, fwd, realIP, shown>>
    BY DEF Refresh
  <1>2. <<c, l>> \in Lists(scenario)
    BY DEF Lists
  <1>3. seen["proxies"] \subseteq seen'["proxies"]
    BY <1>0 DEF FilterInv, ShapeInv, ListNames
  <1>4. ASSUME Nets(cfg, "proxies") \in seen["proxies"]
        PROVE  Nets(cfg, "proxies")' \in seen'["proxies"]
    <2>1. "proxies" \in cfg.lists => <<cfg, "proxies">> \in Lists(scenario)
      BY DEF FilterInv, ShapeInv, Lists
    <2>2. CASE c = cfg /\ l = "proxies"
      BY <1>0, <1>1, <1>2, <2>2 DEF Nets, FilterInv, ShapeInv, ListNames
    <2>3. CASE ~(c = cfg /\ l = "proxies")
      <3>1. Nets(cfg, "proxies")' = Nets(cfg, "proxies")
        BY <1>0, <1>1, <2>1, <2>3 DEF Nets, FilterInv, ShapeInv
      <3> QED
        BY <3>1, <1>3, <1>4
    <2> QED
      BY <2>2, <2>3
  <1>5. CarriedInv'
    BY <1>1, <1>4 DEF HopsInv, CarriedInv
  <1>6. ChainInv'
    BY <1>1 DEF HopsInv, ChainInv
  <1>7. WalkInv'
    <2>1. Chain' = Chain
      BY <1>1, SameRoute DEF Chain, ClientChain
    <2> QED
      BY <1>1, <1>3, <2>1 DEF HopsInv, WalkInv, Walks, WasTrusted
  <1>8. TrustedHops'
    BY <1>1, <1>3, TrustedHopsStay DEF HopsInv
  <1> QED
    BY <1>5, <1>6, <1>7, <1>8 DEF HopsInv

\* evalTrustedXFF where it looks up nothing.
LEMMA PlainHop ==
  ASSUME HopsInv, FilterInv, pc \in WalkPlaces, in.addr # NoAddr, ~Walks(cfg, Chain)
  PROVE  LET v == PlainXFF(cfg, Chain, in.addr)
         IN  RealHop(v) \/ (pc = "clientWalk" /\ Route.cli /\ v = in.addr)
  <1>1. /\ fwd.chain \in Seq(Hops) /\ in.addr # Junk
        /\ fwd.chain # <<>> /\ fwd.chain[Len(fwd.chain)] = in.addr
    BY InputsAssumption
       DEF HopsInv, CarriedInv, ChainInv, FwdType, Proxying, FilterInv, ShapeInv
  <1>2. CASE pc = "clientWalk" /\ Route.cli
    <2>1. Chain = <<>>
      BY <1>2 DEF Chain, ClientChain
    <2>2. PlainXFF(cfg, Chain, in.addr) = in.addr
      BY <2>1 DEF PlainXFF
    <2> QED
      BY <1>2, <2>2
  <1>3. CASE ~(pc = "clientWalk" /\ Route.cli)
    <2>1. Chain = fwd.chain
      BY <1>3 DEF Chain, ClientChain, WalkPlaces
    <2>2. CASE ~cfg.trustAll
      BY <1>1, <2>1, <2>2 DEF PlainXFF, RealHop, Walks
    <2>3. CASE cfg.trustAll
      <3> DEFINE valid == {i \in 1 .. Len(fwd.chain) : fwd.chain[i] # Junk}
                 k == CHOOSE i \in valid : \A j \in valid : i <= j
      <3>1. Len(fwd.chain) \in valid
        BY <1>1
      <3>2. \E i \in valid : \A j \in valid : i <= j
        <4>1. valid \in SUBSET Nat /\ valid # {}
          BY <3>1
        <4> HIDE DEF valid
        <4> QED
          BY <4>1, LeastExists
      <3>3. k \in valid /\ \A j \in valid : k <= j
        BY <3>2
      <3>4. PlainXFF(cfg, Chain, in.addr) = fwd.chain[k]
        BY <2>1, <2>3, <3>1 DEF PlainXFF
      <3> HIDE DEF k
      <3>5. k \in 1 .. Len(fwd.chain) /\ Len(fwd.chain) \in Nat
        BY <1>1, <3>3
      <3>6. \A j \in 1 .. k - 1 : fwd.chain[j] = Junk
        <4> SUFFICES ASSUME NEW j \in 1 .. k - 1, fwd.chain[j] # Junk PROVE FALSE
          OBVIOUS
        <4>1. j \in valid /\ ~(k <= j)
          BY <3>5
        <4> QED
          BY <3>3, <4>1
      <3>7. k \in DOMAIN fwd.chain /\ fwd.chain[k] # Junk
        BY <1>1, <3>3
      <3> QED
        BY <2>3, <3>4, <3>6, <3>7 DEF RealHop
    <2> QED
      BY <2>2, <2>3
  <1> QED
    BY <1>2, <1>3

\* One round of the walk: the value is the real hop, or the next hop may follow.
LEMMA OneHop ==
  ASSUME HopsInv, FilterInv, pc \in WalkPlaces, in.addr # NoAddr, Walks(cfg, Chain),
         NEW v, v = WalkResult(Chain, in.addr, fwd.hop, Contains("proxies", Chain[fwd.hop]))
  PROVE  /\ Chain = fwd.chain
         /\ v # "next" => RealHop(v)
         /\ v = "next" => /\ fwd.hop > 1
                          /\ fwd.chain[fwd.hop] # Junk /\ WasTrusted(fwd.chain[fwd.hop])
  <1> DEFINE i == fwd.hop
             ch == fwd.chain
             now == Nets(cfg, "proxies")
  <1>1. Chain = ch
    BY DEF Chain, ClientChain, Walks
  <1>2. /\ ch \in Seq(Hops) /\ in.addr # Junk
        /\ ch # <<>> /\ ch[Len(ch)] = in.addr
    BY InputsAssumption
       DEF HopsInv, CarriedInv, ChainInv, FwdType, Proxying, FilterInv, ShapeInv
  <1>3. /\ i \in 1 .. Len(ch)
        /\ \A j \in i + 1 .. Len(ch) : ch[j] # Junk /\ WasTrusted(ch[j])
    BY DEF HopsInv, WalkInv
  <1>4. now \in seen["proxies"]
    BY DEF HopsInv, CarriedInv, WalkPlaces
  <1>5. ~cfg.trustAll /\ cfg.proxies
    BY DEF Walks
  <1>6. CASE ch[i] = Junk
    <2>1. i < Len(ch) /\ v = ch[i + 1]
      BY <1>1, <1>2, <1>3, <1>6 DEF WalkResult
    <2>2. v # "next"
      BY <1>2, <1>3, <2>1 DEF Hops
    <2>3. i + 1 \in DOMAIN ch /\ ch[(i + 1) - 1] = Junk /\ v # Junk
      BY <1>2, <1>3, <1>6, <2>1
    <2>4. \A j \in (i + 1) + 1 .. Len(ch) : \E s \in seen["proxies"] : (ch[j] \in s) = TRUE
      BY <1>3 DEF WasTrusted
    <2>5. RealHop(v)
      BY <1>5, <2>1, <2>3, <2>4 DEF RealHop
    <2> QED
      BY <1>1, <2>2, <2>5
  <1>7. CASE ch[i] # Junk /\ (ch[i] \notin now \/ i = 1)
    <2>1. v = ch[i]
      BY <1>1, <1>7 DEF WalkResult, Contains
    <2>2. v # "next" /\ i \in DOMAIN ch
      BY <1>2, <1>3, <2>1 DEF Hops
    <2>3. \A j \in i + 1 .. Len(ch) : \E s \in seen["proxies"] : (ch[j] \in s) = TRUE
      BY <1>3 DEF WasTrusted
    <2>4. i = 1 \/ \E s \in seen["proxies"] : (v \in s) = FALSE
      BY <1>4, <1>7, <2>1
    <2>5. RealHop(v)
      BY <1>5, <1>7, <2>1, <2>2, <2>3, <2>4 DEF RealHop
    <2> QED
      BY <1>1, <2>2, <2>5
  <1>8. CASE ch[i] # Junk /\ ch[i] \in now /\ i # 1
    <2>1. v = "next"
      BY <1>1, <1>8 DEF WalkResult, Contains
    <2> QED
      BY <1>1, <1>3, <1>4, <1>8, <2>1 DEF WasTrusted
  <1> QED
    BY <1>6, <1>7, <1>8

LEMMA HopsInit == Init => HopsInv
  <1> SUFFICES ASSUME Init PROVE HopsInv
    OBVIOUS
  <1>1. FwdType(NoFwd)
    BY DEF NoFwd, FwdType, FwdRecord
  <1>2. CarriedInv
    BY <1>1 DEF Init, CarriedInv
  <1>3. ChainInv /\ WalkInv /\ TrustedHops
    BY DEF Init, ChainInv, WalkInv, TrustedHops, Proxying, WalkPlaces, None
  <1> QED
    BY <1>2, <1>3 DEF HopsInv

\* The Director's chain ends with the client.
LEMMA ForwardedChain ==
  ASSUME NEW t \in BOOLEAN, NEW a \in Hops, NEW old \in [HeaderNames -> Seq(Hops)]
  PROVE  LET chain == ForwardedHeaders(t, a, old)["X-Forwarded-For"]
         IN  /\ chain \in Seq(Hops)
             /\ a # NoAddr => chain # <<>> /\ chain[Len(chain)] = a
  <1> DEFINE x == IF a = NoAddr THEN old["X-Forwarded-For"]
                  ELSE IF t THEN Append(old["X-Forwarded-For"], a) ELSE <<a>>
             ho == IF t THEN old["X-Forwarded-Host"] ELSE <<"connection">>
             pr == IF t THEN old["X-Forwarded-Proto"] ELSE <<"connection">>
  <1>1. old["X-Forwarded-For"] \in Seq(Hops)
    BY DEF HeaderNames
  <1>2. x \in Seq(Hops) /\ (a # NoAddr => x # <<>> /\ x[Len(x)] = a)
    <2>1. CASE a = NoAddr
      BY <1>1, <2>1
    <2>2. CASE a # NoAddr /\ t
      <3>1. x = Append(old["X-Forwarded-For"], a)
        BY <2>2
      <3> HIDE DEF x
      <3> QED
        BY <1>1, <2>2, <3>1
    <2>3. CASE a # NoAddr /\ ~t
      <3>1. x = <<a>>
        BY <2>3
      <3> HIDE DEF x
      <3> QED
        BY <3>1
    <2> QED
      BY <2>1, <2>2, <2>3
  <1>3. ForwardedHeaders(t, a, old) =
          [old EXCEPT !["X-Forwarded-For"] = x, !["X-Forwarded-Host"] = ho, !["X-Forwarded-Proto"] = pr]
    BY DEF ForwardedHeaders
  <1> HIDE DEF x, ho, pr
  <1>4. ForwardedHeaders(t, a, old)["X-Forwarded-For"] = x
    BY <1>3 DEF HeaderNames
  <1> QED
    BY <1>2, <1>4

\* Another hop in a record of the Director.
LEMMA RecordHop ==
  ASSUME NEW t, NEW c, NEW h, NEW n, NEW m
  PROVE  [FwdRecord(t, c, h, n) EXCEPT !.hop = m] = FwdRecord(t, c, h, m)
  BY DEF FwdRecord

LEMMA RecordFields ==
  ASSUME NEW t, NEW c, NEW h, NEW n
  PROVE  LET f == FwdRecord(t, c, h, n)
         IN  f.trusted = t /\ f.chain = c /\ f.headers = h /\ f.hop = n
  BY DEF FwdRecord

LEMMA NewHop ==
  ASSUME NEW f, NEW m, FwdType(f)
  PROVE  LET g == [f EXCEPT !.hop = m]
         IN  /\ FwdType(g) /\ g.hop = m
             /\ g.trusted = f.trusted /\ g.chain = f.chain /\ g.headers = f.headers
  <1> DEFINE g == [f EXCEPT !.hop = m]
             r == FwdRecord(f.trusted, f.chain, f.headers, f.hop)
  <1>1. g = [r EXCEPT !.hop = m]
    BY Zenon DEF FwdType
  <1>2. g = FwdRecord(f.trusted, f.chain, f.headers, m)
    <2>1. [r EXCEPT !.hop = m] = FwdRecord(f.trusted, f.chain, f.headers, m)
      BY RecordHop
    <2> HIDE DEF g
    <2> QED
      BY <1>1, <2>1
  <1> HIDE DEF g, r
  <1>3. g.trusted = f.trusted /\ g.chain = f.chain /\ g.headers = f.headers /\ g.hop = m
    BY <1>2, RecordFields
  <1> QED
    BY <1>2, <1>3, Zenon DEF FwdType, g

\* The Director sets the chain; nothing has been found before it.
LEMMA DirectHops ==
  ASSUME FilterInv, HopsInv, Direct
  PROVE  HopsInv'
  <1> DEFINE trusted == cfg.trustAll \/ (cfg.proxies /\ Contains("proxies", in.addr))
             h == ForwardedHeaders(trusted, in.addr, in.headers)
             chain == h["X-Forwarded-For"]
             kept == StripAuthorization(EffectiveAuth(cfg, Route), h)
  <1>0. /\ UNCHANGED <<scenario, nets, in, cfg, realIP, shown, seen>>
        /\ pc = "direct" /\ pc' \in {"destWalk", "send"}
        /\ fwd' = [trusted |-> trusted, chain |-> chain, hop |-> Len(chain), headers |-> kept]
    BY DEF Direct, env
  <1>1. in.addr \in Hops /\ in.headers \in [HeaderNames -> Seq(Hops)]
    BY InputsAssumption DEF HopsInv, CarriedInv, FilterInv, ShapeInv
  <1>2. trusted \in BOOLEAN
    OBVIOUS
  <1>3. chain \in Seq(Hops) /\ (in.addr # NoAddr => chain # <<>> /\ chain[Len(chain)] = in.addr)
    <2> HIDE DEF trusted
    <2> QED
      BY <1>1, <1>2, ForwardedChain
  <1> HIDE DEF trusted, h, chain, kept
  <1>4. fwd' = FwdRecord(trusted, chain, kept, Len(chain))
    BY <1>0 DEF FwdRecord
  <1>5. /\ fwd'.trusted = trusted /\ fwd'.chain = chain
        /\ fwd'.headers = kept /\ fwd'.hop = Len(chain)
    BY <1>4, RecordFields
  <1>6. FwdType(fwd')
    BY <1>3, <1>4, <1>5 DEF FwdType
  <1>7. realIP' = None /\ shown' = None
    BY <1>0 DEF HopsInv, CarriedInv, Early
  <1>8. CarriedInv'
    BY <1>0, <1>6, <1>7 DEF HopsInv, CarriedInv, Nets
  <1>9. ChainInv'
    BY <1>0, <1>3, <1>5 DEF ChainInv
  <1>10. WalkInv'
    <2>1. fwd'.hop = Len(fwd'.chain) /\ fwd'.chain = chain
      BY <1>5
    <2>2. pc' \in WalkPlaces => Chain' = chain
      BY <1>0, <2>1 DEF WalkPlaces, Chain
    <2>3. chain # <<>> => Len(chain) \in 1 .. Len(chain)
      BY <1>3
    <2>4. Len(chain) + 1 .. Len(chain) = {}
      BY <1>3
    <2> QED
      BY <2>1, <2>2, <2>3, <2>4 DEF WalkInv, Walks
  <1>11. TrustedHops'
    BY <1>7 DEF TrustedHops
  <1> QED
    BY <1>8, <1>9, <1>10, <1>11 DEF HopsInv

\* A value has been found, for the upstream or for the client.
LEMMA FoundHops ==
  ASSUME HopsInv, NEW v, Found(v), pc \in WalkPlaces,
         UNCHANGED <<scenario, nets, in, cfg, fwd, seen>>,
         in.addr # NoAddr => RealHop(v) \/ (pc = "clientWalk" /\ Route.cli /\ v = in.addr)
  PROVE  HopsInv'
  <1>1. pc' \in {"send", "done"} /\ (pc' = "send" => pc = "destWalk")
    BY DEF Found, Reply
  <1>2. CarriedInv'
    BY <1>1 DEF HopsInv, CarriedInv, Nets, Early, Undecided, FilterPlaces, WalkPlaces
  <1>3. ChainInv' /\ WalkInv'
    BY <1>1 DEF HopsInv, ChainInv, WalkInv, Proxying, WalkPlaces
  <1>4. TrustedHops'
    <2>1. \A w : RealHop(w) => RealHop(w)'
      BY RealHopStays
    <2>2. Route' = Route
      BY SameRoute
    <2>3. CASE pc = "destWalk"
      BY <2>1, <2>2, <2>3 DEF HopsInv, TrustedHops, Found
    <2>4. CASE pc = "clientWalk"
      <3>1. shown' = v /\ realIP' = realIP
        BY <2>4 DEF Found
      <3> QED
        BY <2>1, <2>2, <3>1 DEF HopsInv, TrustedHops
    <2> QED
      BY <2>3, <2>4 DEF WalkPlaces
  <1> QED
    BY <1>2, <1>3, <1>4 DEF HopsInv

\* The walk goes on to the hop on the left.
LEMMA HopOn ==
  ASSUME HopsInv, FilterInv, pc \in WalkPlaces, in.addr # NoAddr => Walks(cfg, Chain),
         in.addr # NoAddr =>
           fwd.hop > 1 /\ fwd.chain[fwd.hop] # Junk /\ WasTrusted(fwd.chain[fwd.hop]),
         fwd' = [fwd EXCEPT !.hop = @ - 1],
         UNCHANGED <<scenario, nets, pc, in, cfg, realIP, shown, seen>>
  PROVE  HopsInv'
  <1>1. FwdType(fwd') /\ fwd'.chain = fwd.chain /\ fwd'.hop = fwd.hop - 1
    BY NewHop DEF HopsInv, CarriedInv
  <1>2. CarriedInv'
    BY <1>1 DEF HopsInv, CarriedInv, Nets
  <1>3. ChainInv'
    BY <1>1 DEF HopsInv, ChainInv
  <1>4. WalkInv'
    <2> SUFFICES ASSUME in.addr # NoAddr
                 PROVE  /\ fwd'.hop \in 1 .. Len(fwd'.chain)
                        /\ \A j \in fwd'.hop + 1 .. Len(fwd'.chain) :
                             fwd'.chain[j] # Junk /\ WasTrusted(fwd.chain[j])'
      BY DEF WalkInv
    <2>1. /\ fwd.hop \in 1 .. Len(fwd.chain) /\ Len(fwd.chain) \in Nat
          /\ \A j \in fwd.hop + 1 .. Len(fwd.chain) :
               fwd.chain[j] # Junk /\ WasTrusted(fwd.chain[j])
      BY DEF HopsInv, WalkInv, CarriedInv, FwdType
    <2>2. \A j : j \in fwd'.hop + 1 .. Len(fwd.chain)
                  => j = fwd.hop \/ j \in fwd.hop + 1 .. Len(fwd.chain)
      BY <1>1, <2>1
    <2>3. fwd'.hop \in 1 .. Len(fwd.chain)
      BY <1>1, <2>1
    <2>4. \A j : WasTrusted(fwd.chain[j]) => WasTrusted(fwd.chain[j])'
      BY <1>1 DEF WasTrusted
    <2> QED
      BY <1>1, <2>1, <2>2, <2>3, <2>4
  <1>5. TrustedHops'
    BY <1>1, TrustedHopsStay DEF HopsInv
  <1> QED
    BY <1>2, <1>3, <1>4, <1>5 DEF HopsInv

\* Every step keeps the invariant of the walk.
LEMMA HopsStep == FilterInv /\ HopsInv /\ [Next]_vars => HopsInv'
  <1> SUFFICES ASSUME FilterInv, HopsInv, [Next]_vars PROVE HopsInv'
    OBVIOUS
  <1> USE DEF Early, Proxying, WalkPlaces, Undecided, FilterPlaces
  <1>1. CASE Arrive
    <2>0. /\ in' \in Inputs[scenario] /\ UNCHANGED <<scenario>> /\ pc' = "arrived"
          /\ fwd' = NoFwd /\ realIP' = None /\ shown' = None
      BY <1>1 DEF Arrive, env
    <2>1. FwdType(NoFwd)
      BY DEF NoFwd, FwdType, FwdRecord
    <2>2. CarriedInv'
      BY <2>0, <2>1 DEF CarriedInv
    <2>3. ChainInv' /\ WalkInv' /\ TrustedHops'
      BY <2>0 DEF ChainInv, WalkInv, TrustedHops
    <2> QED
      BY <2>2, <2>3 DEF HopsInv
  <1>2. CASE LoadState
    <2>0. /\ UNCHANGED <<scenario, nets, in, fwd, realIP, shown>> /\ pc = "arrived"
          /\ cfg' = served /\ seen' = [l \in ListNames |-> {Nets(served, l)}]
          /\ pc' \in {"dispatch", "done", "lenAllowed"}
      BY <1>2 DEF LoadState, CloseConnection, Reply, env
    <2>1. Nets(cfg, "proxies")' \in seen'["proxies"]
      BY <2>0 DEF Nets, ListNames
    <2>2. realIP' = None /\ shown' = None
      BY <2>0 DEF HopsInv, CarriedInv
    <2>3. CarriedInv'
      BY <2>0, <2>1, <2>2 DEF HopsInv, CarriedInv
    <2>4. ChainInv' /\ WalkInv' /\ TrustedHops'
      BY <2>0, <2>2 DEF ChainInv, WalkInv, TrustedHops
    <2> QED
      BY <2>3, <2>4 DEF HopsInv
  <1>3. CASE ReadAllowedLen \/ ReadBlockedLen \/ ReadAllowed \/ ReadBlocked
    <2>1. UNCHANGED <<scenario, nets, in, cfg, fwd, realIP, shown, seen>>
      BY <1>3 DEF ReadAllowedLen, ReadBlockedLen, ReadAllowed, ReadBlocked, env
    <2>2. pc \in FilterPlaces /\ pc' \in FilterPlaces \cup {"dispatch", "done"}
      BY <1>3 DEF ReadAllowedLen, ReadBlockedLen, ReadAllowed, ReadBlocked, CloseConnection, Reply
    <2> QED
      BY <2>1, <2>2, HopsAside
  <1>4. CASE ServeChallenge
    BY <1>4, HopsAside DEF ServeChallenge, Reply, env
  <1>5. CASE ServeStatus \/ ServeFile \/ ServeDir
    <2>0. /\ UNCHANGED <<scenario, nets, in, cfg, fwd, realIP, seen>>
          /\ pc = "serve" /\ pc' = "done"
          /\ shown' \in {None, "literal", shown}
      BY <1>5 DEF ServeStatus, ServeFile, ServeDir, Reply, env
    <2>1. realIP' = None /\ shown' \in {None, "literal"}
      BY <2>0 DEF HopsInv, CarriedInv
    <2>2. CarriedInv'
      BY <2>0 DEF HopsInv, CarriedInv
    <2>3. ChainInv' /\ WalkInv' /\ TrustedHops'
      BY <2>0, <2>1 DEF ChainInv, WalkInv, TrustedHops
    <2> QED
      BY <2>2, <2>3 DEF HopsInv
  <1>6. CASE Dispatch \/ Authenticate
    <2>1. UNCHANGED <<scenario, nets, in, cfg, fwd, realIP, shown, seen>>
      BY <1>6 DEF Dispatch, Authenticate, env
    <2>2. pc \in {"dispatch", "auth"} /\ pc' \in {"done", "auth", "direct", "serve"}
      BY <1>6, Zenon DEF Dispatch, Authenticate, CloseConnection, Reply
    <2> QED
      BY <2>1, <2>2, HopsAside
  <1>7. CASE Direct
    BY <1>7, DirectHops
  <1>8. CASE EvalPlain
    <2> DEFINE v == PlainXFF(cfg, Chain, in.addr)
    <2>1. /\ Found(v) /\ ~Walks(cfg, Chain) /\ pc \in WalkPlaces
          /\ UNCHANGED <<scenario, nets, in, cfg, fwd, seen>>
      BY <1>8 DEF EvalPlain, env
    <2>2. in.addr # NoAddr => RealHop(v) \/ (pc = "clientWalk" /\ Route.cli /\ v = in.addr)
      BY <2>1, PlainHop
    <2> HIDE DEF v
    <2> QED
      BY <2>1, <2>2, FoundHops
  <1>9. CASE EvalHop
    <2> DEFINE v == WalkResult(Chain, in.addr, fwd.hop, Contains("proxies", Chain[fwd.hop]))
    <2>1. /\ pc \in WalkPlaces /\ Walks(cfg, Chain)
          /\ UNCHANGED <<scenario, nets, in, cfg, seen>>
      BY <1>9 DEF EvalHop, env
    <2>2. \/ /\ v = "next" /\ fwd' = [fwd EXCEPT !.hop = @ - 1]
             /\ UNCHANGED <<realIP, pc, shown>>
          \/ v # "next" /\ Found(v) /\ UNCHANGED fwd
      BY <1>9 DEF EvalHop
    <2>3. in.addr # NoAddr =>
            /\ v # "next" => RealHop(v)
            /\ v = "next" => /\ fwd.hop > 1
                             /\ fwd.chain[fwd.hop] # Junk /\ WasTrusted(fwd.chain[fwd.hop])
      BY <2>1, OneHop
    <2> HIDE DEF v
    <2>4. CASE v = "next"
      BY <2>1, <2>2, <2>3, <2>4, HopOn
    <2>5. CASE v # "next"
      BY <2>1, <2>2, <2>3, <2>5, FoundHops
    <2> QED
      BY <2>4, <2>5
  <1>10. CASE Forward \/ DialFails \/ ProxyFails
    <2>1. UNCHANGED <<scenario, nets, in, cfg, fwd, realIP, shown, seen>>
      BY <1>10, Zenon DEF Forward, DialFails, ProxyFails, env
    <2>2. pc \in {"send", "await"} /\ pc' \in {"await", "done"}
      BY <1>10, Zenon DEF Forward, DialFails, ProxyFails, Reply
    <2> QED
      BY <2>1, <2>2, HopsAside
  <1>11. CASE UpstreamAnswers
    <2>0. UNCHANGED <<scenario, nets, in, cfg, realIP, shown, seen>> /\ pc = "await"
      BY <1>11 DEF UpstreamAnswers, env
    <2>1. CASE ~Route.clientVar
      <3>1. UNCHANGED fwd /\ pc' = "done"
        BY <1>11, <2>1 DEF UpstreamAnswers, Reply
      <3> QED
        BY <2>0, <3>1, HopsAside
    <2>2. CASE Route.clientVar
      <3>1. pc' = "clientWalk" /\ fwd' = [fwd EXCEPT !.hop = Len(ClientChain)]
        BY <1>11, <2>2 DEF UpstreamAnswers
      <3>2. FwdType(fwd') /\ fwd'.chain = fwd.chain /\ fwd'.hop = Len(ClientChain)
        BY <3>1, NewHop DEF HopsInv, CarriedInv
      <3>3. CarriedInv'
        BY <2>0, <3>1, <3>2 DEF HopsInv, CarriedInv, Nets
      <3>4. ChainInv'
        BY <2>0, <3>1, <3>2 DEF HopsInv, ChainInv
      <3>5. WalkInv'
        <4>1. Walks(cfg, Chain)' => Chain' = fwd.chain /\ ClientChain = fwd.chain /\ fwd.chain # <<>>
          BY <2>0, <3>1, <3>2, SameRoute DEF Walks, Chain, ClientChain
        <4>2. fwd.chain \in Seq(Hops)
          BY DEF HopsInv, CarriedInv, FwdType
        <4>3. /\ fwd.chain # <<>> => Len(fwd.chain) \in 1 .. Len(fwd.chain)
              /\ Len(fwd.chain) + 1 .. Len(fwd.chain) = {}
          BY <4>2
        <4> QED
          BY <3>2, <4>1, <4>3 DEF WalkInv
      <3>6. TrustedHops'
        BY <2>0, <3>2, TrustedHopsStay DEF HopsInv
      <3> QED
        BY <3>3, <3>4, <3>5, <3>6 DEF HopsInv
    <2> QED
      BY <2>1, <2>2
  <1>12. CASE TimeOut
    BY <1>12, HopsAside DEF TimeOut, env
  <1>13. ASSUME NEW c \in Reloads[scenario], Swap(c) PROVE HopsInv'
    <2>1. UNCHANGED <<scenario, nets, pc, in, cfg, fwd, realIP, shown, seen>>
      BY <1>13 DEF Swap
    <2> QED
      BY <2>1, HopsAside
  <1>14. ASSUME NEW cl \in Lists(scenario), Refresh(cl[1], cl[2]) PROVE HopsInv'
    <2>1. cl[1] \in Configs[scenario] /\ cl[2] \in cl[1].lists
      BY DEF Lists
    <2> QED
      BY <1>14, <2>1, RefreshHops
  <1>15. CASE UNCHANGED vars
    BY <1>15, HopsAside DEF vars
  <1> QED
    BY <1>1, <1>2, <1>3, <1>4, <1>5, <1>6, <1>7, <1>8, <1>9, <1>10, <1>11, <1>12, <1>13,
       <1>14, <1>15 DEF Next, Progress

\* The value of ${trusted_xff} is the first hop from the right that was not a
\* trusted proxy when evalTrustedXFF came to it, for a chain of any length and
\* whatever is refreshed and reloaded during the walk.
THEOREM RequestTrustedHops == Spec => []TrustedHops
  <1>1. HopsInv => TrustedHops
    BY DEF HopsInv
  <1> QED
    BY <1>1, FilterInit, FilterStep, HopsInit, HopsStep, PTL DEF Spec

-----------------------------------------------------------------------------
(* The types, and the place of the walk in the chain. *)

HopInv ==
  /\ fwd.hop \in 0 .. Len(fwd.chain)
  /\ pc \in WalkPlaces /\ Walks(cfg, Chain) => fwd.hop \in DOMAIN Chain

CountInv ==
  /\ refreshes \in 0 .. MaxRefreshes /\ reloads \in 0 .. MaxReloads
  /\ since \subseteq Configs[scenario]

TypeInv == pc \in Places /\ CountInv /\ HopInv

\* What the Director keeps.
LEMMA DirectFwd ==
  ASSUME FilterInv, HopsInv, Direct
  PROVE  /\ fwd'.trusted = (cfg.trustAll \/ (cfg.proxies /\ Contains("proxies", in.addr)))
         /\ fwd'.chain = ForwardedHeaders(fwd'.trusted, in.addr, in.headers)["X-Forwarded-For"]
         /\ fwd'.headers = StripAuthorization(EffectiveAuth(cfg, Route),
                             ForwardedHeaders(fwd'.trusted, in.addr, in.headers))
         /\ fwd'.hop = Len(fwd'.chain) /\ fwd'.chain \in Seq(Hops)
  <1> DEFINE trusted == cfg.trustAll \/ (cfg.proxies /\ Contains("proxies", in.addr))
             h == ForwardedHeaders(trusted, in.addr, in.headers)
             chain == h["X-Forwarded-For"]
             kept == StripAuthorization(EffectiveAuth(cfg, Route), h)
  <1>1. fwd' = FwdRecord(trusted, chain, kept, Len(chain))
    BY DEF Direct, FwdRecord
  <1>2. /\ fwd'.trusted = trusted /\ fwd'.chain = chain
        /\ fwd'.headers = kept /\ fwd'.hop = Len(chain)
    <2> HIDE DEF trusted, chain, kept
    <2> QED
      BY <1>1, RecordFields
  <1>3. HopsInv'
    BY DirectHops
  <1> QED
    BY <1>2, <1>3 DEF HopsInv, CarriedInv, FwdType

\* The places of the handler.
LEMMA PlacesStep == pc \in Places /\ [Next]_vars => pc' \in Places
  <1> SUFFICES ASSUME pc \in Places, [Next]_vars PROVE pc' \in Places
    OBVIOUS
  <1>1. CASE Arrive \/ ServeChallenge \/ LoadState
    BY <1>1 DEF Arrive, ServeChallenge, LoadState, CloseConnection, Reply, Places
  <1>2. CASE ReadAllowedLen \/ ReadBlockedLen \/ ReadAllowed \/ ReadBlocked
    BY <1>2 DEF ReadAllowedLen, ReadBlockedLen, ReadAllowed, ReadBlocked, CloseConnection,
                Reply, Places
  <1>3. CASE Dispatch
    BY <1>3, Zenon DEF Dispatch, CloseConnection, Reply, Places
  <1>4. CASE Authenticate
    <2>1. pc' \in {"direct", "serve", "done"}
      BY <1>4, Zenon DEF Authenticate, Reply
    <2> QED
      BY <2>1 DEF Places
  <1>5. CASE ServeStatus \/ ServeFile \/ ServeDir \/ Direct
    BY <1>5 DEF ServeStatus, ServeFile, ServeDir, Direct, Reply, Places
  <1>6. CASE EvalPlain \/ EvalHop
    BY <1>6 DEF EvalPlain, EvalHop, Found, Reply, Places
  <1>7. CASE Forward \/ DialFails \/ ProxyFails \/ UpstreamAnswers \/ TimeOut
    <2>1. pc' \in {"await", "done", "clientWalk", pc}
      BY <1>7, Zenon DEF Forward, DialFails, ProxyFails, UpstreamAnswers, TimeOut, Reply
    <2> QED
      BY <2>1 DEF Places
  <1>8. CASE (\E c \in Reloads[scenario] : Swap(c))
             \/ (\E cl \in Lists(scenario) : Refresh(cl[1], cl[2])) \/ UNCHANGED vars
    BY <1>8 DEF Swap, Refresh, vars
  <1> QED
    BY <1>1, <1>2, <1>3, <1>4, <1>5, <1>6, <1>7, <1>8 DEF Next, Progress

\* The counters, and what was served.
LEMMA CountStep == FilterInv /\ CountInv /\ [Next]_vars => CountInv'
  <1> SUFFICES ASSUME FilterInv, CountInv, [Next]_vars PROVE CountInv'
    OBVIOUS
  <1>0. refreshes \in Nat /\ reloads \in Nat /\ served \in Configs[scenario]
    BY DEF CountInv, FilterInv, ShapeInv
  <1>1. CASE Arrive
    BY <1>0, <1>1 DEF Arrive, env, CountInv
  <1>2. ASSUME NEW c \in Reloads[scenario], Swap(c) PROVE CountInv'
    BY <1>0, <1>2, ReloadsAssumption, BoundsAssumption
       DEF Swap, CountInv, FilterInv, ShapeInv
  <1>3. ASSUME NEW cl \in Lists(scenario), Refresh(cl[1], cl[2]) PROVE CountInv'
    <2>1. /\ refreshes < MaxRefreshes /\ refreshes' = refreshes + 1
          /\ UNCHANGED <<scenario, reloads, since>>
      BY <1>3, Zenon DEF Refresh
    <2> QED
      BY <1>0, <2>1, BoundsAssumption DEF CountInv
  <1>4. CASE Progress \/ DialFails \/ ProxyFails \/ UpstreamAnswers \/ UNCHANGED vars
    <2>1. UNCHANGED <<scenario, refreshes, reloads, since>>
      BY <1>4, Zenon
         DEF Progress, ServeChallenge, LoadState, ReadAllowedLen, ReadBlockedLen, ReadAllowed,
             ReadBlocked, Dispatch, Authenticate, ServeStatus, ServeFile, ServeDir, Direct,
             EvalPlain, EvalHop, Forward, TimeOut, DialFails, ProxyFails, UpstreamAnswers,
             env, vars
    <2> QED
      BY <2>1 DEF CountInv
  <1> QED
    BY <1>1, <1>2, <1>3, <1>4 DEF Next

\* One round of the walk does not leave the chain, whoever the client is.
LEMMA HopStays ==
  ASSUME HopsInv, HopInv, pc \in WalkPlaces, Walks(cfg, Chain),
         WalkResult(Chain, in.addr, fwd.hop, Contains("proxies", Chain[fwd.hop])) = "next",
         FilterInv
  PROVE  Chain = fwd.chain /\ fwd.hop > 1 /\ fwd.hop \in 1 .. Len(fwd.chain)
  <1>1. Chain = fwd.chain
    BY DEF Chain, ClientChain, Walks
  <1>2. fwd.chain \in Seq(Hops) /\ in.addr # "next"
    BY InputsAssumption DEF HopsInv, CarriedInv, FwdType, FilterInv, ShapeInv, Hops
  <1>3. fwd.hop \in 1 .. Len(fwd.chain) /\ Len(fwd.chain) \in Nat
    BY <1>1, <1>2 DEF HopInv
  <1>4. \A k \in 1 .. Len(fwd.chain) : fwd.chain[k] # "next"
    BY <1>2 DEF Hops
  <1>5. ~(fwd.chain[fwd.hop] = Junk)
    <2> SUFFICES ASSUME fwd.chain[fwd.hop] = Junk PROVE FALSE
      OBVIOUS
    <2>1. CASE fwd.hop = Len(fwd.chain)
      BY <1>1, <1>2, <1>3, <2>1 DEF WalkResult
    <2>2. CASE fwd.hop < Len(fwd.chain)
      BY <1>1, <1>3, <1>4, <2>2 DEF WalkResult
    <2> QED
      BY <1>3, <2>1, <2>2
  <1>6. fwd.hop # 1
    BY <1>1, <1>3, <1>4, <1>5 DEF WalkResult
  <1> QED
    BY <1>1, <1>3, <1>6

LEMMA HopStep == FilterInv /\ HopsInv /\ HopInv /\ [Next]_vars => HopInv'
  <1> SUFFICES ASSUME FilterInv, HopsInv, HopInv, [Next]_vars PROVE HopInv'
    OBVIOUS
  <1>0. fwd.chain \in Seq(Hops)
    BY DEF HopsInv, CarriedInv, FwdType
  <1>s. cfg' = cfg /\ in' = in => Route' = Route
    BY SameRoute
  <1>a. ASSUME UNCHANGED fwd, pc' \in WalkPlaces => UNCHANGED <<pc, cfg, in>> PROVE HopInv'
    BY <1>a, <1>s DEF HopInv, Chain, ClientChain, Walks
  <1>1. CASE Arrive
    <2>1. fwd' = NoFwd /\ pc' = "arrived"
      BY <1>1 DEF Arrive
    <2>2. fwd'.hop = 0 /\ fwd'.chain = <<>>
      BY <2>1 DEF NoFwd
    <2> QED
      BY <2>1, <2>2 DEF HopInv, WalkPlaces
  <1>2. CASE Direct
    <2>1. fwd'.hop = Len(fwd'.chain) /\ fwd'.chain \in Seq(Hops) /\ pc' \in {"destWalk", "send"}
      BY <1>2, DirectFwd DEF Direct
    <2>2. pc' \in WalkPlaces => Chain' = fwd'.chain
      BY <2>1 DEF Chain, WalkPlaces
    <2> QED
      BY <2>1, <2>2 DEF HopInv, Walks
  <1>3. CASE EvalHop
    <2> DEFINE v == WalkResult(Chain, in.addr, fwd.hop, Contains("proxies", Chain[fwd.hop]))
    <2>1. /\ pc \in WalkPlaces /\ Walks(cfg, Chain) /\ UNCHANGED <<cfg, in>>
          /\ \/ v = "next" /\ fwd' = [fwd EXCEPT !.hop = @ - 1] /\ pc' = pc
             \/ v # "next" /\ Found(v) /\ UNCHANGED fwd
      BY <1>3 DEF EvalHop, WalkPlaces
    <2>2. CASE v = "next"
      <3>1. Chain = fwd.chain /\ fwd.hop > 1 /\ fwd.hop \in 1 .. Len(fwd.chain)
        BY <2>1, <2>2, HopStays
      <3>2. fwd' = [fwd EXCEPT !.hop = @ - 1] /\ pc' = pc
        BY <2>1, <2>2
      <3>3. fwd'.chain = fwd.chain /\ fwd'.hop = fwd.hop - 1
        BY <3>2, NewHop DEF HopsInv, CarriedInv
      <3>4. Chain' = fwd.chain
        BY <2>1, <3>1, <3>2, <3>3, <1>s DEF Chain, ClientChain
      <3> QED
        BY <1>0, <3>1, <3>3, <3>4 DEF HopInv
    <2>3. CASE v # "next"
      BY <1>a, <2>1, <2>3 DEF Found, Reply, WalkPlaces
    <2> QED
      BY <2>2, <2>3
  <1>4. CASE UpstreamAnswers
    <2>0. UNCHANGED <<cfg, in>>
      BY <1>4 DEF UpstreamAnswers
    <2>1. CASE ~Route.clientVar
      BY <1>4, <2>1, <1>a DEF UpstreamAnswers, Reply, WalkPlaces
    <2>2. CASE Route.clientVar
      <3>1. pc' = "clientWalk" /\ fwd' = [fwd EXCEPT !.hop = Len(ClientChain)]
        BY <1>4, <2>2 DEF UpstreamAnswers
      <3>2. fwd'.chain = fwd.chain /\ fwd'.hop = Len(ClientChain)
        BY <3>1, NewHop DEF HopsInv, CarriedInv
      <3>3. ClientChain \in {<<>>, fwd.chain} /\ Chain' = ClientChain
        BY <2>0, <3>1, <3>2, <1>s DEF Chain, ClientChain
      <3>4. ClientChain = <<>> \/ ClientChain = fwd.chain
        BY <3>3
      <3> QED
        BY <1>0, <3>2, <3>3, <3>4 DEF HopInv, Walks
    <2> QED
      BY <2>1, <2>2
  <1>5. CASE EvalPlain \/ Forward \/ DialFails \/ ProxyFails \/ TimeOut
    <2>1. UNCHANGED fwd /\ (pc' \in WalkPlaces => UNCHANGED <<pc, cfg, in>>)
      BY <1>5, Zenon DEF EvalPlain, Forward, DialFails, ProxyFails, TimeOut, Found, Reply, WalkPlaces
    <2> QED
      BY <2>1, <1>a
  <1>6. CASE ServeChallenge \/ LoadState \/ ReadAllowedLen \/ ReadBlockedLen \/ ReadAllowed
             \/ ReadBlocked \/ ServeStatus \/ ServeFile \/ ServeDir
    <2>1. UNCHANGED fwd /\ pc' \notin WalkPlaces
      BY <1>6 DEF ServeChallenge, LoadState, ReadAllowedLen, ReadBlockedLen, ReadAllowed,
             ReadBlocked, ServeStatus, ServeFile, ServeDir, CloseConnection, Reply, WalkPlaces
    <2> QED
      BY <2>1, <1>a
  <1>7. CASE Dispatch \/ Authenticate
    <2>1. UNCHANGED fwd
      BY <1>7 DEF Dispatch, Authenticate
    <2>2. pc' \in {"done", "auth", "direct", "serve"}
      BY <1>7, Zenon DEF Dispatch, Authenticate, CloseConnection, Reply
    <2> QED
      BY <2>1, <2>2, <1>a DEF WalkPlaces
  <1>8. CASE (\E c \in Reloads[scenario] : Swap(c))
             \/ (\E cl \in Lists(scenario) : Refresh(cl[1], cl[2])) \/ UNCHANGED vars
    <2>1. UNCHANGED <<fwd, pc, cfg, in>>
      BY <1>8 DEF Swap, Refresh, vars
    <2> QED
      BY <2>1, <1>a
  <1> QED
    BY <1>1, <1>2, <1>3, <1>4, <1>5, <1>6, <1>7, <1>8 DEF Next, Progress

LEMMA TypeInit == Init => TypeInv
  <1> SUFFICES ASSUME Init PROVE TypeInv
    OBVIOUS
  <1>1. pc \in Places /\ CountInv
    BY BoundsAssumption DEF Init, Places, CountInv
  <1>2. fwd.hop = 0 /\ fwd.chain = <<>> /\ pc = "idle"
    BY DEF Init, NoFwd
  <1> QED
    BY <1>1, <1>2 DEF TypeInv, HopInv, WalkPlaces

LEMMA TypeStep == FilterInv /\ HopsInv /\ TypeInv /\ [Next]_vars => TypeInv'
  BY PlacesStep, CountStep, HopStep DEF TypeInv

LEMMA TypesHold == FilterInv /\ HopsInv /\ TypeInv => TypeOK
  BY DEF FilterInv, ShapeInv, HopsInv, CarriedInv, TypeInv, CountInv, HopInv, TypeOK, WalkPlaces

\* The walk of evalTrustedXFF never leaves the chain it goes along.
THEOREM RequestTypeCorrect == Spec => []TypeOK
  BY FilterInit, FilterStep, HopsInit, HopsStep, TypeInit, TypeStep, TypesHold, PTL DEF Spec

-----------------------------------------------------------------------------
(* One configuration decides the whole answer. *)

\* The places after Allow, after the mux and after the authentication.
Settled  == {"dispatch", "auth", "serve", "direct"} \cup Proxying
Routed   == Settled \ {"dispatch"}
Admitted == Routed \ {"auth"}

\* A route takes the request, and its client is let in.
Lands  == VHost # 0 /\ ~Redirected(Routes, in.path) /\ Matches(Routes, in.path) # {}
Passes == AuthAnswer(cfg, Route, in) = "pass"

Closed == IF in.http2 THEN "400" ELSE "closed"

\* What the code has decided by the time a request is at a place.
StageInv ==
  /\ pc \in Undecided \cup {"idle"} => answer = None /\ up = NoUp
  /\ pc = "arrived" => served \in since
  /\ pc \in FilterPlaces => cfg.filter
  /\ pc \in FilterPlaces \cup Settled => cfg \in since
  /\ pc \in Settled => verdict = "allow"
  /\ pc \in {"dispatch", "auth", "serve"} => answer = None
  /\ pc \in {"direct"} \cup Proxying => answer \in {None, "503"}
  /\ pc \in Routed => Lands
  /\ pc \in Admitted => Passes
  /\ up # NoUp => pc \in {"await", "clientWalk", "done"}

\* The upstream got what the Director makes for one of the dests.
Directed ==
  \E d \in Route.dests :
    /\ up.path = UpstreamPath(Pattern, RouteOf(Routes, Pattern), d.path, in.path)
    /\ up.host = UpstreamHost(Route, d.unix)

UpInv == up # NoUp => Lands /\ Passes /\ Directed

\* The answer is the one of the step of the code that gives it.
DecisionInv ==
  answer \notin {None, "challenge"} =>
    /\ cfg \in since
    /\ verdict = "deny" => cfg.filter /\ answer = Closed /\ up = NoUp
    /\ verdict # "deny" /\ VHost = 0 => answer = Closed
    /\ verdict # "deny" /\ VHost # 0 /\ Redirected(Routes, in.path) => answer = "301"
    /\ verdict # "deny" /\ VHost # 0 /\ ~Redirected(Routes, in.path)
         /\ Matches(Routes, in.path) = {} => answer = "404"
    /\ verdict # "deny" /\ Lands =>
         /\ ~Passes => answer = AuthAnswer(cfg, Route, in)
         /\ answer = "401" \/ (answer = "403" /\ Route.kind # "dir") => ~Passes

AnswerInv == StageInv /\ UpInv /\ DecisionInv

\* What the configuration and the request alone decide.
LEMMA SameRouting ==
  ASSUME cfg' = cfg, in' = in
  PROVE  /\ VHost' = VHost /\ Routes' = Routes /\ Pattern' = Pattern /\ Route' = Route
         /\ Redirected(Routes, in.path)' = Redirected(Routes, in.path)
         /\ Matches(Routes, in.path)' = Matches(Routes, in.path)
         /\ AuthAnswer(cfg, Route, in)' = AuthAnswer(cfg, Route, in)
         /\ Lands' = Lands /\ Passes' = Passes /\ Closed' = Closed
         /\ up' = up => Directed' = Directed
  BY DEF VHost, Routes, Pattern, Route, Lands, Passes, Closed, Directed

\* A step beside the request.
LEMMA AnswerAside ==
  ASSUME AnswerInv, UNCHANGED <<pc, in, cfg, up, answer, verdict>>,
         since \subseteq since', pc = "arrived" => served' \in since'
  PROVE  AnswerInv'
  <1>1. StageInv' /\ UpInv'
    BY SameRouting DEF AnswerInv, StageInv, UpInv
  <1>2. DecisionInv'
    BY SameRouting DEF AnswerInv, DecisionInv
  <1> QED
    BY <1>1, <1>2 DEF AnswerInv

\* A step to a place that is not the end, and gives no answer.
LEMMA AnswerOnward ==
  ASSUME AnswerInv, UNCHANGED <<in, cfg, since, up, answer>>,
         pc' \in FilterPlaces \cup Settled, pc \in FilterPlaces \cup Settled,
         pc' \in FilterPlaces => pc \in FilterPlaces,
         pc' \in Settled => verdict' = "allow",
         pc' \in {"dispatch", "auth", "serve"} => pc \in FilterPlaces \cup {"dispatch", "auth"},
         pc' \in Routed => Lands, pc' \in Admitted => Passes,
         up # NoUp => pc' \in {"await", "clientWalk"}
  PROVE  AnswerInv'
  <1> USE DEF Settled, Routed, Admitted, Proxying, WalkPlaces, FilterPlaces, Undecided, None
  <1>1. answer \in {None, "503"} /\ (pc \in FilterPlaces \cup {"dispatch", "auth"} => answer = None)
    BY DEF AnswerInv, StageInv
  <1>2. StageInv'
    BY <1>1, SameRouting DEF AnswerInv, StageInv
  <1>3. UpInv'
    BY SameRouting DEF AnswerInv, UpInv
  <1>4. DecisionInv'
    <2>1. answer = "503" => verdict' = "allow" /\ cfg \in since /\ Lands /\ Passes
      <3>1. answer = "503" => pc \in {"direct"} \cup Proxying
        BY DEF AnswerInv, StageInv
      <3>2. answer = "503" => pc \notin FilterPlaces /\ pc' \in Settled
        BY <3>1
      <3> QED
        BY <3>1, <3>2 DEF AnswerInv, StageInv
    <2>2. answer' = None \/ answer' = "503"
      BY <1>1
    <2> QED
      BY <2>1, <2>2, SameRouting DEF DecisionInv, Lands
  <1> QED
    BY <1>2, <1>3, <1>4 DEF AnswerInv

\* A step that ends a request with an answer.
LEMMA AnswerGiven ==
  ASSUME AnswerInv, NEW a, a \notin {None, "challenge"}, Reply(a), UNCHANGED <<in, cfg, since, up>>,
         pc \in FilterPlaces \cup Settled,
         \/ /\ pc \in FilterPlaces /\ verdict' = "deny" /\ a = Closed
         \/ /\ pc = "dispatch" /\ verdict' = verdict
            /\ \/ VHost = 0 /\ a = Closed
               \/ VHost # 0 /\ Redirected(Routes, in.path) /\ a = "301"
               \/ VHost # 0 /\ ~Redirected(Routes, in.path)
                  /\ Matches(Routes, in.path) = {} /\ a = "404"
         \/ /\ pc = "auth" /\ verdict' = verdict /\ ~Passes /\ a = AuthAnswer(cfg, Route, in)
         \/ /\ pc \in Admitted /\ verdict' = verdict
            /\ a # "401" /\ (a = "403" => Route.kind = "dir")
  PROVE  AnswerInv'
  <1> USE DEF Settled, Routed, Admitted, Proxying, WalkPlaces, FilterPlaces, Undecided, None
  <1>1. pc' = "done" /\ answer' = (IF answer = None THEN a ELSE answer)
    BY DEF Reply
  <1>2. StageInv'
    BY <1>1 DEF StageInv
  <1>3. UpInv'
    BY SameRouting DEF AnswerInv, UpInv
  <1>4. DecisionInv'
    <2>1. cfg \in since /\ (pc \in FilterPlaces => cfg.filter /\ up = NoUp)
      BY DEF AnswerInv, StageInv
    <2>2. CASE pc \in FilterPlaces
      <3>1. verdict' = "deny" /\ a = Closed /\ answer = None
        BY <2>2 DEF AnswerInv, StageInv
      <3> QED
        BY <1>1, <2>1, <2>2, <3>1, SameRouting DEF DecisionInv
    <2>3. CASE pc \notin FilterPlaces
      <3>1. verdict' = "allow"
        BY <2>3 DEF AnswerInv, StageInv
      <3>2. CASE pc = "dispatch"
        <4>1. answer' = a
          BY <1>1, <3>2 DEF AnswerInv, StageInv
        <4> QED
          BY <2>1, <3>1, <3>2, <4>1, SameRouting DEF DecisionInv, Lands
      <3>3. CASE pc = "auth"
        <4>1. answer' = a /\ Lands /\ ~Passes /\ a = AuthAnswer(cfg, Route, in)
          BY <1>1, <3>3 DEF AnswerInv, StageInv
        <4> QED
          BY <2>1, <3>1, <4>1, SameRouting DEF DecisionInv, Lands
      <3>4. CASE pc \in Admitted
        <4>1. Lands /\ Passes /\ answer \in {None, "503"}
          BY <3>4 DEF AnswerInv, StageInv
        <4>2. answer' # "401" /\ (answer' = "403" => Route.kind = "dir")
          BY <1>1, <3>4, <4>1
        <4> QED
          BY <2>1, <3>1, <4>1, <4>2, SameRouting DEF DecisionInv, Lands
      <3> QED
        BY <2>3, <3>2, <3>3, <3>4
    <2> QED
      BY <2>2, <2>3
  <1> QED
    BY <1>2, <1>3, <1>4 DEF AnswerInv

LEMMA AnswerInit == Init => AnswerInv
  BY DEF Init, AnswerInv, StageInv, UpInv, DecisionInv, Settled, Routed, Admitted, Proxying,
         WalkPlaces, FilterPlaces, Undecided, None

\* Allow: the four questions.
LEMMA AnswerQuestions ==
  ASSUME AnswerInv, ReadAllowedLen \/ ReadBlockedLen \/ ReadAllowed \/ ReadBlocked
  PROVE  AnswerInv'
  <1>0. UNCHANGED <<in, cfg, since, up>> /\ pc \in FilterPlaces
    BY DEF ReadAllowedLen, ReadBlockedLen, ReadAllowed, ReadBlocked, FilterPlaces
  <1>1. up = NoUp
    BY <1>0 DEF AnswerInv, StageInv, Undecided
  <1>2. \/ UNCHANGED answer /\ pc' \in FilterPlaces \cup {"dispatch"}
           /\ (pc' = "dispatch" => verdict' = "allow")
        \/ CloseConnection /\ verdict' = "deny"
    BY DEF ReadAllowedLen, ReadBlockedLen, ReadAllowed, ReadBlocked, FilterPlaces
  <1>3. CASE UNCHANGED answer /\ pc' \in FilterPlaces \cup {"dispatch"}
             /\ (pc' = "dispatch" => verdict' = "allow")
    BY <1>0, <1>1, <1>3, AnswerOnward
       DEF Settled, Routed, Admitted, Proxying, WalkPlaces, FilterPlaces
  <1>4. CASE CloseConnection /\ verdict' = "deny"
    <2>1. Reply(Closed) /\ Closed \notin {None, "challenge"}
      BY <1>4 DEF CloseConnection, Closed, None
    <2> QED
      BY <1>0, <1>4, <2>1, AnswerGiven
  <1> QED
    BY <1>2, <1>3, <1>4

\* The handler has decided on the configuration it loaded.
LEMMA AnswerLoad ==
  ASSUME AnswerInv, LoadState
  PROVE  AnswerInv'
  <1>1. /\ pc = "arrived" /\ cfg' = served /\ UNCHANGED <<in, since, up>>
        /\ \/ ~served.filter /\ pc' = "dispatch" /\ verdict' = "allow" /\ UNCHANGED answer
           \/ served.filter /\ CloseConnection /\ verdict' = "deny"
           \/ served.filter /\ pc' = "lenAllowed" /\ UNCHANGED <<verdict, answer>>
    BY DEF LoadState
  <1>2. answer = None /\ up = NoUp /\ served \in since
    BY <1>1 DEF AnswerInv, StageInv, Undecided
  <1>3. UpInv'
    BY <1>1, <1>2 DEF UpInv
  <1>4. CASE CloseConnection /\ served.filter /\ verdict' = "deny"
    <2>1. pc' = "done" /\ answer' = Closed'
      BY <1>1, <1>2, <1>4 DEF CloseConnection, Reply, Closed
    <2>2. StageInv'
      BY <1>1, <1>2, <2>1
         DEF StageInv, Settled, Routed, Admitted, Proxying, WalkPlaces, FilterPlaces, Undecided
    <2>3. DecisionInv'
      BY <1>1, <1>2, <1>4, <2>1 DEF DecisionInv
    <2> QED
      BY <1>3, <2>2, <2>3 DEF AnswerInv
  <1>5. CASE /\ answer' = answer /\ pc' \in {"dispatch", "lenAllowed"}
             /\ pc' = "dispatch" => verdict' = "allow"
             /\ pc' = "lenAllowed" => served.filter
    <2>1. StageInv'
      BY <1>1, <1>2, <1>5
         DEF StageInv, Settled, Routed, Admitted, Proxying, WalkPlaces, FilterPlaces, Undecided
    <2>2. DecisionInv'
      BY <1>2, <1>5 DEF DecisionInv
    <2> QED
      BY <1>3, <2>1, <2>2 DEF AnswerInv
  <1> QED
    BY <1>1, <1>4, <1>5

\* The mux and the two middlewares.
LEMMA AnswerRouting ==
  ASSUME AnswerInv, Dispatch \/ Authenticate
  PROVE  AnswerInv'
  <1>0. UNCHANGED <<in, cfg, since, up, verdict>> /\ pc \in {"dispatch", "auth"}
    BY DEF Dispatch, Authenticate
  <1>1. verdict = "allow" /\ up = NoUp /\ answer = None
    BY <1>0 DEF AnswerInv, StageInv, Settled
  <1>2. CASE Dispatch
    <2>1. pc = "dispatch" /\ pc \in FilterPlaces \cup Settled
      BY <1>2 DEF Dispatch, Settled
    <2>2. \/ VHost = 0 /\ Reply(Closed)
          \/ VHost # 0 /\ Redirected(Routes, in.path) /\ Reply("301")
          \/ VHost # 0 /\ ~Redirected(Routes, in.path)
             /\ Matches(Routes, in.path) = {} /\ Reply("404")
          \/ Lands /\ pc' = "auth" /\ UNCHANGED answer
      BY <1>2, Zenon DEF Dispatch, CloseConnection, Closed, Lands
    <2>3. Closed \notin {None, "challenge"} /\ "301" \notin {None, "challenge"}
          /\ "404" \notin {None, "challenge"}
      BY DEF Closed, None
    <2>4. CASE VHost = 0 /\ Reply(Closed)
      BY <1>0, <2>1, <2>3, <2>4, AnswerGiven
    <2>5. CASE VHost # 0 /\ Redirected(Routes, in.path) /\ Reply("301")
      BY <1>0, <2>1, <2>3, <2>5, AnswerGiven
    <2>6. CASE VHost # 0 /\ ~Redirected(Routes, in.path)
               /\ Matches(Routes, in.path) = {} /\ Reply("404")
      BY <1>0, <2>1, <2>3, <2>6, AnswerGiven
    <2>7. CASE Lands /\ pc' = "auth" /\ UNCHANGED answer
      BY <1>0, <1>1, <2>1, <2>7, AnswerOnward
         DEF Settled, Routed, Admitted, Proxying, WalkPlaces, FilterPlaces
    <2> QED
      BY <2>2, <2>4, <2>5, <2>6, <2>7
  <1>3. CASE Authenticate
    <2>1. pc = "auth" /\ pc \in FilterPlaces \cup Settled /\ Lands
      BY <1>3 DEF Authenticate, Settled, Routed, AnswerInv, StageInv
    <2>2. CASE Passes
      <3>1. pc' \in {"direct", "serve"} /\ UNCHANGED answer
        BY <1>3, <2>2 DEF Authenticate, Passes
      <3> QED
        BY <1>0, <1>1, <2>1, <2>2, <3>1, AnswerOnward
           DEF Settled, Routed, Admitted, Proxying, WalkPlaces, FilterPlaces
    <2>3. CASE ~Passes
      <3>1. Reply(AuthAnswer(cfg, Route, in))
        BY <1>3, <2>3 DEF Authenticate, Passes
      <3>2. AuthAnswer(cfg, Route, in) \in {"401", "403"}
        BY <2>3, AdmittedIsDoc DEF Passes
      <3>3. AuthAnswer(cfg, Route, in) \notin {None, "challenge"}
        BY <3>2 DEF None
      <3> QED
        BY <1>0, <2>1, <2>3, <3>1, <3>3, AnswerGiven
    <2> QED
      BY <2>2, <2>3
  <1> QED
    BY <1>2, <1>3

\* The handlers that answer themselves, and the ends of the proxy.
LEMMA AnswerServing ==
  ASSUME AnswerInv, ServeStatus \/ ServeFile \/ ServeDir \/ DialFails \/ ProxyFails
  PROVE  AnswerInv'
  <1>0. UNCHANGED <<in, cfg, since, up, verdict>> /\ pc \in {"serve", "send", "await"}
    BY DEF ServeStatus, ServeFile, ServeDir, DialFails, ProxyFails
  <1>1. pc \in Admitted /\ pc \in FilterPlaces \cup Settled
    BY <1>0 DEF Settled, Routed, Admitted, Proxying
  <1>2. \E a \in {"status", "404", "500", "200", "403", "502"} :
           Reply(a) /\ (a = "403" => Route.kind = "dir")
    <2>1. CASE ServeDir
      <3>1. PICK entry \in {"file", "dir", "dirWithIndex", "missing"} :
              Reply(NoListOpen(Route.listing, entry))
        BY <2>1, Zenon DEF ServeDir
      <3>2. NoListOpen(Route.listing, entry) \in {"404", "403", "200"}
        BY DEF NoListOpen
      <3>3. Route.kind = "dir"
        BY <2>1, Zenon DEF ServeDir
      <3> QED
        BY <3>1, <3>2, <3>3
    <2>2. CASE ServeStatus \/ ServeFile \/ DialFails \/ ProxyFails
      BY <2>2, Zenon DEF ServeStatus, ServeFile, DialFails, ProxyFails
    <2> QED
      BY <2>1, <2>2
  <1>3. PICK a \in {"status", "404", "500", "200", "403", "502"} :
           Reply(a) /\ (a = "403" => Route.kind = "dir")
    BY <1>2
  <1>4. a \notin {None, "challenge"} /\ a # "401"
    BY DEF None
  <1> QED
    BY <1>0, <1>1, <1>3, <1>4, AnswerGiven

\* The steps of the reverse proxy.
LEMMA AnswerProxying ==
  ASSUME AnswerInv, Direct \/ EvalPlain \/ EvalHop \/ Forward \/ UpstreamAnswers \/ TimeOut
  PROVE  AnswerInv'
  <1> USE DEF Settled, Routed, Admitted, Proxying, WalkPlaces, FilterPlaces
  <1>0. UNCHANGED <<in, cfg, since, verdict>> /\ pc \in {"direct"} \cup Proxying
    BY DEF Direct, EvalPlain, EvalHop, Forward, UpstreamAnswers, TimeOut
  <1>1. /\ verdict = "allow" /\ Lands /\ Passes /\ cfg \in since /\ answer \in {None, "503"}
        /\ up # NoUp => pc \in {"await", "clientWalk"}
    BY <1>0 DEF AnswerInv, StageInv
  <1>2. CASE Direct
    <2>1. pc = "direct" /\ pc' \in {"destWalk", "send"} /\ UNCHANGED <<up, answer>>
      BY <1>2 DEF Direct
    <2> QED
      BY <1>0, <1>1, <2>1, AnswerOnward
  <1>3. CASE EvalPlain \/ EvalHop
    <2>1. UNCHANGED up /\ pc \in WalkPlaces
      BY <1>3 DEF EvalPlain, EvalHop
    <2>2. \/ pc' = pc /\ UNCHANGED answer
          \/ pc = "destWalk" /\ pc' = "send" /\ UNCHANGED answer
          \/ Reply("200")
      BY <1>3 DEF EvalPlain, EvalHop, Found
    <2>3. CASE Reply("200")
      <3>1. "200" \notin {None, "challenge"}
        BY DEF None
      <3> QED
        BY <1>0, <2>1, <2>3, <3>1, AnswerGiven
    <2>4. CASE UNCHANGED answer /\ (pc' = pc \/ (pc = "destWalk" /\ pc' = "send"))
      BY <1>0, <1>1, <2>1, <2>4, AnswerOnward
    <2> QED
      BY <2>2, <2>3, <2>4
  <1>4. CASE Forward
    <2>1. pc = "send" /\ pc' = "await" /\ UNCHANGED answer
      BY <1>4 DEF Forward
    <2>2. PICK dest \in Route.dests :
            up' = [path    |-> UpstreamPath(Pattern, RouteOf(Routes, Pattern), dest.path, in.path),
                   host    |-> UpstreamHost(Route, dest.unix),
                   headers |-> RoundTrip(ReverseProxyHeaders(
                                 ConnectionNames(Route, in.connection), in.addr,
                                 UserHeaders(Route, realIP, fwd.headers)))]
      BY <1>4, Zenon DEF Forward
    <2>3. /\ up'.path = UpstreamPath(Pattern, RouteOf(Routes, Pattern), dest.path, in.path)
          /\ up'.host = UpstreamHost(Route, dest.unix)
      BY <2>2
    <2>4. Directed'
      BY <1>0, <2>3, SameRouting DEF Directed
    <2>5. UpInv'
      BY <1>0, <1>1, <2>4, SameRouting DEF UpInv
    <2>6. StageInv'
      BY <1>0, <1>1, <2>1, SameRouting DEF StageInv, Undecided
    <2>7. DecisionInv'
      BY <1>0, <1>1, <2>1, SameRouting DEF AnswerInv, DecisionInv
    <2> QED
      BY <2>5, <2>6, <2>7 DEF AnswerInv
  <1>5. CASE UpstreamAnswers
    <2>1. UNCHANGED up /\ pc = "await"
          /\ \/ pc' = "clientWalk" /\ UNCHANGED answer
             \/ Reply("200")
      BY <1>5 DEF UpstreamAnswers
    <2>2. "200" \notin {None, "challenge"}
      BY DEF None
    <2>3. CASE Reply("200")
      BY <1>0, <2>1, <2>2, <2>3, AnswerGiven
    <2>4. CASE pc' = "clientWalk" /\ UNCHANGED answer
      BY <1>0, <1>1, <2>1, <2>4, AnswerOnward
    <2> QED
      BY <2>1, <2>3, <2>4
  <1>6. CASE TimeOut
    <2>1. UNCHANGED <<pc, up>> /\ answer' = "503"
      BY <1>6 DEF TimeOut
    <2>2. StageInv'
      BY <1>0, <1>1, <2>1, SameRouting DEF AnswerInv, StageInv, Undecided
    <2>3. UpInv'
      BY <1>0, <2>1, SameRouting DEF AnswerInv, UpInv
    <2>4. DecisionInv'
      BY <1>0, <1>1, <2>1, SameRouting DEF DecisionInv, Lands
    <2> QED
      BY <2>2, <2>3, <2>4 DEF AnswerInv
  <1> QED
    BY <1>2, <1>3, <1>4, <1>5, <1>6

LEMMA AnswerStep == AnswerInv /\ [Next]_vars => AnswerInv'
  <1> SUFFICES ASSUME AnswerInv, [Next]_vars PROVE AnswerInv'
    OBVIOUS
  <1>1. CASE Arrive
    <2>1. /\ pc' = "arrived" /\ answer' = None /\ up' = NoUp
          /\ served' = served /\ since' = {served}
      BY <1>1 DEF Arrive, env
    <2> QED
      BY <2>1
         DEF AnswerInv, StageInv, UpInv, DecisionInv, Settled, Routed, Admitted, Proxying,
             WalkPlaces, FilterPlaces, Undecided
  <1>2. CASE ServeChallenge
    <2>1. /\ pc = "arrived" /\ pc' = "done" /\ UNCHANGED up
          /\ answer' = (IF answer = None THEN "challenge" ELSE answer)
      BY <1>2 DEF ServeChallenge, Reply
    <2>2. answer' = "challenge" /\ up' = NoUp
      BY <2>1 DEF AnswerInv, StageInv, Undecided
    <2> QED
      BY <2>1, <2>2
         DEF AnswerInv, StageInv, UpInv, DecisionInv, Settled, Routed, Admitted, Proxying,
             WalkPlaces, FilterPlaces, Undecided
  <1>3. CASE LoadState
    BY <1>3, AnswerLoad
  <1>4. CASE ReadAllowedLen \/ ReadBlockedLen \/ ReadAllowed \/ ReadBlocked
    BY <1>4, AnswerQuestions
  <1>5. CASE Dispatch \/ Authenticate
    BY <1>5, AnswerRouting
  <1>6. CASE ServeStatus \/ ServeFile \/ ServeDir \/ DialFails \/ ProxyFails
    BY <1>6, AnswerServing
  <1>7. CASE Direct \/ EvalPlain \/ EvalHop \/ Forward \/ UpstreamAnswers \/ TimeOut
    BY <1>7, AnswerProxying
  <1>8. CASE (\E c \in Reloads[scenario] : Swap(c))
             \/ (\E cl \in Lists(scenario) : Refresh(cl[1], cl[2])) \/ UNCHANGED vars
    <2>1. UNCHANGED <<pc, in, cfg, up, answer, verdict>>
      BY <1>8 DEF Swap, Refresh, vars
    <2>2. since \subseteq since' /\ (pc = "arrived" => served' \in since')
      BY <1>8 DEF Swap, Refresh, vars, AnswerInv, StageInv
    <2> QED
      BY <2>1, <2>2, AnswerAside
  <1> QED
    BY <1>1, <1>2, <1>3, <1>4, <1>5, <1>6, <1>7, <1>8 DEF Next, Progress

\* The configurations and the requests are what Routing's lemmas are about.
LEMMA RoutesGood ==
  ASSUME ShapeInv, in \in Inputs[scenario], NamedDomains(cfg)
  PROVE  /\ VHost = DocVHost(cfg) /\ in.path \in Seq(Texts)
         /\ VHost # 0 => /\ GoodRoutes(Routes)
                         /\ \A p \in DOMAIN Routes : \A d \in Routes[p].dests : d.path \in Seq(Texts)
  <1>1. /\ in.path \in Seq(Texts)
        /\ DOMAIN cfg.vhosts = 1 .. Len(cfg.vhosts) /\ Len(cfg.vhosts) \in Nat
        /\ \A i \in DOMAIN cfg.vhosts : \A p \in DOMAIN cfg.vhosts[i].routes :
             IsPath(p) /\ \A d \in cfg.vhosts[i].routes[p].dests : d.path \in Seq(Texts)
        /\ \A i \in DOMAIN cfg.vhosts : ~MuxPanics(cfg.vhosts[i].routes)
    BY PathsAssumption, ServedAssumption DEF ShapeInv
  <1>2. VHost = DocVHost(cfg) /\ (VHost # 0 => VHost \in DOMAIN cfg.vhosts)
    BY <1>1, VHostIsDoc DEF VHost
  <1> QED
    BY <1>1, <1>2 DEF Routes, GoodRoutes

\* The answer of the code is the one of README's tables.
LEMMA AnswerIsDoc ==
  ASSUME AnswerInv, ShapeInv, in \in Inputs[scenario], NamedDomains(cfg)
  PROVE  AnsweredAsConfigured
  <1> DEFINE routes   == cfg.vhosts[DocVHost(cfg)].routes
             covering == {p \in DOMAIN routes : Covers(p, in.path)}
             p        == DocRoute(routes, in.path)
             sent(d)  == /\ up.path = DocPath(p, d.path, in.path)
                         /\ (up.host = "client") <=>
                              ({"Host"} \notin routes[p].del /\ "Host" \notin routes[p].add)
             allowed  ==
               /\ ~DocAdmitted(cfg, routes[p]) => answer \in {"401", "403"} /\ up = NoUp
               /\ answer = "401" \/ (answer = "403" /\ routes[p].kind # "dir")
                    => ~DocAdmitted(cfg, routes[p])
               /\ up # NoUp => \E d \in routes[p].dests : sent(d)
  <1> SUFFICES ASSUME answer \notin {None, "challenge"}
      PROVE  /\ cfg \in since
             /\ IF verdict = "deny" \/ DocVHost(cfg) = 0
                  THEN (verdict = "deny" => cfg.filter) /\ answer = Closed
                  ELSE /\ DocRedirect(routes, in.path) => answer = "301"
                       /\ ~DocRedirect(routes, in.path) /\ covering = {} => answer = "404"
                       /\ ~DocRedirect(routes, in.path) /\ covering # {} => allowed
    BY DEF AnsweredAsConfigured, Closed
  <1>1. /\ VHost = DocVHost(cfg) /\ in.path \in Seq(Texts)
        /\ VHost # 0 => /\ GoodRoutes(Routes)
                        /\ \A q \in DOMAIN Routes : \A d \in Routes[q].dests : d.path \in Seq(Texts)
    BY RoutesGood
  <1>2. /\ cfg \in since
        /\ verdict = "deny" => cfg.filter /\ answer = Closed
        /\ verdict # "deny" /\ VHost = 0 => answer = Closed
    BY DEF AnswerInv, DecisionInv
  <1>3. CASE verdict = "deny" \/ VHost = 0
    BY <1>1, <1>2, <1>3
  <1>4. CASE verdict # "deny" /\ VHost # 0
    <2>1. routes = Routes /\ GoodRoutes(Routes) /\ in.path \in Seq(Texts)
      BY <1>1, <1>4 DEF Routes
    <2>2. DocRedirect(routes, in.path) <=> Redirected(Routes, in.path)
      BY <2>1, RedirectIsDoc
    <2>3. covering = {} <=> Matches(Routes, in.path) = {}
      BY <2>1, NoMatch
    <2>4. /\ Redirected(Routes, in.path) => answer = "301"
          /\ ~Redirected(Routes, in.path) /\ Matches(Routes, in.path) = {} => answer = "404"
      BY <1>4 DEF AnswerInv, DecisionInv
    <2>5. ASSUME ~Redirected(Routes, in.path), Matches(Routes, in.path) # {} PROVE allowed
      <3>1. Lands
        BY <1>4, <2>5 DEF Lands
      <3>2. /\ RouteOf(Routes, Pattern) = p /\ p \in DOMAIN Routes
            /\ Pattern \in {p, Slashed(p)} /\ Fits(Pattern, in.path)
        BY <2>1, <2>5, RouteIsDoc DEF Pattern
      <3>3. Route = routes[p]
        BY <2>1, <3>2 DEF Route
      <3>4. Passes <=> DocAdmitted(cfg, routes[p])
        BY <3>3, AdmittedIsDoc DEF Passes
      <3>5. ~Passes => answer \in {"401", "403"} /\ up = NoUp
        <4>1. ~Passes => answer = AuthAnswer(cfg, Route, in) /\ up = NoUp
          BY <1>4, <3>1 DEF AnswerInv, DecisionInv, UpInv
        <4> QED
          BY <4>1, AdmittedIsDoc DEF Passes
      <3>6. answer = "401" \/ (answer = "403" /\ Route.kind # "dir") => ~Passes
        BY <1>4, <3>1 DEF AnswerInv, DecisionInv
      <3>7. ASSUME up # NoUp PROVE \E d \in routes[p].dests : sent(d)
        <4>1. PICK d \in Route.dests :
                /\ up.path = UpstreamPath(Pattern, RouteOf(Routes, Pattern), d.path, in.path)
                /\ up.host = UpstreamHost(Route, d.unix)
          BY <3>7 DEF AnswerInv, UpInv, Directed
        <4>2. d.path \in Seq(Texts) /\ p \in Seq(Texts)
          BY <1>1, <1>4, <2>1, <3>2, <3>3, <4>1, GoodPath
        <4>3. UpstreamPath(Pattern, p, d.path, in.path) = DocPath(p, d.path, in.path)
          <5> HIDE DEF p
          <5> QED
            BY <2>1, <3>2, <4>2, PathIsDoc
        <4>4. up.path = DocPath(p, d.path, in.path)
          BY <3>2, <4>1, <4>3
        <4>5. up.host = "client" <=> ({"Host"} \notin Route.del /\ "Host" \notin Route.add)
          BY <4>1 DEF UpstreamHost
        <4> QED
          BY <3>3, <4>1, <4>4, <4>5
      <3> HIDE DEF p, sent, routes
      <3> QED
        BY <3>3, <3>4, <3>5, <3>6, <3>7
    <2> QED
      BY <1>2, <1>1, <1>4, <2>2, <2>3, <2>4, <2>5
  <1> QED
    BY <1>3, <1>4

\* No virtual host has the domain "", which isCatchAll takes for a catch-all and
\* matchHost does not: such a vhost has every host when it is the only one and
\* none when there are others.  README's table of hosts does not know it.
NoEmptyDomains == \A sc \in Scenarios : \A c \in Configs[sc] : NamedDomains(c)

\* One configuration that was served meanwhile decides the whole answer, and it
\* decides what README's tables say, for any virtual hosts, routes, dests and
\* requests, whatever is reloaded between two steps of the handler.
THEOREM RequestAnsweredAsConfigured ==
  ASSUME NoEmptyDomains
  PROVE  Spec => []AnsweredAsConfigured
  <1>1. FilterInv /\ HopsInv /\ AnswerInv => AnsweredAsConfigured
    <2> SUFFICES ASSUME FilterInv, HopsInv, AnswerInv PROVE AnsweredAsConfigured
      OBVIOUS
    <2>1. ShapeInv /\ in \in Inputs[scenario]
      BY DEF FilterInv, HopsInv, CarriedInv
    <2>2. NamedDomains(cfg)
      BY <2>1 DEF NoEmptyDomains, ShapeInv
    <2> QED
      BY <2>1, <2>2, AnswerIsDoc
  <1> QED
    BY <1>1, FilterInit, FilterStep, HopsInit, HopsStep, AnswerInit, AnswerStep, PTL DEF Spec

-----------------------------------------------------------------------------
(* The headers the upstream gets. *)

\* What the Director found the client to be, and the headers it made of it, are
\* kept until the upstream has got them.
HeaderInv ==
  pc \in Proxying \/ up # NoUp =>
    /\ fwd.trusted \in BOOLEAN
    /\ fwd.trusted => cfg.trustAll \/ WasTrusted(in.addr)
    /\ ~fwd.trusted => ~cfg.trustAll /\ \E s \in seen["proxies"] : in.addr \notin s
    /\ fwd.headers = StripAuthorization(EffectiveAuth(cfg, Route),
                       ForwardedHeaders(fwd.trusted, in.addr, in.headers))
    /\ up # NoUp =>
         \E v : up.headers = RoundTrip(ReverseProxyHeaders(
                               ConnectionNames(Route, in.connection), in.addr,
                               UserHeaders(Route, v, fwd.headers)))

\* What the list of proxies has been is not forgotten.
LEMMA HeadersKept ==
  ASSUME HeaderInv, UNCHANGED <<in, cfg, up>>, seen["proxies"] \subseteq seen'["proxies"],
         fwd'.trusted = fwd.trusted, fwd'.headers = fwd.headers,
         pc' \in Proxying => pc \in Proxying
  PROVE  HeaderInv'
  <1>1. Route' = Route
    BY SameRoute
  <1>2. CASE pc \in Proxying \/ up # NoUp
    BY <1>1, <1>2 DEF HeaderInv, WasTrusted
  <1>3. CASE ~(pc \in Proxying \/ up # NoUp)
    BY <1>3 DEF HeaderInv
  <1> QED
    BY <1>2, <1>3

\* The Director asks the list of trusted proxies once.
LEMMA DirectHeaders ==
  ASSUME FilterInv, HopsInv, AnswerInv, Direct
  PROVE  HeaderInv'
  <1>0. UNCHANGED <<in, cfg, up, seen>> /\ pc = "direct"
    BY DEF Direct
  <1>1. up = NoUp
    BY <1>0 DEF AnswerInv, StageInv
  <1>2. /\ fwd'.trusted = (cfg.trustAll \/ (cfg.proxies /\ Contains("proxies", in.addr)))
        /\ fwd'.headers = StripAuthorization(EffectiveAuth(cfg, Route),
                            ForwardedHeaders(fwd'.trusted, in.addr, in.headers))
    BY DirectFwd
  <1>3. Nets(cfg, "proxies") \in seen["proxies"]
    BY <1>0 DEF HopsInv, CarriedInv
  <1>4. ~cfg.proxies => Nets(cfg, "proxies") = {}
    BY ListsAssumption DEF Nets, FilterInv, ShapeInv
  <1>5. fwd'.trusted \in BOOLEAN
    BY <1>2
  <1>6. fwd'.trusted => cfg.trustAll \/ WasTrusted(in.addr)
    BY <1>2, <1>3 DEF Contains, WasTrusted
  <1>7. ~fwd'.trusted => ~cfg.trustAll /\ \E s \in seen["proxies"] : in.addr \notin s
    BY <1>2, <1>3, <1>4 DEF Contains
  <1>8. Route' = Route
    BY <1>0, SameRoute
  <1> QED
    BY <1>0, <1>1, <1>2, <1>5, <1>6, <1>7, <1>8 DEF HeaderInv, WasTrusted

LEMMA HeaderInit == Init => HeaderInv
  BY DEF Init, HeaderInv, Proxying, WalkPlaces

LEMMA HeaderStep == FilterInv /\ HopsInv /\ AnswerInv /\ HeaderInv /\ [Next]_vars => HeaderInv'
  <1> SUFFICES ASSUME FilterInv, HopsInv, AnswerInv, HeaderInv, [Next]_vars PROVE HeaderInv'
    OBVIOUS
  <1> USE DEF Proxying, WalkPlaces
  <1>1. CASE Arrive
    BY <1>1 DEF Arrive, HeaderInv
  <1>2. CASE LoadState
    <2>1. up' = up /\ pc = "arrived" /\ pc' \in {"dispatch", "done", "lenAllowed"}
      BY <1>2 DEF LoadState, CloseConnection, Reply
    <2>2. up = NoUp
      BY <2>1 DEF AnswerInv, StageInv, Undecided
    <2> QED
      BY <2>1, <2>2 DEF HeaderInv
  <1>3. CASE ServeChallenge \/ ReadAllowedLen \/ ReadBlockedLen \/ ReadAllowed \/ ReadBlocked
             \/ ServeStatus \/ ServeFile \/ ServeDir
    <2>1. UNCHANGED <<in, cfg, up, seen, fwd>> /\ pc' \notin Proxying
      BY <1>3 DEF ServeChallenge, ReadAllowedLen, ReadBlockedLen, ReadAllowed, ReadBlocked,
                  ServeStatus, ServeFile, ServeDir, CloseConnection, Reply
    <2> QED
      BY <2>1, HeadersKept
  <1>4. CASE Dispatch \/ Authenticate
    <2>1. UNCHANGED <<in, cfg, up, seen, fwd>>
      BY <1>4 DEF Dispatch, Authenticate
    <2>2. pc' \in {"done", "auth", "direct", "serve"}
      BY <1>4, Zenon DEF Dispatch, Authenticate, CloseConnection, Reply
    <2> QED
      BY <2>1, <2>2, HeadersKept
  <1>5. CASE Direct
    BY <1>5, DirectHeaders
  <1>6. CASE EvalPlain \/ DialFails \/ ProxyFails \/ TimeOut
    <2>1. UNCHANGED <<in, cfg, up, seen, fwd>>
      BY <1>6 DEF EvalPlain, DialFails, ProxyFails, TimeOut
    <2>2. pc' \in Proxying => pc \in Proxying
      BY <1>6 DEF EvalPlain, DialFails, ProxyFails, TimeOut, Reply
    <2> QED
      BY <2>1, <2>2, HeadersKept
  <1>7. CASE EvalHop
    <2>1. UNCHANGED <<in, cfg, up, seen>> /\ pc \in Proxying
      BY <1>7 DEF EvalHop
    <2>2. fwd' = [fwd EXCEPT !.hop = @ - 1] \/ fwd' = fwd
      BY <1>7 DEF EvalHop
    <2>3. fwd'.trusted = fwd.trusted /\ fwd'.headers = fwd.headers
      <3>1. FwdType(fwd)
        BY DEF HopsInv, CarriedInv
      <3>2. CASE fwd' = [fwd EXCEPT !.hop = @ - 1]
        BY <3>1, <3>2, NewHop
      <3>3. CASE fwd' = fwd
        BY <3>3
      <3> QED
        BY <2>2, <3>2, <3>3
    <2> QED
      BY <2>1, <2>3, HeadersKept
  <1>8. CASE UpstreamAnswers
    <2>1. UNCHANGED <<in, cfg, up, seen>> /\ pc \in Proxying
      BY <1>8 DEF UpstreamAnswers
    <2>2. fwd' = [fwd EXCEPT !.hop = Len(ClientChain)] \/ fwd' = fwd
      BY <1>8 DEF UpstreamAnswers
    <2>3. fwd'.trusted = fwd.trusted /\ fwd'.headers = fwd.headers
      <3>1. FwdType(fwd)
        BY DEF HopsInv, CarriedInv
      <3>2. CASE fwd' = [fwd EXCEPT !.hop = Len(ClientChain)]
        BY <3>1, <3>2, NewHop
      <3>3. CASE fwd' = fwd
        BY <3>3
      <3> QED
        BY <2>2, <3>2, <3>3
    <2> QED
      BY <2>1, <2>3, HeadersKept
  <1>9. CASE Forward
    <2>1. UNCHANGED <<in, cfg, seen, fwd>> /\ pc = "send"
      BY <1>9 DEF Forward
    <2>2. PICK dest \in Route.dests :
            up' = [path    |-> UpstreamPath(Pattern, RouteOf(Routes, Pattern), dest.path, in.path),
                   host    |-> UpstreamHost(Route, dest.unix),
                   headers |-> RoundTrip(ReverseProxyHeaders(
                                 ConnectionNames(Route, in.connection), in.addr,
                                 UserHeaders(Route, realIP, fwd.headers)))]
      BY <1>9, Zenon DEF Forward
    <2>3. up'.headers = RoundTrip(ReverseProxyHeaders(
                          ConnectionNames(Route, in.connection), in.addr,
                          UserHeaders(Route, realIP, fwd.headers)))
      BY <2>2
    <2>4. Route' = Route
      BY <2>1, SameRoute
    <2> QED
      BY <2>1, <2>3, <2>4 DEF HeaderInv, WasTrusted
  <1>10. ASSUME NEW c \in Reloads[scenario], Swap(c) PROVE HeaderInv'
    BY <1>10, HeadersKept DEF Swap
  <1>11. ASSUME NEW cl \in Lists(scenario), Refresh(cl[1], cl[2]) PROVE HeaderInv'
    <2>1. UNCHANGED <<in, cfg, up, fwd, pc>> /\ seen["proxies"] \subseteq seen'["proxies"]
      BY <1>11 DEF Refresh, FilterInv, ShapeInv, ListNames
    <2> QED
      BY <2>1, HeadersKept
  <1>12. CASE UNCHANGED vars
    BY <1>12, HeadersKept DEF vars
  <1> QED
    BY <1>1, <1>2, <1>3, <1>4, <1>5, <1>6, <1>7, <1>8, <1>9, <1>10, <1>11, <1>12
       DEF Next, Progress

\* README's table of what becomes of a header, and what Connection names is lost.
Expected(n, named, route, auth, trusted, addr, sent) ==
  IF n \in named THEN <<>>
  ELSE IF n \in route.add THEN <<"added">>
  ELSE IF \E d \in route.del : n \in d THEN <<>>
  ELSE IF n = "X-Forwarded-For" THEN (IF trusted THEN Append(sent, addr) ELSE <<addr>>)
  ELSE IF n \in {"X-Forwarded-Host", "X-Forwarded-Proto"}
    THEN (IF trusted THEN sent ELSE <<"connection">>)
  ELSE IF n = "Authorization" /\ auth # "" THEN <<>> ELSE sent

\* What ReverseProxy keeps of the headers when Connection names some of them.
Unnamed(named, h) == [n \in HeaderNames |-> IF n \in named THEN <<>> ELSE h[n]]

\* ReverseProxy appends the client's address, xffRoundTripper takes it off.
Undone(named, addr, h, n) ==
  RoundTrip(ReverseProxyHeaders(named, addr, h))[n] = Unnamed(named, h)[n]

LEMMA RoundTripUndoes ==
  ASSUME NEW addr, addr # NoAddr, NEW S, NEW old, NEW named, NEW n \in HeaderNames,
         old["X-Forwarded-For"] \in Seq(S)
  PROVE  Undone(named, addr, old, n)
  <1> DEFINE h == Unnamed(named, old)
             x == h["X-Forwarded-For"]
             g == [h EXCEPT !["X-Forwarded-For"] = Append(x, addr)]
             back == IF Append(x, addr) = <<>> THEN <<>>
                     ELSE SubSeq(Append(x, addr), 1, Len(Append(x, addr)) - 1)
  <1>0. DOMAIN h = HeaderNames /\ x \in Seq(S)
    BY DEF Unnamed, HeaderNames
  <1>1. ReverseProxyHeaders(named, addr, old) = g
    BY DEF ReverseProxyHeaders, Unnamed
  <1> HIDE DEF h
  <1>2. DOMAIN g = HeaderNames /\ g["X-Forwarded-For"] = Append(x, addr)
        /\ (n # "X-Forwarded-For" => g[n] = h[n])
    BY <1>0 DEF HeaderNames
  <1>3. RoundTrip(g)[n] = IF n = "X-Forwarded-For" THEN back ELSE g[n]
    <2> HIDE DEF g
    <2> QED
      BY <1>2 DEF RoundTrip, HeaderNames
  <1>4. back = x
    <2> DEFINE T == S \cup {addr}
               a == Append(x, addr)
    <2>1. x \in Seq(T)
      BY <1>0
    <2>2. a \in Seq(T) /\ Len(a) = Len(x) + 1 /\ a # <<>> /\ \A k \in 1 .. Len(x) : a[k] = x[k]
      <3> HIDE DEF x, T
      <3>1. addr \in T
        BY DEF T
      <3> QED
        BY <2>1, <3>1
    <2> HIDE DEF a, x, T
    <2>3. /\ SubSeq(a, 1, Len(a) - 1) \in Seq(T) /\ Len(SubSeq(a, 1, Len(a) - 1)) = Len(x)
          /\ \A k \in 1 .. Len(x) : SubSeq(a, 1, Len(a) - 1)[k] = a[k]
      <3>1. Len(x) \in Nat /\ Len(x) <= Len(a) /\ Len(a) - 1 = Len(x)
        BY <2>1, <2>2
      <3> QED
        BY <2>2, <3>1, FrontOf
    <2>4. SubSeq(a, 1, Len(a) - 1) = x
      BY <2>1, <2>2, <2>3, SeqEqual
    <2> QED
      BY <2>2, <2>4 DEF a
  <1> HIDE DEF g, back
  <1> QED
    BY <1>1, <1>2, <1>3, <1>4 DEF Undone, h

\* The chain of the headers is that of README's table.
LEMMA HeadersExpected ==
  ASSUME NEW n \in HeaderNames \ {"Real-IP"}, NEW named,
         NEW route, NEW auth, NEW trusted \in BOOLEAN,
         NEW addr \in Hops, addr # NoAddr, NEW old \in [HeaderNames -> Seq(Hops)], NEW v
  PROVE  RoundTrip(ReverseProxyHeaders(named, addr, UserHeaders(route, v,
           StripAuthorization(auth, ForwardedHeaders(trusted, addr, old)))))[n]
         = Expected(n, named, route, auth, trusted, addr, old[n])
  <1> DEFINE f == ForwardedHeaders(trusted, addr, old)
             k == StripAuthorization(auth, f)
             u == UserHeaders(route, v, k)
             S == Hops \cup {"added"}
  <1>1. /\ DOMAIN f = HeaderNames
        /\ f["X-Forwarded-For"] = IF trusted THEN Append(old["X-Forwarded-For"], addr) ELSE <<addr>>
        /\ \A m \in {"X-Forwarded-Host", "X-Forwarded-Proto"} :
             f[m] = IF trusted THEN old[m] ELSE <<"connection">>
        /\ \A m \in {"Authorization", "Real-IP", "Extra"} : f[m] = old[m]
    BY DEF ForwardedHeaders, HeaderNames
  <1> HIDE DEF f
  <1>2. /\ DOMAIN k = HeaderNames
        /\ \A m \in HeaderNames : k[m] = IF m = "Authorization" /\ auth # "" THEN <<>> ELSE f[m]
    BY <1>1 DEF StripAuthorization, HeaderNames
  <1> HIDE DEF k
  <1>3. /\ DOMAIN u = HeaderNames
        /\ \A m \in HeaderNames \ {"Real-IP"} :
             u[m] = IF m \in route.add THEN <<"added">>
                    ELSE IF \E d \in route.del : m \in d THEN <<>> ELSE k[m]
    BY DEF UserHeaders, ApplyDeleteHeaders
  <1> HIDE DEF u
  <1>4. u["X-Forwarded-For"] \in Seq(S)
    <2>1. old["X-Forwarded-For"] \in Seq(Hops)
      BY DEF HeaderNames
    <2>2. Append(old["X-Forwarded-For"], addr) \in Seq(Hops) /\ <<addr>> \in Seq(Hops)
      BY <2>1
    <2>3. k["X-Forwarded-For"] \in Seq(Hops)
      BY <1>1, <1>2, <2>2 DEF HeaderNames
    <2>4. k["X-Forwarded-For"] \in Seq(S)
      BY <2>3
    <2>5. <<"added">> \in Seq(S) /\ <<>> \in Seq(S)
      OBVIOUS
    <2> HIDE DEF S
    <2> QED
      BY <1>3, <2>4, <2>5 DEF HeaderNames
  <1>5. RoundTrip(ReverseProxyHeaders(named, addr, u))[n] = IF n \in named THEN <<>> ELSE u[n]
    <2> HIDE DEF S
    <2>1. n \in HeaderNames
      OBVIOUS
    <2>2. Undone(named, addr, u, n)
      BY <1>4, <2>1, RoundTripUndoes
    <2> QED
      BY <2>1, <2>2 DEF Undone, Unnamed
  <1>6. n \in {"X-Forwarded-For", "X-Forwarded-Host", "X-Forwarded-Proto", "Authorization", "Extra"}
    BY DEF HeaderNames
  <1>7. n \notin named => u[n] = Expected(n, named, route, auth, trusted, addr, old[n])
    BY <1>1, <1>2, <1>3, <1>6 DEF Expected, HeaderNames
  <1>8. n \in named => Expected(n, named, route, auth, trusted, addr, old[n]) = <<>>
    BY DEF Expected
  <1> QED
    BY <1>5, <1>7, <1>8 DEF u, k, f

LEMMA HeadersAreDoc ==
  ASSUME FilterInv, HopsInv, HeaderInv
  PROVE  ForwardedAsTrusted
  <1> SUFFICES ASSUME up # NoUp, in.addr # NoAddr
      PROVE  /\ fwd.trusted => cfg.trustAll \/ WasTrusted(in.addr)
             /\ ~fwd.trusted => ~cfg.trustAll /\ \E s \in seen["proxies"] : in.addr \notin s
             /\ \A n \in HeaderNames \ {"Real-IP"} :
                  up.headers[n] = Expected(n, ConnectionNames(Route, in.connection), Route,
                                           EffectiveAuth(cfg, Route), fwd.trusted,
                                           in.addr, in.headers[n])
    BY DEF ForwardedAsTrusted, WasTrusted, Expected
  <1>1. in.addr \in Hops /\ in.headers \in [HeaderNames -> Seq(Hops)]
    BY InputsAssumption DEF HopsInv, CarriedInv, FilterInv, ShapeInv
  <1>2. /\ fwd.trusted \in BOOLEAN
        /\ fwd.headers = StripAuthorization(EffectiveAuth(cfg, Route),
                           ForwardedHeaders(fwd.trusted, in.addr, in.headers))
    BY DEF HeaderInv
  <1>3. PICK v : up.headers = RoundTrip(ReverseProxyHeaders(
                                ConnectionNames(Route, in.connection), in.addr,
                                UserHeaders(Route, v, fwd.headers)))
    BY DEF HeaderInv
  <1>4. \A n \in HeaderNames \ {"Real-IP"} :
          up.headers[n] = Expected(n, ConnectionNames(Route, in.connection), Route,
                                   EffectiveAuth(cfg, Route), fwd.trusted,
                                   in.addr, in.headers[n])
    BY <1>1, <1>2, <1>3, HeadersExpected
  <1> QED
    BY <1>4 DEF HeaderInv

\* Whom the Director trusts, and what becomes of every header on the way to the
\* upstream, is as README says, for any chain, any delete patterns and whatever
\* is refreshed and reloaded meanwhile.
THEOREM RequestForwardedAsTrusted == Spec => []ForwardedAsTrusted
  BY FilterInit, FilterStep, HopsInit, HopsStep, AnswerInit, AnswerStep, HeaderInit, HeaderStep,
     HeadersAreDoc, PTL DEF Spec
=============================================================================
