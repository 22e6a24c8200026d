----------------------------- MODULE JwtVerify -----------------------------
(***************************************************************************)
(* jwtverify.Verify: the check of one token per request, by callers that   *)
(* share the cache of key sets (JwksCache).                                *)
(*                                                                         *)
(* A call parses the token, finds the key its configuration asks for,      *)
(* which may mean a wait for the cache and for the network, and then tests *)
(* signature, exp, nbf, audience and the user claim at the time it has     *)
(* become by then.  A key set is reduced to its kids: a kid names a key.   *)
(***************************************************************************)
EXTENDS JwksCache

CONSTANTS
  Requests, \* [token, cfg]: the arguments of Verify, where
            \*   token: [alg, kid, signer, iss, exp, nbf, aud, user]
            \*   cfg: [secret, url, aud, claim]
  Skew      \* the tolerance of nbf

ASSUME RequestsAssumption == None \notin Requests

VARIABLES
  request,   \* caller -> what it verifies; None between calls
  result,    \* caller -> what Verify returned; "pending" until then
  published  \* history: url -> the kids its endpoint has ever published

verify == <<request, result, published>>
allVars == <<vars, verify>>

Results == {"none", "pending", "ok", "refused"}

TypeVerify ==
  /\ TypeOK
  /\ request \in [Callers -> Requests \cup {None}]
  /\ result \in [Callers -> Results]
  /\ published \in [Urls -> SUBSET Kids]

InitVerify ==
  /\ Init
  /\ request = [c \in Callers |-> None]
  /\ result = [c \in Callers |-> "none"]
  /\ published = remote

-----------------------------------------------------------------------------
(* The key. *)

\* classifyKey: what the configured secret is.  [kind, key]
ClassifyKey(secret) == secret.kind

\* staticKeyFunc: the algorithm must be of the kind of the configured key.
StaticKeyFunc(secret, t) == t.alg = ClassifyKey(secret)

\* jwksURLForIssuer: None for an issuer that is not a known provider.
JwksURLForIssuer(t) == t.iss

\* resolveKeyFunc: the secret, else the configured url, else the issuer's.
UrlFor(r) == IF r.cfg.url # None THEN r.cfg.url ELSE JwksURLForIssuer(r.token)

-----------------------------------------------------------------------------
(* The claims, after the signature. *)

\* checkExp: exp is mandatory; claimToUnix wants a positive number.
CheckExp(t) == t.exp \notin {None, 0} /\ clock <= t.exp

\* checkNbf: optional.
CheckNbf(t) == t.nbf # None => t.nbf # 0 /\ t.nbf <= clock + Skew

\* checkAud: the expected audience is one of the token's.
CheckAud(r) == r.cfg.aud # None => r.cfg.aud \in r.token.aud

CheckUser(r) == r.cfg.claim => r.token.user # None

\* Verify, from the parse with the key on.  All errors refuse the request alike.
Verdict(r, signed) ==
  IF /\ signed /\ CheckExp(r.token) /\ CheckNbf(r.token)
     /\ CheckAud(r) /\ CheckUser(r)
  THEN "ok" ELSE "refused"

-----------------------------------------------------------------------------
(* The steps of a call. *)

Idle(c) == request[c] = None

Set(f, c, v) == f' = [f EXCEPT ![c] = v]

\* The call has its key, or needs none of the cache.
Ready(c) == request[c] # None /\ call[c].pc \in {"idle", "found", "missing", "failed"}

Return(c, res) ==
  /\ Set(result, c, res) /\ Set(request, c, None)
  /\ UNCHANGED <<vars, published>>

\* A token comes in.  Without a secret and with a url, getKey looks up its kid.
Verify(c) ==
  /\ Idle(c)
  /\ \E r \in Requests :
       /\ Set(request, c, r)
       /\ IF r.cfg.secret = None /\ UrlFor(r) # None
          THEN GetKey(c) /\ call'[c].url = UrlFor(r) /\ call'[c].kid = r.token.kid
          ELSE UNCHANGED vars
  /\ Set(result, c, "pending")
  /\ UNCHANGED published

\* A configured secret.
DecideStatic(c) ==
  /\ Ready(c) /\ request[c].cfg.secret # None
  /\ LET r == request[c]
     IN  Return(c, Verdict(r, /\ StaticKeyFunc(r.cfg.secret, r.token)
                              /\ r.token.signer = r.cfg.secret.key))

\* issuerKeyFunc: the issuer is not known.
NoIssuer(c) ==
  /\ Ready(c) /\ request[c].cfg.secret = None /\ UrlFor(request[c]) = None
  /\ Return(c, "refused")

\* Looked up: getKey has run for this call.
LookedUp(c) == Ready(c) /\ request[c].cfg.secret = None /\ UrlFor(request[c]) # None

NoKey(c) == LookedUp(c) /\ call[c].pc \in {"missing", "failed"} /\ Return(c, "refused")

\* Seeded fault of Decide: exp has been tested before the key was fetched.
DecideStaleExp(c) ==
  /\ LookedUp(c) /\ call[c].pc = "found"
  /\ LET r == request[c]
     IN  Return(c, IF /\ r.token.alg # "HMAC" /\ r.token.signer = call[c].kid
                      /\ CheckNbf(r.token) /\ CheckAud(r) /\ CheckUser(r)
                   THEN "ok" ELSE "refused")

\* getKey found the kid: the rest of Verify.  A key set holds no HMAC keys.
Decide(c) ==
  /\ LookedUp(c) /\ call[c].pc = "found"
  /\ LET r == request[c]
     IN  Return(c, Verdict(r, r.token.alg # "HMAC" /\ r.token.signer = call[c].kid))

\* The steps of getKey, the clock and the provider.
Cache ==
  /\ \/ Tick
     \/ \E u \in Urls : Rotate(u)
     \/ \E c \in Callers : Serve(c)
  /\ published' = [u \in Urls |-> published[u] \cup remote'[u]]
  /\ UNCHANGED <<request, result>>

Answer(c) == DecideStatic(c) \/ NoIssuer(c) \/ NoKey(c) \/ Decide(c)

NextVerify == Cache \/ \E c \in Callers : Verify(c) \/ Answer(c)

\* Goroutines run, a fetch ends within its 10s timeout and the lock starves
\* nobody (see JwksCache).
SpecVerify ==
  /\ InitVerify /\ [][NextVerify]_allVars
  /\ \A c \in Callers : SF_allVars((Cache /\ Serve(c)) \/ Answer(c))

-----------------------------------------------------------------------------
(* Properties. *)

\* README "Verification": Verify accepts a token only if, at that moment and not
\* when the request came in, it has not expired, is valid already, is meant for
\* this audience and carries the user claim, and it was signed with the secret
\* by an algorithm of the secret's kind, or with a key that the endpoint for it
\* (the configured one, else the issuer's) has published under its kid; a
\* configured secret comes before a url, a url before the issuer.
AcceptedIsGenuine ==
  [][\A c \in Callers :
       (result[c] = "pending" /\ result'[c] = "ok") =>
         LET t == request[c].token
             s == request[c].cfg
         IN  /\ t.exp # None /\ clock <= t.exp
             /\ t.nbf # None => t.nbf <= clock + Skew
             /\ s.aud # None => s.aud \in t.aud
             /\ s.claim => t.user # None
             /\ IF s.secret # None THEN t.signer = s.secret.key /\ t.alg = s.secret.kind
                ELSE /\ t.signer = t.kid /\ t.alg # "HMAC"
                     /\ s.url # None => t.kid \in published[s.url]
                     /\ s.url = None => t.iss # None /\ t.kid \in published[t.iss]]_allVars

\* Every verification ends, whatever the others wait for and whatever the
\* endpoints answer.
VerifyReturns ==
  \A c \in Callers : result[c] = "pending" ~> result[c] # "pending"
=============================================================================
