----------------------------- MODULE MCJwtVerify -----------------------------
(* An instance of JwtVerify for TLC: a token that is in order, and others that *)
(* differ from it in one respect, under the three ways to a key. *)
EXTENDS JwtVerify

CONSTANTS c1, c2, k1, k2, u1

Good == [alg |-> "RSA", kid |-> k1, signer |-> k1, iss |-> u1, exp |-> 1,
         nbf |-> None, aud |-> {"app", "web"}, user |-> "alice"]
Late == [Good EXCEPT !.kid = k2, !.signer = k2, !.exp = 2, !.nbf = 2]

ByUrl    == [secret |-> None, url |-> u1, aud |-> None, claim |-> TRUE]
ByIssuer == [secret |-> None, url |-> None, aud |-> "web", claim |-> FALSE]
BySecret == [secret |-> [kind |-> "RSA", key |-> k2], url |-> u1, aud |-> "other",
             claim |-> FALSE]

MCRequests ==
  {[token |-> Good, cfg |-> ByUrl],
   [token |-> Late, cfg |-> ByIssuer],
   [token |-> [Good EXCEPT !.signer = k2], cfg |-> ByUrl],
   [token |-> [Good EXCEPT !.iss = None], cfg |-> ByIssuer],
   [token |-> [Late EXCEPT !.aud = {"other"}], cfg |-> BySecret]}
==============================================================================
