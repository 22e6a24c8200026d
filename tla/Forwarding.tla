----------------------------- MODULE Forwarding -----------------------------
(***************************************************************************)
(* What happens to the headers of a request on its way to the upstream:    *)
(* the Director of buildRouteHandler (server.go), the ReverseProxy of      *)
(* net/http/httputil and xffRoundTripper (headers.go), as operators.       *)
(*                                                                         *)
(* A header is a sequence, empty when it is absent.  X-Forwarded-For is    *)
(* the sequence of its hops; the others have one value, which says where   *)
(* it comes from.  A delete pattern is the set of the names it matches,     *)
(* "Host" and "Connection" among them.                                     *)
(***************************************************************************)
EXTENDS Naturals, Sequences

\* The address of a client of a Unix socket: RemoteAddr has no host and port.
NoAddr == ""

\* A hop that net.ParseIP rejects.
Junk == "junk"

\* The texts of addresses and hops: "next" is kept for WalkResult.
Hops == STRING \ {"next"}

\* "Real-IP" stands for a header whose value is ${trusted_xff}, "Extra" for one
\* that nobody treats in a special way.
HeaderNames == {"X-Forwarded-For", "X-Forwarded-Host", "X-Forwarded-Proto",
                "Authorization", "Real-IP", "Extra"}

\* The Director: the X-Forwarded headers.
ForwardedHeaders(trusted, addr, h) ==
  [h EXCEPT !["X-Forwarded-For"] = IF addr = NoAddr THEN @
                                   ELSE IF trusted THEN Append(@, addr) ELSE <<addr>>,
            !["X-Forwarded-Host"]  = IF trusted THEN @ ELSE <<"connection">>,
            !["X-Forwarded-Proto"] = IF trusted THEN @ ELSE <<"connection">>]

\* The Director: credentials for the proxy end here.
StripAuthorization(auth, h) ==
  IF auth = "" THEN h ELSE [h EXCEPT !["Authorization"] = <<>>]

\* applyDeleteHeaders and matchesDelete.
ApplyDeleteHeaders(h, patterns) ==
  [n \in HeaderNames |-> IF \E p \in patterns : n \in p THEN <<>> ELSE h[n]]

\* The Director: dest-del-header, then dest-add-header; realIP is the value of
\* ${trusted_xff}.
UserHeaders(route, realIP, h) ==
  LET kept == ApplyDeleteHeaders(h, route.del)
  IN  [n \in HeaderNames |->
         IF n \in route.add THEN <<"added">>
         ELSE IF n = "Real-IP" /\ route.destVar THEN <<realIP>> ELSE kept[n]]

\* The Director: the Host header.  Only the pattern "Host" itself deletes it.
UpstreamHost(route, unix) ==
  IF "Host" \in route.add THEN "added"
  ELSE IF {"Host"} \notin route.del THEN "client"
  ELSE IF unix THEN "localhost" ELSE "upstream"

\* The headers that the Connection header names once the Director is done with it:
\* those the client named, unless the route deletes or replaces that header, too.
ConnectionNames(route, named) ==
  IF "Connection" \in route.add \cup UNION route.del THEN {} ELSE named

\* httputil.ReverseProxy, after the Director: headers that Connection names go no
\* further, then the address of the client is appended once more.
ReverseProxyHeaders(named, addr, h) ==
  LET kept == [n \in HeaderNames |-> IF n \in named THEN <<>> ELSE h[n]]
  IN  IF addr = NoAddr THEN kept ELSE [kept EXCEPT !["X-Forwarded-For"] = Append(@, addr)]

\* Seeded fault of RoundTrip: a single hop is left in.
RoundTripKeepsLast(h) ==
  [h EXCEPT !["X-Forwarded-For"] =
     IF Len(@) > 1 THEN SubSeq(@, 1, Len(@) - 1) ELSE @]

\* xffRoundTripper: the last hop is taken off again.
RoundTrip(h) ==
  [h EXCEPT !["X-Forwarded-For"] =
     IF @ = <<>> THEN <<>> ELSE SubSeq(@, 1, Len(@) - 1)]

-----------------------------------------------------------------------------
(* evalTrustedXFF. *)

\* The hops are looked up in the list of trusted proxies only in this case.
Walks(cfg, chain) == ~cfg.trustAll /\ cfg.proxies /\ chain # <<>>

\* The value where no lookup is needed: with trust-client-headers the leftmost
\* hop that is an address.
PlainXFF(cfg, chain, addr) ==
  LET valid == {i \in 1 .. Len(chain) : chain[i] # Junk}
  IN  IF cfg.trustAll /\ valid # {}
        THEN chain[CHOOSE i \in valid : \A j \in valid : i <= j] ELSE addr

\* Seeded fault of WalkResult: the walk goes on past the leftmost hop.
WalkResultRunsOff(chain, addr, i, trusted) ==
  CASE chain[i] = Junk /\ i = Len(chain) -> addr
    [] chain[i] = Junk /\ i < Len(chain) -> chain[i + 1]
    [] chain[i] # Junk /\ ~trusted -> chain[i]
    [] OTHER -> "next"

\* Seeded fault of WalkResult: a malformed hop is passed over.
WalkResultSkipsJunk(chain, addr, i, trusted) ==
  CASE chain[i] = Junk /\ i = 1 -> addr
    [] chain[i] # Junk /\ (~trusted \/ i = 1) -> chain[i]
    [] OTHER -> "next"

\* One round of the walk from right to left, at hop i, which is or is not in
\* the list: the value, or "next" when the walk goes on.
WalkResult(chain, addr, i, trusted) ==
  CASE chain[i] = Junk /\ i = Len(chain) -> addr
    [] chain[i] = Junk /\ i < Len(chain) -> chain[i + 1]
    [] chain[i] # Junk /\ (~trusted \/ i = 1) -> chain[i]
    [] OTHER -> "next"
=============================================================================
