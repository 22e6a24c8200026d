-------------------------- MODULE JwtVerifyProofs --------------------------
(***************************************************************************)
(* Theorems about JwksCache and JwtVerify, for any number of callers,      *)
(* endpoints, keys and requests: the cache fetches only what it must, the  *)
(* verifications use it as its specification says, and a token that is     *)
(* accepted was genuine at that moment.                                    *)
(***************************************************************************)
EXTENDS JwtVerify, TLAPS

(* JwksCache. *)

\* The write lock is held by exactly the caller in its critical section.
WriterInv ==
  \A c \in Callers : call[c].pc \in {"recheck", "fetch"} <=> writer = c

\* While the entry a caller took is fresh, it is still the cached one.
SnapInv ==
  \A c \in Callers :
    call[c].pc = "test" /\ Fresh(snap[c]) => entries[call[c].url] = snap[c]

IInv == TypeOK /\ WriterInv /\ FetchOnlyWhenStale /\ SnapInv

\* An entry that is not fresh does not become fresh when time passes.
LEMMA StaleStays ==
  ASSUME NEW e \in Entry \cup {None}, clock \in Nat, clock' \in Nat,
         clock' >= clock, ~Fresh(e)
  PROVE  ~(e # None /\ clock' - e.fetchedAt < e.ttl)
<1> SUFFICES ASSUME e # None PROVE ~(clock' - e.fetchedAt < e.ttl)
  OBVIOUS
<1>1. e.fetchedAt \in Nat /\ e.ttl \in Nat
  BY JwksAssumption DEF Entry
<1>2. ~(clock - e.fetchedAt < e.ttl)
  BY DEF Fresh
<1> QED
  BY <1>1, <1>2

\* The initial states satisfy the inductive invariant.
LEMMA InitIInv == Init => IInv
<1> SUFFICES ASSUME Init PROVE IInv
  OBVIOUS
<1> USE JwksAssumption
<1>1. \A c \in Callers : call[c].pc = "idle" /\ call[c] \in Call
  BY DEF Init, Call
<1>2. call \in [Callers -> Call]
  BY DEF Init, Call
<1>3. TypeOK
  BY <1>2 DEF Init, TypeOK
<1>4. WriterInv /\ FetchOnlyWhenStale /\ SnapInv
  BY <1>1 DEF Init, WriterInv, FetchOnlyWhenStale, SnapInv
<1> QED
  BY <1>3, <1>4 DEF IInv

\* Steps that leave the cache, the lock and the callers alone.
LEMMA OutsideIInv ==
  ASSUME IInv, Tick \/ \E u \in Urls : Rotate(u)
  PROVE  IInv'
<1> USE JwksAssumption DEF IInv
<1>1. /\ clock \in Nat /\ clock' \in Nat /\ clock' >= clock
      /\ remote' \in [Urls -> SUBSET Kids]
      /\ UNCHANGED <<entries, writer, call, snap>>
  BY DEF Tick, Rotate, TypeOK
<1>2. TypeOK' /\ WriterInv'
  BY <1>1 DEF TypeOK, WriterInv
<1>3. FetchOnlyWhenStale'
  <2> SUFFICES ASSUME NEW c \in Callers, call[c].pc = "fetch"
               PROVE  ~Fresh(entries[call[c].url])' /\ writer' = c
                      /\ ~Has(entries[call[c].url], call[c].kid)'
    BY <1>1 DEF FetchOnlyWhenStale
  <2>1. entries[call[c].url] \in Entry \cup {None}
    BY DEF TypeOK, Call
  <2> QED
    BY <1>1, <2>1, StaleStays DEF FetchOnlyWhenStale, Fresh, Has
<1>4. SnapInv'
  <2> SUFFICES ASSUME NEW c \in Callers, call[c].pc = "test", Fresh(snap[c])'
               PROVE  entries[call[c].url] = snap[c]
    BY <1>1 DEF SnapInv
  <2>1. Fresh(snap[c])
    BY <1>1, StaleStays DEF TypeOK, Fresh
  <2> QED
    BY <2>1 DEF SnapInv
<1> QED
  BY <1>2, <1>3, <1>4

\* A step of a caller that leaves the cache and the clock alone keeps what is
\* said of the other callers; it remains to show the parts about the caller.
LEMMA LocalIInv ==
  ASSUME IInv, NEW c \in Callers, TypeOK',
         UNCHANGED <<clock, entries>>,
         \A d \in Callers \ {c} : call'[d] = call[d] /\ snap'[d] = snap[d],
         \/ writer' = writer /\ (call'[c].pc \in {"recheck", "fetch"}
                                   <=> call[c].pc \in {"recheck", "fetch"})
         \/ writer = None /\ writer' = c /\ call'[c].pc \in {"recheck", "fetch"}
         \/ writer = c /\ writer' = None
              /\ call'[c].pc \notin {"recheck", "fetch"},
         call'[c].pc = "fetch" =>
           /\ ~Has(entries[call'[c].url], call'[c].kid)
           /\ ~Fresh(entries[call'[c].url]),
         call'[c].pc = "test" => snap'[c] = entries[call'[c].url]
  PROVE  IInv'
<1> USE JwksAssumption DEF IInv
<1>1. WriterInv'
  BY DEF WriterInv
<1>2. FetchOnlyWhenStale'
  BY <1>1 DEF FetchOnlyWhenStale, WriterInv, Has, Fresh
<1>3. SnapInv'
  BY DEF SnapInv, Fresh
<1> QED
  BY <1>1, <1>2, <1>3

\* A new call, the read of the entry, the fast path, the lock and the recheck.
LEMMA CallIInv ==
  ASSUME IInv, NEW c \in Callers,
         GetKey(c) \/ Read(c) \/ FastPath(c) \/ Lock(c) \/ Recheck(c)
            \/ FetchFails(c)
  PROVE  IInv'
<1> USE JwksAssumption
<1>0. TypeOK /\ WriterInv
  BY DEF IInv
<1>1. CASE GetKey(c)
  <2>1. PICK u \in Urls, k \in Kids :
          call' = [call EXCEPT ![c] = [pc |-> "start", url |-> u, kid |-> k]]
    BY <1>1 DEF GetKey
  <2>2. call' \in [Callers -> Call]
    BY <1>0, <2>1 DEF TypeOK, Call
  <2>3. TypeOK'
    BY <1>0, <1>1, <2>2 DEF TypeOK, GetKey
  <2>4. /\ call'[c].pc = "start" /\ call[c].pc \notin {"recheck", "fetch"}
        /\ \A d \in Callers \ {c} : call'[d] = call[d]
    BY <1>0, <1>1, <2>1 DEF TypeOK, GetKey
  <2> QED
    BY <1>1, <2>3, <2>4, LocalIInv DEF GetKey
<1>2. ASSUME NEW pc \in {"test", "lock", "recheck", "fetch", "found",
                         "missing", "failed"}, Goto(c, pc)
      PROVE  /\ call' \in [Callers -> Call]
             /\ call'[c].pc = pc /\ call'[c].url = call[c].url
             /\ call'[c].kid = call[c].kid
             /\ \A d \in Callers \ {c} : call'[d] = call[d]
  <2>1. call' = [call EXCEPT ![c].pc = pc]
    BY <1>2 DEF Goto
  <2> QED
    BY <1>0, <2>1 DEF TypeOK, Call
<1>3. CASE Read(c)
  <2>1. Goto(c, "test") /\ snap' = [snap EXCEPT ![c] = entries[call[c].url]]
    BY <1>3 DEF Read
  <2>2. entries[call[c].url] \in Entry \cup {None}
    BY <1>0 DEF TypeOK, Call
  <2>3. TypeOK'
    BY <1>0, <1>2, <1>3, <2>1, <2>2 DEF TypeOK, Read
  <2> QED
    BY <1>0, <1>2, <1>3, <2>1, <2>3, LocalIInv DEF Read, TypeOK
<1>4. CASE FastPath(c)
  <2>1. PICK pc \in {"found", "missing", "lock"} : Goto(c, pc)
    BY <1>4 DEF FastPath
  <2>2. TypeOK'
    BY <1>0, <1>2, <1>4, <2>1 DEF TypeOK, FastPath
  <2> QED
    BY <1>0, <1>2, <1>4, <2>1, <2>2, LocalIInv DEF FastPath, TypeOK
<1>5. CASE Lock(c)
  <2>1. TypeOK'
    BY <1>0, <1>2, <1>5 DEF TypeOK, Lock
  <2> QED
    BY <1>0, <1>2, <1>5, <2>1, LocalIInv DEF Lock, TypeOK
<1>6. CASE Recheck(c)
  <2>1. writer = c
    BY <1>0, <1>6 DEF WriterInv, Recheck
  <2>2. CASE Goto(c, "fetch") /\ UNCHANGED writer
             /\ ~Has(entries[call[c].url], call[c].kid)
             /\ ~Fresh(entries[call[c].url])
    <3>1. TypeOK'
      BY <1>0, <1>2, <1>6, <2>2 DEF TypeOK, Recheck
    <3> QED
      BY <1>0, <1>2, <1>6, <2>2, <3>1, LocalIInv DEF Recheck, TypeOK
  <2>3. CASE writer' = None /\ \E pc \in {"found", "missing"} : Goto(c, pc)
    <3>1. TypeOK'
      BY <1>0, <1>2, <1>6, <2>3 DEF TypeOK, Recheck
    <3> QED
      BY <1>0, <1>2, <1>6, <2>1, <2>3, <3>1, LocalIInv DEF Recheck, TypeOK
  <2> QED
    BY <1>6, <2>2, <2>3 DEF Recheck
<1>7. CASE FetchFails(c)
  <2>1. writer = c
    BY <1>0, <1>7 DEF WriterInv, FetchFails
  <2>2. TypeOK'
    BY <1>0, <1>2, <1>7 DEF TypeOK, FetchFails
  <2> QED
    BY <1>0, <1>2, <1>7, <2>1, <2>2, LocalIInv DEF FetchFails, TypeOK
<1> QED
  BY <1>1, <1>3, <1>4, <1>5, <1>6, <1>7

\* The answer of the endpoint replaces an entry that was not fresh, so no
\* caller on the fast path can still answer from the replaced one.
LEMMA FetchOkIInv ==
  ASSUME IInv, NEW c \in Callers, FetchOk(c)
  PROVE  IInv'
<1> USE JwksAssumption DEF IInv
<1> DEFINE u == call[c].url
<1>1. u \in Urls /\ call[c] \in Call /\ remote[u] \subseteq Kids
  BY DEF TypeOK, Call
<1>2. PICK ttl \in TTLs :
        entries' = [entries EXCEPT ![u] =
                      [keys |-> remote[u], fetchedAt |-> clock, ttl |-> ttl]]
  BY DEF FetchOk
<1>3. PICK pc \in {"found", "missing"} : call' = [call EXCEPT ![c].pc = pc]
  BY DEF FetchOk, Goto
<1>4. /\ call' \in [Callers -> Call]
      /\ call'[c].pc \in {"found", "missing"}
      /\ \A d \in Callers \ {c} : call'[d] = call[d]
  BY <1>3 DEF TypeOK, Call
<1>5. writer = c /\ ~Fresh(entries[u]) /\ writer' = None
      /\ UNCHANGED <<clock, remote, snap>>
  BY DEF FetchOk, FetchOnlyWhenStale
<1>6. TypeOK'
  <2>1. entries' \in [Urls -> Entry \cup {None}]
    BY <1>1, <1>2 DEF TypeOK, Entry
  <2> QED
    BY <1>4, <1>5, <2>1 DEF TypeOK
<1>7. \A d \in Callers \ {c} : call[d].pc \notin {"recheck", "fetch"}
  BY <1>5 DEF WriterInv
<1>8. WriterInv' /\ FetchOnlyWhenStale'
  BY <1>4, <1>5, <1>7 DEF WriterInv, FetchOnlyWhenStale
<1>9. SnapInv'
  <2> SUFFICES ASSUME NEW d \in Callers, call'[d].pc = "test", Fresh(snap[d])
               PROVE  entries'[call'[d].url] = snap[d]
    BY <1>5 DEF SnapInv, Fresh
  <2>1. d # c /\ call'[d] = call[d]
    BY <1>4
  <2>2. entries[call[d].url] = snap[d]
    BY <2>1 DEF SnapInv
  <2>3. call[d].url # u
    BY <1>5, <2>2
  <2>4. call[d].url \in Urls
    BY DEF TypeOK, Call
  <2> QED
    BY <1>2, <2>1, <2>2, <2>3, <2>4 DEF TypeOK
<1> QED
  BY <1>6, <1>8, <1>9

\* Every step keeps the inductive invariant.
LEMMA NextIInv ==
  ASSUME IInv, [Next]_vars
  PROVE  IInv'
<1>1. CASE Tick \/ \E u \in Urls : Rotate(u)
  BY <1>1, OutsideIInv
<1>2. CASE \E c \in Callers : GetKey(c) \/ Serve(c)
  BY <1>2, CallIInv, FetchOkIInv DEF Serve
<1>3. CASE UNCHANGED vars
  BY <1>3 DEF IInv, vars, TypeOK, WriterInv, FetchOnlyWhenStale, SnapInv,
     Has, Fresh
<1> QED
  BY <1>1, <1>2, <1>3 DEF Next

\* The inductive invariant holds in every reachable state.
THEOREM JwksInvariant == Spec => []IInv
<1>1. Init => IInv
  BY InitIInv
<1>2. IInv /\ [Next]_vars => IInv'
  BY NextIInv
<1> QED
  BY <1>1, <1>2, PTL DEF Spec

\* getKey fetches only when nothing fresh is cached, one caller at a time.
THEOREM JwksFetchOnlyWhenStale == Spec => []FetchOnlyWhenStale
<1>1. IInv => FetchOnlyWhenStale
  BY DEF IInv
<1> QED
  BY <1>1, JwksInvariant, PTL

\* getKey reports a missing kid only when the cached entry does not have it,
\* also on the fast path, whose entry was taken before.
THEOREM JwksMissingIsCurrent == Spec => MissingIsCurrent
<1> DEFINE A == \A c \in Callers :
       call[c].pc # "missing" /\ call'[c].pc = "missing" =>
         /\ entries'[call[c].url] # None
         /\ call[c].kid \notin entries'[call[c].url].keys
<1>1. IInv /\ [Next]_vars => [A]_vars
  <2> SUFFICES ASSUME IInv, Next, NEW c \in Callers,
                      call[c].pc # "missing", call'[c].pc = "missing"
               PROVE  /\ entries'[call[c].url] # None
                      /\ call[c].kid \notin entries'[call[c].url].keys
    OBVIOUS
  <2>1. call[c] \in Call /\ call \in [Callers -> Call]
    BY DEF IInv, TypeOK
  <2>g. \A pc : Goto(c, pc) => pc = "missing"
    BY <2>1 DEF Goto, Call
  <2>2. PICK d \in Callers : GetKey(d) \/ Serve(d)
    BY DEF Next, Tick, Rotate
  <2>3. d = c /\ ~GetKey(c)
    BY <2>1, <2>2 DEF GetKey, Serve, Read, FastPath, Lock, Recheck, FetchOk,
       FetchFails, Goto
  <2>4. CASE FastPath(c)
    <3>1. /\ Fresh(snap[c]) /\ ~Has(snap[c], call[c].kid)
          /\ call[c].pc = "test" /\ entries' = entries
      BY <2>g, <2>4 DEF FastPath
    <3>2. entries[call[c].url] = snap[c]
      BY <3>1 DEF IInv, SnapInv
    <3> QED
      BY <3>1, <3>2 DEF Fresh, Has
  <2>5. CASE Recheck(c)
    BY <2>g, <2>5 DEF Recheck, Fresh, Has
  <2>6. CASE FetchOk(c)
    <3>1. PICK ttl \in TTLs :
            entries' = [entries EXCEPT ![call[c].url] =
              [keys |-> remote[call[c].url], fetchedAt |-> clock, ttl |-> ttl]]
      BY <2>6 DEF FetchOk
    <3>2. call[c].kid \notin remote[call[c].url]
      BY <2>g, <2>6 DEF FetchOk
    <3>3. /\ entries'[call[c].url] \in Entry
          /\ entries'[call[c].url].keys = remote[call[c].url]
      BY <2>1, <2>6, <3>1 DEF IInv, TypeOK, Call, Entry
    <3>4. entries'[call[c].url] # None
      BY <3>3, NilAssumption
    <3> QED
      BY <3>2, <3>3, <3>4
  <2> QED
    BY <2>g, <2>2, <2>3, <2>4, <2>5, <2>6 DEF Serve, Read, Lock, FetchFails
<1> QED
  BY <1>1, JwksInvariant, PTL DEF Spec, MissingIsCurrent

-----------------------------------------------------------------------------
(* JwtVerify. *)

\* A step of a verification is a step of the cache or leaves it alone.
LEMMA VerifyStepsCache == [NextVerify]_allVars => [Next]_vars
  <1> SUFFICES ASSUME [NextVerify]_allVars PROVE [Next]_vars
    OBVIOUS
  <1>1. CASE Cache
    BY <1>1, Zenon DEF Cache, Next
  <1>2. ASSUME NEW c \in Callers, Verify(c) PROVE [Next]_vars
    <2>1. GetKey(c) \/ UNCHANGED vars
      BY <1>2, Zenon DEF Verify
    <2> QED
      BY <2>1, Zenon DEF Next
  <1>3. ASSUME NEW c \in Callers, Answer(c) PROVE UNCHANGED vars
    BY <1>3, Zenon DEF Answer, DecideStatic, NoIssuer, NoKey, Decide, Return
  <1>4. CASE UNCHANGED allVars
    BY <1>4 DEF allVars
  <1> QED
    BY <1>1, <1>2, <1>3, <1>4, Zenon DEF NextVerify

\* The verifications keep to the specification of the cache.
THEOREM VerifyUsesCache == SpecVerify => Spec
  <1>1. InitVerify => Init
    BY DEF InitVerify
  <1> QED
    BY <1>1, VerifyStepsCache, PTL DEF SpecVerify, Spec

\* Several verifications that miss a key together fetch it once, and only when
\* nothing fresh is cached (getKey, under the write lock).
THEOREM VerifyFetchOnlyWhenStale == SpecVerify => []FetchOnlyWhenStale
  BY VerifyUsesCache, JwksFetchOnlyWhenStale, PTL

\* A verification is told that a kid does not exist only when the entry that is
\* cached at that moment lacks it.
THEOREM VerifyMissingIsCurrent == SpecVerify => MissingIsCurrent
  BY VerifyUsesCache, JwksMissingIsCurrent, PTL

-----------------------------------------------------------------------------

\* What the cache and its callers hold has been published by the endpoint.
PublishedInv ==
  /\ published \in [Urls -> SUBSET Kids]
  /\ \A u \in Urls : remote[u] \subseteq published[u]
  /\ \A u \in Urls : entries[u] # None => entries[u].keys \subseteq published[u]
  /\ \A c \in Callers :
       call[c].pc = "test" /\ snap[c] # None => snap[c].keys \subseteq published[call[c].url]
  /\ \A c \in Callers :
       call[c].pc = "found" => call[c].kid \in published[call[c].url]

\* A verification by key set.
ByKeySet(r) == r # None /\ r.cfg.secret = None /\ UrlFor(r) # None

\* A verification by key set looks up the key of its own token.
OwnKeyInv ==
  /\ request \in [Callers -> Requests \cup {None}]
  /\ result \in [Callers -> Results]
  /\ \A c \in Callers :
       ByKeySet(request[c]) =>
         call[c].url = UrlFor(request[c]) /\ call[c].kid = request[c].token.kid

VerifyInv == IInv /\ PublishedInv /\ OwnKeyInv

LEMMA VerifyInit == InitVerify => VerifyInv
  <1> SUFFICES ASSUME InitVerify PROVE VerifyInv
    OBVIOUS
  <1>1. IInv
    BY InitIInv DEF InitVerify
  <1>2. PublishedInv
    BY DEF InitVerify, Init, PublishedInv
  <1>3. OwnKeyInv
    BY DEF InitVerify, OwnKeyInv, Results, ByKeySet
  <1> QED
    BY <1>1, <1>2, <1>3 DEF VerifyInv

\* Caching, taking and testing an entry.
LEMMA ServePublished ==
  ASSUME VerifyInv, NEW c \in Callers, Serve(c),
         published' = [u \in Urls |-> published[u] \cup remote'[u]],
         UNCHANGED <<request, result>>
  PROVE  PublishedInv' /\ OwnKeyInv'
  <1> USE DEF VerifyInv
  <1>t. TypeOK
    BY DEF IInv
  <1>1. remote' = remote /\ published' = published
    <2>1. remote' = remote
      BY DEF Serve, Read, FastPath, Lock, Recheck, FetchOk, FetchFails
    <2>2. \A u \in Urls : published[u] \cup remote'[u] = published[u]
      BY <2>1 DEF PublishedInv
    <2> QED
      BY <2>1, <2>2 DEF PublishedInv
  <1>2. PICK p \in {"test", "found", "missing", "lock", "recheck", "fetch", "failed"} :
          call' = [call EXCEPT ![c].pc = p]
    BY DEF Serve, Read, FastPath, Lock, Recheck, FetchOk, FetchFails, Goto
  <1>3. \A d \in Callers : call'[d].url = call[d].url /\ call'[d].kid = call[d].kid
                           /\ call'[d].pc = IF d = c THEN p ELSE call[d].pc
    BY <1>2, <1>t DEF TypeOK, Call
  <1>4. OwnKeyInv'
    BY <1>3 DEF OwnKeyInv, ByKeySet
  <1>u. call[c].url \in Urls
    BY <1>t DEF TypeOK, Call
  <1>5. \A u \in Urls : entries'[u] # None => entries'[u].keys \subseteq published[u]
    <2>1. CASE FetchOk(c)
      <3>1. PICK ttl \in TTLs : entries' = [entries EXCEPT ![call[c].url] =
                [keys |-> remote[call[c].url], fetchedAt |-> clock, ttl |-> ttl]]
        BY <2>1 DEF FetchOk
      <3> QED
        BY <3>1, <1>t, <1>u DEF PublishedInv, TypeOK
    <2>2. CASE ~FetchOk(c)
      <3>1. entries' = entries
        BY <2>2 DEF Serve, Read, FastPath, Lock, Recheck, FetchFails
      <3> QED
        BY <3>1 DEF PublishedInv
    <2> QED
      BY <2>1, <2>2
  <1>6. ASSUME NEW d \in Callers, call'[d].pc = "test", snap'[d] # None
        PROVE  snap'[d].keys \subseteq published[call[d].url]
    <2>1. CASE Read(c)
      <3>1. snap' = [snap EXCEPT ![c] = entries[call[c].url]]
        BY <2>1 DEF Read
      <3>2. CASE d = c
        BY <1>6, <1>t, <1>u, <3>1, <3>2 DEF PublishedInv, TypeOK
      <3>3. CASE d # c
        BY <1>3, <1>6, <1>t, <3>1, <3>3 DEF PublishedInv, TypeOK
      <3> QED
        BY <3>2, <3>3
    <2>2. CASE ~Read(c)
      <3>1. snap'[d] \in {snap[d], None} /\ (d = c => call'[d].pc # "test")
        BY <2>2, <1>t, <1>3
           DEF Serve, FastPath, Lock, Recheck, FetchOk, FetchFails, Goto, TypeOK, Call
      <3> QED
        BY <1>3, <1>6, <3>1 DEF PublishedInv
    <2> QED
      BY <2>1, <2>2
  <1>7. ASSUME NEW d \in Callers, call'[d].pc = "found"
        PROVE  call[d].kid \in published[call[d].url]
    <2>1. CASE d # c
      BY <1>3, <1>7, <2>1 DEF PublishedInv
    <2>2. CASE d = c /\ FastPath(c)
      <3>1. Has(snap[c], call[c].kid) /\ call[c].pc = "test"
        BY <1>7, <1>t, <2>2 DEF FastPath, Goto, TypeOK, Call
      <3> QED
        BY <2>2, <3>1 DEF PublishedInv, Has
    <2>3. CASE d = c /\ Recheck(c)
      <3>1. Has(entries[call[c].url], call[c].kid)
        BY <1>7, <1>t, <2>3 DEF Recheck, Goto, TypeOK, Call
      <3> QED
        BY <1>u, <2>3, <3>1 DEF PublishedInv, Has
    <2>4. CASE d = c /\ FetchOk(c)
      <3>1. call[c].kid \in remote[call[c].url]
        BY <1>7, <1>t, <2>4 DEF FetchOk, Goto, TypeOK, Call
      <3> QED
        BY <1>u, <2>4, <3>1 DEF PublishedInv
    <2>5. CASE d = c /\ (Read(c) \/ Lock(c) \/ FetchFails(c))
      BY <1>7, <1>t, <2>5 DEF Read, Lock, FetchFails, Goto, TypeOK, Call
    <2> QED
      BY <2>1, <2>2, <2>3, <2>4, <2>5 DEF Serve
  <1>8. PublishedInv'
    BY <1>1, <1>3, <1>5, <1>6, <1>7 DEF PublishedInv
  <1> QED
    BY <1>4, <1>8

\* Time passes, or a provider publishes another key set.
LEMMA OutsidePublished ==
  ASSUME VerifyInv, Tick \/ \E u \in Urls : Rotate(u),
         published' = [u \in Urls |-> published[u] \cup remote'[u]],
         UNCHANGED <<request, result>>
  PROVE  PublishedInv' /\ OwnKeyInv'
  <1> USE DEF VerifyInv
  <1>1. UNCHANGED <<entries, call, snap>>
    BY DEF Tick, Rotate
  <1>2. remote' \in [Urls -> SUBSET Kids]
    BY DEF Tick, Rotate, IInv, TypeOK
  <1>3. /\ published' \in [Urls -> SUBSET Kids]
        /\ \A u \in Urls : published[u] \subseteq published'[u] /\ remote'[u] \subseteq published'[u]
    BY <1>2 DEF PublishedInv
  <1>4. \A c \in Callers : call[c].url \in Urls
    BY DEF IInv, TypeOK, Call
  <1>5. PublishedInv'
    BY <1>1, <1>3, <1>4 DEF PublishedInv
  <1>6. OwnKeyInv'
    BY <1>1 DEF OwnKeyInv, ByKeySet
  <1> QED
    BY <1>5, <1>6

\* A token comes in.
LEMMA VerifyPublished ==
  ASSUME VerifyInv, NEW c \in Callers, Verify(c)
  PROVE  PublishedInv' /\ OwnKeyInv'
  <1> USE DEF VerifyInv
  <1>1. PICK r \in Requests :
          /\ request' = [request EXCEPT ![c] = r]
          /\ IF ByKeySet(r)
               THEN GetKey(c) /\ call'[c].url = UrlFor(r) /\ call'[c].kid = r.token.kid
               ELSE UNCHANGED vars
    BY RequestsAssumption DEF Verify, Set, ByKeySet
  <1>2. result' = [result EXCEPT ![c] = "pending"] /\ published' = published
    BY DEF Verify, Set
  <1>3. /\ UNCHANGED <<remote, entries, snap>>
        /\ \A d \in Callers : call'[d] = call[d] \/ (d = c /\ call'[d].pc = "start")
    BY <1>1 DEF GetKey, vars, IInv, TypeOK
  <1>4. PublishedInv'
    BY <1>2, <1>3 DEF PublishedInv
  <1>5. ASSUME NEW d \in Callers, ByKeySet(request'[d])
        PROVE  call'[d].url = UrlFor(request'[d]) /\ call'[d].kid = request'[d].token.kid
    <2>1. CASE d = c
      <3>1. request'[d] = r
        BY <1>1, <2>1 DEF OwnKeyInv
      <3> QED
        BY <1>1, <1>5, <2>1, <3>1
    <2>2. CASE d # c
      <3>1. request'[d] = request[d] /\ call'[d] = call[d]
        BY <1>1, <1>3, <2>2 DEF OwnKeyInv
      <3> QED
        BY <1>5, <3>1 DEF OwnKeyInv
    <2> QED
      BY <2>1, <2>2
  <1>6. request' \in [Callers -> Requests \cup {None}] /\ result' \in [Callers -> Results]
    BY <1>1, <1>2 DEF OwnKeyInv, Results
  <1>7. OwnKeyInv'
    BY <1>5, <1>6 DEF OwnKeyInv, ByKeySet, UrlFor, JwksURLForIssuer
  <1> QED
    BY <1>4, <1>7

\* An answer is given.
LEMMA ReturnPublished ==
  ASSUME VerifyInv, NEW c \in Callers, NEW res \in Results, Return(c, res)
  PROVE  PublishedInv' /\ OwnKeyInv'
  <1> USE DEF VerifyInv
  <1>1. /\ UNCHANGED <<remote, entries, call, snap, published>>
        /\ result' = [result EXCEPT ![c] = res] /\ request' = [request EXCEPT ![c] = None]
    BY DEF Return, Set, vars
  <1>2. PublishedInv'
    BY <1>1 DEF PublishedInv
  <1>3. \A d \in Callers : request'[d] = None \/ request'[d] = request[d]
    BY <1>1 DEF OwnKeyInv
  <1>4. request' \in [Callers -> Requests \cup {None}] /\ result' \in [Callers -> Results]
    BY <1>1 DEF OwnKeyInv
  <1>5. OwnKeyInv'
    BY <1>1, <1>3, <1>4 DEF OwnKeyInv, ByKeySet, UrlFor, JwksURLForIssuer
  <1> QED
    BY <1>2, <1>5

\* Each answer is one of the results.
LEMMA AnswerReturns ==
  ASSUME NEW c \in Callers, Answer(c)
  PROVE  \E res \in Results : Return(c, res)
  <1>1. "ok" \in Results /\ "refused" \in Results
    BY DEF Results
  <1>2. CASE DecideStatic(c)
    <2>1. Return(c, "ok") \/ Return(c, "refused")
      BY <1>2 DEF DecideStatic, Verdict, Return, Set
    <2> QED
      BY <1>1, <2>1, Zenon
  <1>3. CASE Decide(c)
    <2>1. Return(c, "ok") \/ Return(c, "refused")
      BY <1>3 DEF Decide, Verdict, Return, Set
    <2> QED
      BY <1>1, <2>1, Zenon
  <1>4. CASE NoIssuer(c) \/ NoKey(c)
    BY <1>1, <1>4, Zenon DEF NoIssuer, NoKey
  <1> QED
    BY <1>2, <1>3, <1>4, Zenon DEF Answer

LEMMA VerifyStep == VerifyInv /\ [NextVerify]_allVars => VerifyInv'
  <1> SUFFICES ASSUME VerifyInv, [NextVerify]_allVars PROVE VerifyInv'
    OBVIOUS
  <1>1. IInv'
    BY VerifyStepsCache, NextIInv DEF VerifyInv
  <1>2. CASE Cache
    <2>1. /\ (Tick \/ \E u \in Urls : Rotate(u)) \/ \E c \in Callers : Serve(c)
          /\ published' = [u \in Urls |-> published[u] \cup remote'[u]]
          /\ UNCHANGED <<request, result>>
      BY <1>2, Zenon DEF Cache
    <2> QED
      BY <1>1, <2>1, OutsidePublished, ServePublished DEF VerifyInv
  <1>3. ASSUME NEW c \in Callers, Verify(c) PROVE VerifyInv'
    BY <1>1, <1>3, VerifyPublished DEF VerifyInv
  <1>4. ASSUME NEW c \in Callers, Answer(c) PROVE VerifyInv'
    BY <1>1, <1>4, AnswerReturns, ReturnPublished DEF VerifyInv
  <1>5. CASE UNCHANGED allVars
    <2>1. UNCHANGED <<remote, entries, call, snap, request, result, published>>
      BY <1>5 DEF allVars, vars, verify
    <2> QED
      BY <1>1, <2>1 DEF VerifyInv, PublishedInv, OwnKeyInv, ByKeySet
  <1> QED
    BY <1>2, <1>3, <1>4, <1>5, Zenon DEF NextVerify

\* The types of the cache and of the verifications.
THEOREM VerifyTypeCorrect == SpecVerify => []TypeVerify
  <1>1. VerifyInv => TypeVerify
    BY DEF VerifyInv, IInv, PublishedInv, OwnKeyInv, TypeVerify
  <1> QED
    BY <1>1, VerifyInit, VerifyStep, PTL DEF SpecVerify

\* The condition AcceptedIsGenuine puts on one caller.
Genuine(c) ==
  LET t == request[c].token
      s == request[c].cfg
  IN  /\ t.exp # None /\ clock <= t.exp
      /\ t.nbf # None => t.nbf <= clock + Skew
      /\ s.aud # None => s.aud \in t.aud
      /\ s.claim => t.user # None
      /\ IF s.secret # None THEN t.signer = s.secret.key /\ t.alg = s.secret.kind
         ELSE /\ t.signer = t.kid /\ t.alg # "HMAC"
              /\ s.url # None => t.kid \in published[s.url]
              /\ s.url = None => t.iss # None /\ t.kid \in published[t.iss]

\* Only an answer accepts, and only a genuine token.
LEMMA OkIsGenuine ==
  ASSUME VerifyInv, NEW c \in Callers, Answer(c), result'[c] = "ok"
  PROVE  Genuine(c)
  <1>1. \A res : Return(c, res) => result'[c] = res
    BY DEF Return, Set, VerifyInv, OwnKeyInv
  <1>2. ~Return(c, "refused")
    BY <1>1
  <1>3. ~NoIssuer(c) /\ ~NoKey(c)
    BY <1>2 DEF NoIssuer, NoKey
  <1>4. CASE DecideStatic(c)
    <2>1. /\ request[c].cfg.secret # None
          /\ Return(c, Verdict(request[c],
                 /\ StaticKeyFunc(request[c].cfg.secret, request[c].token)
                 /\ request[c].token.signer = request[c].cfg.secret.key))
      BY <1>4 DEF DecideStatic
    <2>2. /\ StaticKeyFunc(request[c].cfg.secret, request[c].token)
          /\ request[c].token.signer = request[c].cfg.secret.key
          /\ CheckExp(request[c].token) /\ CheckNbf(request[c].token)
          /\ CheckAud(request[c]) /\ CheckUser(request[c])
      BY <1>2, <2>1 DEF Verdict, Return, Set
    <2> QED
      BY <2>1, <2>2
         DEF Genuine, StaticKeyFunc, ClassifyKey, CheckExp, CheckNbf, CheckAud, CheckUser
  <1>5. CASE Decide(c)
    <2>1. /\ request[c] # None /\ request[c].cfg.secret = None /\ UrlFor(request[c]) # None
          /\ call[c].pc = "found"
          /\ Return(c, Verdict(request[c],
                 request[c].token.alg # "HMAC" /\ request[c].token.signer = call[c].kid))
      BY <1>5 DEF Decide, LookedUp, Ready
    <2>2. /\ request[c].token.alg # "HMAC" /\ request[c].token.signer = call[c].kid
          /\ CheckExp(request[c].token) /\ CheckNbf(request[c].token)
          /\ CheckAud(request[c]) /\ CheckUser(request[c])
      BY <1>2, <2>1 DEF Verdict, Return, Set
    <2>3. call[c].url = UrlFor(request[c]) /\ call[c].kid = request[c].token.kid
      BY <2>1 DEF VerifyInv, OwnKeyInv, ByKeySet
    <2>4. call[c].kid \in published[UrlFor(request[c])]
      BY <2>1, <2>3 DEF VerifyInv, PublishedInv
    <2> QED
      BY <2>1, <2>2, <2>3, <2>4
         DEF Genuine, UrlFor, JwksURLForIssuer, CheckExp, CheckNbf, CheckAud, CheckUser
  <1> QED
    BY <1>3, <1>4, <1>5 DEF Answer

\* Verify accepts a token only while it is valid and only on a signature of the
\* secret or of a key that its endpoint has published, however long the call
\* has waited for the cache and whatever the others have fetched meanwhile.
THEOREM VerifyAcceptedIsGenuine == SpecVerify => AcceptedIsGenuine
  <1>1. VerifyInv /\ [NextVerify]_allVars =>
          [\A c \in Callers : (result[c] = "pending" /\ result'[c] = "ok") => Genuine(c)]_allVars
    <2> SUFFICES ASSUME VerifyInv, NextVerify, NEW c \in Callers,
                        result[c] = "pending", result'[c] = "ok"
                 PROVE  Genuine(c)
      BY Zenon
    <2>1. ~Cache
      BY DEF Cache
    <2>2. ASSUME NEW d \in Callers, Verify(d) PROVE FALSE
      <3>1. result' = [result EXCEPT ![d] = "pending"]
        BY <2>2 DEF Verify, Set
      <3> QED
        BY <3>1 DEF VerifyInv, OwnKeyInv
    <2>3. ASSUME NEW d \in Callers, Answer(d) PROVE d = c
      <3>1. PICK res \in Results : result' = [result EXCEPT ![d] = res]
        BY <2>3, AnswerReturns DEF Return, Set
      <3> QED
        BY <3>1 DEF VerifyInv, OwnKeyInv
    <2> QED
      BY <2>1, <2>2, <2>3, OkIsGenuine DEF NextVerify
  <1> QED
    BY <1>1, VerifyInit, VerifyStep, PTL DEF SpecVerify, AcceptedIsGenuine, Genuine
=============================================================================
