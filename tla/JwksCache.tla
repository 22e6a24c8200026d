------------------------------ MODULE JwksCache ------------------------------
(***************************************************************************)
(* The cache of JSON Web Key Sets (jwtverify/jwkscache.go).                *)
(*                                                                         *)
(* Each caller runs getKey for a (url, kid): it takes the entry under the  *)
(* read lock and tests it after giving the lock back; then, under the      *)
(* write lock, the same test again and the fetch, which holds the write    *)
(* lock until the endpoint has answered.  Time is a counter; an endpoint   *)
(* has a set of kids that changes, and may fail.                           *)
(***************************************************************************)
EXTENDS Integers

CONSTANTS
  Callers,   \* goroutines that verify a token
  Urls,      \* the JWKS endpoints
  Kids,      \* key ids
  TTLs,      \* the max-age values of the answers
  None,
  MaxClock   \* bound: how far time runs

ASSUME JwksAssumption ==
  /\ TTLs \subseteq Nat /\ MaxClock \in Nat
  /\ None \notin Callers

VARIABLES
  clock,
  remote,    \* url -> the kids its endpoint publishes
  entries,   \* url -> the cached entry, None before the first fetch
  writer,    \* the caller that holds mu for writing
  call,      \* caller -> where it is, and what for
  snap       \* caller -> the entry it took under the read lock

vars == <<clock, remote, entries, writer, call, snap>>

Entry == [keys: SUBSET Kids, fetchedAt: Nat, ttl: TTLs]
Call == [pc: {"idle", "start", "test", "lock", "recheck", "fetch",
              "found", "missing", "failed"},
         url: Urls, kid: Kids]

ASSUME NilAssumption == None \notin Entry

TypeOK ==
  /\ clock \in Nat
  /\ remote \in [Urls -> SUBSET Kids]
  /\ entries \in [Urls -> Entry \cup {None}]
  /\ writer \in Callers \cup {None}
  /\ call \in [Callers -> Call]
  /\ snap \in [Callers -> Entry \cup {None}]

Init ==
  /\ clock = 0
  /\ remote \in [Urls -> SUBSET Kids]
  /\ entries = [u \in Urls |-> None]
  /\ writer = None
  /\ call \in [Callers -> [pc: {"idle"}, url: Urls, kid: Kids]]
  /\ snap = [c \in Callers |-> None]

\* The tests of getKey on an entry.
Has(e, k) == e # None /\ k \in e.keys
Fresh(e)  == e # None /\ clock - e.fetchedAt < e.ttl

Goto(c, pc) == call' = [call EXCEPT ![c].pc = pc]

-----------------------------------------------------------------------------

\* A second passes.
Tick ==
  /\ clock < MaxClock
  /\ clock' = clock + 1
  /\ UNCHANGED <<remote, entries, writer, call, snap>>

\* The provider publishes another key set.
Rotate(u) ==
  /\ \E K \in SUBSET Kids : K # remote[u] /\ remote' = [remote EXCEPT ![u] = K]
  /\ UNCHANGED <<clock, entries, writer, call, snap>>

\* A request with a token comes in: resolveKeyFunc calls getKey.
GetKey(c) ==
  /\ call[c].pc \in {"idle", "found", "missing", "failed"}
  /\ \E u \in Urls, k \in Kids :
       call' = [call EXCEPT ![c] = [pc |-> "start", url |-> u, kid |-> k]]
  /\ UNCHANGED <<clock, remote, entries, writer, snap>>

\* The entry is taken.  The read lock is not given out while a writer has mu.
Read(c) ==
  /\ call[c].pc = "start" /\ writer = None
  /\ snap' = [snap EXCEPT ![c] = entries[call[c].url]]
  /\ Goto(c, "test")
  /\ UNCHANGED <<clock, remote, entries, writer>>

\* The fast path, on the entry taken before.
FastPath(c) ==
  /\ call[c].pc = "test"
  /\ \/ Has(snap[c], call[c].kid) /\ Goto(c, "found")
     \/ ~Has(snap[c], call[c].kid) /\ Fresh(snap[c]) /\ Goto(c, "missing")
     \/ ~Has(snap[c], call[c].kid) /\ ~Fresh(snap[c]) /\ Goto(c, "lock")
  /\ snap' = [snap EXCEPT ![c] = None]
  /\ UNCHANGED <<clock, remote, entries, writer>>

\* Seeded fault of Lock: the read lock is enough for the slow path.
LockShared(c) ==
  /\ call[c].pc = "lock"
  /\ writer' = c
  /\ Goto(c, "recheck")
  /\ UNCHANGED <<clock, remote, entries, snap>>

\* The slow path waits for the write lock.
Lock(c) ==
  /\ call[c].pc = "lock" /\ writer = None
  /\ writer' = c
  /\ Goto(c, "recheck")
  /\ UNCHANGED <<clock, remote, entries, snap>>

\* Seeded fault of Recheck: only the kid is looked for again.
RecheckKidOnly(c) ==
  /\ call[c].pc = "recheck"
  /\ \/ /\ Has(entries[call[c].url], call[c].kid)
        /\ Goto(c, "found") /\ writer' = None
     \/ /\ ~Has(entries[call[c].url], call[c].kid)
        /\ Goto(c, "fetch") /\ UNCHANGED writer
  /\ UNCHANGED <<clock, remote, entries, snap>>

\* The test again, since another caller may have fetched meanwhile.
Recheck(c) ==
  /\ call[c].pc = "recheck"
  /\ LET e == entries[call[c].url]
     IN  \/ Has(e, call[c].kid) /\ Goto(c, "found") /\ writer' = None
         \/ /\ ~Has(e, call[c].kid) /\ Fresh(e)
            /\ Goto(c, "missing") /\ writer' = None
         \/ /\ ~Has(e, call[c].kid) /\ ~Fresh(e)
            /\ Goto(c, "fetch") /\ UNCHANGED writer
  /\ UNCHANGED <<clock, remote, entries, snap>>

\* Seeded fault of FetchOk: an entry without the max-age of its answer.
FetchOkWithoutTTL(c) ==
  /\ call[c].pc = "fetch"
  /\ LET u == call[c].url
     IN  /\ entries' = [entries EXCEPT ![u] =
                          [keys |-> remote[u], fetchedAt |-> clock, ttl |-> None]]
         /\ Goto(c, IF call[c].kid \in remote[u] THEN "found" ELSE "missing")
  /\ writer' = None
  /\ UNCHANGED <<clock, remote, snap>>

\* The endpoint answers: the entry is replaced and getKey returns.
FetchOk(c) ==
  /\ call[c].pc = "fetch"
  /\ LET u == call[c].url
     IN  /\ \E ttl \in TTLs :
              entries' = [entries EXCEPT ![u] =
                            [keys |-> remote[u], fetchedAt |-> clock, ttl |-> ttl]]
         /\ Goto(c, IF call[c].kid \in remote[u] THEN "found" ELSE "missing")
  /\ writer' = None
  /\ UNCHANGED <<clock, remote, snap>>

\* Seeded fault of FetchFails: the error path keeps the write lock.
FetchFailsKeepsLock(c) ==
  /\ call[c].pc = "fetch"
  /\ Goto(c, "failed")
  /\ UNCHANGED <<clock, remote, entries, writer, snap>>

\* The fetch fails or its 10s timeout passes: nothing is cached.
FetchFails(c) ==
  /\ call[c].pc = "fetch"
  /\ Goto(c, "failed")
  /\ writer' = None
  /\ UNCHANGED <<clock, remote, entries, snap>>

Serve(c) ==
  \/ Read(c) \/ FastPath(c) \/ Lock(c) \/ Recheck(c)
  \/ FetchOk(c) \/ FetchFails(c)

Next ==
  \/ Tick
  \/ \E u \in Urls : Rotate(u)
  \/ \E c \in Callers : GetKey(c) \/ Serve(c)

Spec == Init /\ [][Next]_vars

\* Goroutines run, a fetch ends within 10s, and sync.RWMutex starves neither
\* readers nor writers.
Fairness == \A c \in Callers : SF_vars(Serve(c))

FairSpec == Spec /\ Fairness

-----------------------------------------------------------------------------
(* Properties. *)

\* The network is only used for a kid the cache does not have, when nothing
\* fresh is cached for the url, by one caller at a time; several callers that
\* missed together fetch once.
FetchOnlyWhenStale ==
  \A c \in Callers :
    call[c].pc = "fetch" =>
      /\ writer = c
      /\ ~Has(entries[call[c].url], call[c].kid)
      /\ ~Fresh(entries[call[c].url])

\* A caller is told that a kid does not exist only when the entry cached at
\* that moment does not have it, although the fast path tests an entry it
\* took before: no answer contradicts a fetch that completed in between.
MissingIsCurrent ==
  [][\A c \in Callers :
       call[c].pc # "missing" /\ call'[c].pc = "missing" =>
         /\ entries'[call[c].url] # None
         /\ call[c].kid \notin entries'[call[c].url].keys]_vars

\* Every call of getKey returns.
CallsReturn ==
  \A c \in Callers :
    call[c].pc = "start" ~> call[c].pc \in {"found", "missing", "failed"}
=============================================================================
