--------------------------- MODULE UpstreamPicker ---------------------------
(***************************************************************************)
(* The load balancer of a route (upstreamPicker, server.go).               *)
(*                                                                         *)
(* newUpstreamPicker expands the upstreams into a pool by weight.  pick    *)
(* with mode round-robin takes p.mu, indexes the pool with the counter     *)
(* modulo its length, increments the counter and gives p.mu back.  The     *)
(* counter is an int: 32 bits wide on the 386 and arm builds.  When it has *)
(* wrapped, Go's remainder is negative, indexing panics, and as p.mu is    *)
(* not released by a defer it stays locked; net/http recovers the panic    *)
(* and the process goes on.  The default mode draws a number and walks the *)
(* upstreams; it uses no lock.                                             *)
(***************************************************************************)
EXTENDS Integers, SequencesExt

CONSTANTS
  Requests,      \* requests in flight at a time
  NumUpstreams,  \* bound: how many upstreams
  MaxWeight,     \* bound: weights are 0 .. MaxWeight
  IntMax,        \* the largest int; the counter wraps to -IntMax - 1
  MaxPicks       \* bound: how many picks are made

ASSUME BoundsAssumption ==
  NumUpstreams \in Nat /\ MaxWeight \in Nat /\ IntMax \in Nat /\ MaxPicks \in Nat

VARIABLES
  weights,   \* the configured weights
  mode,      \* "round-robin" or "random"
  counter,   \* p.next
  locked,    \* p.mu
  pc,        \* where each request is
  picks      \* history: the upstreams chosen, in order

vars == <<weights, mode, counter, locked, pc, picks>>

Upstreams == 1 .. Len(weights)

\* A weight below 1 counts as 1.
Weight(u) == IF weights[u] < 1 THEN 1 ELSE weights[u]

\* newUpstreamPicker: weight slots for every upstream, in order.
Pool == FlattenSeq([u \in Upstreams |-> [i \in 1 .. Weight(u) |-> u]])

\* The weights of the upstreams up to u together; p.totalWeight.
Cumulative(u) ==
  LET sum[v \in 0 .. Len(weights)] == IF v = 0 THEN 0 ELSE sum[v - 1] + Weight(v)
  IN  sum[u]

TotalWeight == Cumulative(Len(weights))

Init ==
  /\ weights \in UNION {[1 .. n -> 0 .. MaxWeight] : n \in 1 .. NumUpstreams}
  /\ mode \in {"round-robin", "random"}
  /\ counter = 0 /\ locked = FALSE /\ picks = <<>>
  /\ pc = [r \in Requests |-> "idle"]

-----------------------------------------------------------------------------

\* A request reaches the Director of the route.
Arrive(r) ==
  /\ pc[r] = "idle" /\ Len(picks) < MaxPicks
  /\ pc' = [pc EXCEPT ![r] = "pick"]
  /\ UNCHANGED <<weights, mode, counter, locked, picks>>

Chosen(r, u) ==
  /\ picks' = Append(picks, u)
  /\ pc' = [pc EXCEPT ![r] = "idle"]

\* A single upstream is returned without the lock.
PickOnly(r) ==
  /\ pc[r] = "pick" /\ Len(weights) = 1
  /\ Chosen(r, 1)
  /\ UNCHANGED <<weights, mode, counter, locked>>

Lock(r) ==
  /\ pc[r] = "pick" /\ Len(weights) > 1 /\ mode = "round-robin" /\ ~locked
  /\ locked' = TRUE
  /\ pc' = [pc EXCEPT ![r] = "locked"]
  /\ UNCHANGED <<weights, mode, counter, picks>>

\* Go's integer increment.
Wrap(n) == IF n = IntMax THEN -IntMax - 1 ELSE n + 1

\* Seeded fault of PickRoundRobin: the counter skips a slot.
PickRoundRobinSkips(r) ==
  /\ pc[r] = "locked" /\ counter >= 0
  /\ Chosen(r, Pool[(counter % Len(Pool)) + 1])
  /\ counter' = Wrap(Wrap(counter))
  /\ locked' = FALSE
  /\ UNCHANGED <<weights, mode>>

\* Seeded fault of PickRoundRobin: the lock is not given back.
PickRoundRobinKeepsLock(r) ==
  /\ pc[r] = "locked" /\ counter >= 0
  /\ Chosen(r, Pool[(counter % Len(Pool)) + 1])
  /\ counter' = Wrap(counter)
  /\ UNCHANGED <<weights, mode, locked>>

PickRoundRobin(r) ==
  /\ pc[r] = "locked" /\ counter >= 0
  /\ Chosen(r, Pool[(counter % Len(Pool)) + 1])
  /\ counter' = Wrap(counter)
  /\ locked' = FALSE
  /\ UNCHANGED <<weights, mode>>

\* A negative remainder indexes the pool: the goroutine panics.  A remainder
\* of 0 still works.
PickWrapped(r) ==
  /\ pc[r] = "locked" /\ counter < 0
  /\ IF (-counter) % Len(Pool) = 0
       THEN Chosen(r, Pool[1]) /\ counter' = Wrap(counter) /\ locked' = FALSE
       ELSE /\ pc' = [pc EXCEPT ![r] = "panic"]
            /\ UNCHANGED <<counter, locked, picks>>
  /\ UNCHANGED <<weights, mode>>

\* Seeded fault of Walk: the comparison is off by one.
WalkOffByOne(n) ==
  CHOOSE u \in Upstreams :
    n <= Cumulative(u) /\ \A v \in Upstreams : v < u => n > Cumulative(v)

\* The walk of the random mode for the number n drawn from 0 .. total - 1:
\* the first upstream whose cumulative weight exceeds it.
Walk(n) ==
  CHOOSE u \in Upstreams :
    n < Cumulative(u) /\ \A v \in Upstreams : v < u => n >= Cumulative(v)

PickRandom(r) ==
  /\ pc[r] = "pick" /\ Len(weights) > 1 /\ mode = "random"
  /\ \E n \in 0 .. TotalWeight - 1 : Chosen(r, Walk(n))
  /\ UNCHANGED <<weights, mode, counter, locked>>

Pick(r) ==
  PickOnly(r) \/ Lock(r) \/ PickRoundRobin(r) \/ PickWrapped(r) \/ PickRandom(r)

Next == \E r \in Requests : Arrive(r) \/ Pick(r)

Spec == Init /\ [][Next]_vars

\* Requests are scheduled and sync.Mutex starves nobody.
FairSpec == Spec /\ \A r \in Requests : SF_vars(Pick(r))

-----------------------------------------------------------------------------
(* Properties. *)

\* newUpstreamPicker and pick, round-robin mode: every run of as many picks as the pool has slots gives
\* each upstream exactly its weight, wherever the run starts and however the
\* requests interleave.
RoundRobinShares ==
  mode = "round-robin" =>
    \A i \in 1 .. Len(picks) - TotalWeight + 1, u \in Upstreams :
      Cardinality({k \in i .. i + TotalWeight - 1 : picks[k] = u}) = Weight(u)

\* In random mode the numbers that lead to an upstream are as many as its
\* weight: the draw is weighted as configured.
RandomShares ==
  \A u \in Upstreams :
    Cardinality({n \in 0 .. TotalWeight - 1 : Walk(n) = u}) = Weight(u)

\* Either way the upstreams are chosen in proportion to their weights.
PicksAreWeighted == RoundRobinShares /\ RandomShares

\* A request that wants an upstream gets one, unless a pick has panicked.
PicksReturnUnlessPanic ==
  \A r \in Requests :
    pc[r] = "pick" ~> (pc[r] = "idle" \/ \E q \in Requests : pc[q] = "panic")
=============================================================================
