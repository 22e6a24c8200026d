------------------------ MODULE UpstreamPickerProofs ------------------------
(***************************************************************************)
(* Theorems about UpstreamPicker, for any number of upstreams and requests *)
(* and any weights: upstreams are picked in proportion to their weights,   *)
(* and a pick panics only after the counter has wrapped.                   *)
(***************************************************************************)
EXTENDS UpstreamPicker, FiniteSetTheorems, SequenceTheorems, WellFoundedInduction, TLAPS

\* The configured weights.
WeightsInv == Len(weights) \in Nat \ {0} /\ weights \in [1 .. Len(weights) -> Nat]

-----------------------------------------------------------------------------
(* Induction, as the least counterexample. *)

\* A nonempty set of natural numbers has a least one.
LEMMA SmallestExists ==
  ASSUME NEW S \in SUBSET Nat, S # {}
  PROVE  \E i \in S : \A j \in S : i <= j
<1> DEFINE R == {ss \in Nat \X Nat : ss[1] < ss[2]}
<1>1. IsWellFoundedOn(R, Nat)
  BY NatLessThanWellFounded DEF OpToRel
<1>2. \E i \in S : \A j \in S : ~(<<j, i>> \in R)
  <2> HIDE DEF R
  <2> QED
    BY <1>1, WFMin, Zenon
<1>3. PICK i \in S : \A j \in S : ~(<<j, i>> \in R)
  BY <1>2, Zenon
<1>4. ASSUME NEW j \in S PROVE i <= j
  <2>1. i \in Nat /\ j \in Nat
    OBVIOUS
  <2>2. j < i => <<j, i>> \in R
    BY <2>1
  <2> QED
    BY <1>3, <2>1, <2>2
<1> QED
  BY <1>4

\* A set that has m and, with each number from m to n - 1, the next one.
LEMMA UpTo ==
  ASSUME NEW m \in Nat, NEW n \in Nat, NEW S,
         m <= n => m \in S,
         \A i \in m .. n - 1 : i \in S => i + 1 \in S
  PROVE  m .. n \subseteq S
<1> DEFINE Bad == {i \in m .. n : i \notin S}
<1> SUFFICES ASSUME Bad # {} PROVE FALSE
  OBVIOUS
<1>0. Bad \in SUBSET Nat
  OBVIOUS
<1>1. PICK i \in Bad : \A j \in Bad : i <= j
  <2> HIDE DEF Bad
  <2> QED
    BY <1>0, SmallestExists
<1>2. i \in m .. n /\ i \notin S /\ i # m
  OBVIOUS
<1>3. i - 1 \in m .. n - 1 /\ i - 1 \notin Bad
  BY <1>1, <1>2
<1> QED
  BY <1>2, <1>3

-----------------------------------------------------------------------------
(* The weights and the pool. *)

LEMMA WeightType ==
  ASSUME WeightsInv
  PROVE  \A u \in Upstreams : Weight(u) \in Nat \ {0}
BY DEF WeightsInv, Weight, Upstreams

\* What the loop over the upstreams has summed up by the time it is at u.
IsSum(g, n) == g = [v \in 0 .. n |-> IF v = 0 THEN 0 ELSE g[v - 1] + Weight(v)]

LEMMA SumExists ==
  ASSUME WeightsInv
  PROVE  \E g : IsSum(g, Len(weights))
<1> DEFINE S == {n \in 0 .. Len(weights) : \E g : IsSum(g, n)}
<1>1. 0 \in S
  <2>1. IsSum([v \in 0 .. 0 |-> 0], 0)
    BY DEF IsSum
  <2> QED
    BY <2>1 DEF WeightsInv
<1>2. ASSUME NEW i \in 0 .. Len(weights) - 1, i \in S PROVE i + 1 \in S
  <2>1. PICK g : IsSum(g, i)
    BY <1>2
  <2> DEFINE h == [v \in 0 .. i + 1 |-> IF v = i + 1 THEN g[i] + Weight(v) ELSE g[v]]
  <2>2. ASSUME NEW v \in 0 .. i + 1
        PROVE  h[v] = IF v = 0 THEN 0 ELSE h[v - 1] + Weight(v)
    <3>1. CASE v = i + 1
      BY <3>1, <1>2 DEF WeightsInv
    <3>2. CASE v # i + 1
      <4>1. v \in 0 .. i /\ h[v] = g[v] /\ (v # 0 => v - 1 \in 0 .. i + 1 /\ h[v - 1] = g[v - 1])
        BY <3>2, <1>2 DEF WeightsInv
      <4>2. g[v] = IF v = 0 THEN 0 ELSE g[v - 1] + Weight(v)
        BY <2>1, <4>1 DEF IsSum
      <4> QED
        BY <4>1, <4>2
    <3> QED
      BY <3>1, <3>2
  <2>3. h = [v \in 0 .. i + 1 |-> h[v]]
    OBVIOUS
  <2> HIDE DEF h
  <2>4. IsSum(h, i + 1)
    BY <2>2, <2>3 DEF IsSum
  <2>5. i + 1 \in 0 .. Len(weights)
    BY <1>2 DEF WeightsInv
  <2> QED
    BY <2>4, <2>5
<1>3. 0 .. Len(weights) \subseteq S
  <2> HIDE DEF S
  <2> QED
    BY <1>1, <1>2, UpTo DEF WeightsInv
<1>4. Len(weights) \in 0 .. Len(weights)
  BY DEF WeightsInv
<1> QED
  BY <1>3, <1>4

\* p.totalWeight, upstream by upstream.
LEMMA CumulativeDef ==
  ASSUME WeightsInv
  PROVE  /\ Cumulative(0) = 0
         /\ \A u \in Upstreams : Cumulative(u) = Cumulative(u - 1) + Weight(u)
<1> DEFINE f == CHOOSE g : IsSum(g, Len(weights))
<1>1. IsSum(f, Len(weights))
  BY SumExists, Zenon
<1>2. \A u : Cumulative(u) = f[u]
  BY Zenon DEF Cumulative, IsSum
<1> HIDE DEF f
<1>3. \A v \in 0 .. Len(weights) : f[v] = IF v = 0 THEN 0 ELSE f[v - 1] + Weight(v)
  BY <1>1 DEF IsSum
<1> QED
  BY <1>2, <1>3 DEF WeightsInv, Upstreams

LEMMA CumulativeType ==
  ASSUME WeightsInv
  PROVE  \A u \in 0 .. Len(weights) : Cumulative(u) \in Nat
<1> DEFINE S == {u \in 0 .. Len(weights) : Cumulative(u) \in Nat}
<1>1. 0 \in S
  BY CumulativeDef DEF WeightsInv
<1>2. ASSUME NEW i \in 0 .. Len(weights) - 1, i \in S PROVE i + 1 \in S
  <2>1. i + 1 \in Upstreams
    BY DEF WeightsInv, Upstreams
  <2>2. Cumulative(i + 1) = Cumulative(i) + Weight(i + 1)
    BY <2>1, CumulativeDef, WeightsInv
  <2> QED
    BY <2>1, <2>2, <1>2, WeightType DEF Upstreams
<1> HIDE DEF S
<1>3. 0 .. Len(weights) \subseteq S
  BY <1>1, <1>2, UpTo DEF WeightsInv
<1> QED
  BY <1>3 DEF S

LEMMA CumulativeGrows ==
  ASSUME WeightsInv, NEW u \in Upstreams
  PROVE  \A v \in 0 .. u - 1 : Cumulative(v) < Cumulative(u)
<1> DEFINE S == {n \in 0 .. Len(weights) : \A v \in 0 .. n - 1 : Cumulative(v) < Cumulative(n)}
<1>1. 0 \in S
  BY DEF WeightsInv
<1>2. ASSUME NEW i \in 0 .. Len(weights) - 1, i \in S PROVE i + 1 \in S
  <2>1. i + 1 \in Upstreams /\ i + 1 \in 0 .. Len(weights) /\ i \in 0 .. Len(weights)
    BY DEF WeightsInv, Upstreams
  <2>2. Cumulative(i + 1) = Cumulative(i) + Weight(i + 1)
    BY <2>1, CumulativeDef, WeightsInv
  <2>3. Cumulative(i) < Cumulative(i + 1)
    BY <2>1, <2>2, WeightType, CumulativeType
  <2>4. ASSUME NEW v \in 0 .. i PROVE Cumulative(v) < Cumulative(i + 1)
    <3>1. CASE v = i
      BY <2>3, <3>1
    <3>2. CASE v # i
      <4>1. v \in 0 .. i - 1 /\ v \in 0 .. Len(weights)
        BY <3>2 DEF WeightsInv
      <4> QED
        BY <1>2, <2>1, <2>3, <4>1, CumulativeType
    <3> QED
      BY <3>1, <3>2
  <2> QED
    BY <2>1, <2>4 DEF WeightsInv
<1> HIDE DEF S
<1>3. 0 .. Len(weights) \subseteq S
  BY <1>1, <1>2, UpTo DEF WeightsInv
<1>4. u \in S
  BY <1>3 DEF Upstreams, WeightsInv
<1> QED
  BY <1>4 DEF S

\* The concatenation of the first n sequences of s, as FlattenSeq builds it.
IsFlat(s, g, n) == g = [i \in 1 .. n |-> IF i = 1 THEN s[i] ELSE g[i - 1] \o s[i]]

LEMMA FlatExists ==
  ASSUME NEW s, Len(s) \in Nat \ {0}
  PROVE  \E g : IsFlat(s, g, Len(s))
<1> DEFINE S == {n \in 1 .. Len(s) : \E g : IsFlat(s, g, n)}
<1>1. 1 \in S
  <2>1. IsFlat(s, [i \in 1 .. 1 |-> s[i]], 1)
    BY DEF IsFlat
  <2> QED
    BY <2>1
<1>2. ASSUME NEW i \in 1 .. Len(s) - 1, i \in S PROVE i + 1 \in S
  <2>1. PICK g : IsFlat(s, g, i)
    BY <1>2
  <2> DEFINE h == [v \in 1 .. i + 1 |-> IF v = i + 1 THEN g[i] \o s[v] ELSE g[v]]
  <2>2. ASSUME NEW v \in 1 .. i + 1
        PROVE  h[v] = IF v = 1 THEN s[v] ELSE h[v - 1] \o s[v]
    <3>1. CASE v = i + 1
      <4>1. v # 1 /\ v - 1 = i /\ i \in 1 .. i + 1 /\ i # i + 1
        BY <3>1, <1>2
      <4>2. h[v] = g[i] \o s[v] /\ h[i] = g[i]
        BY <4>1, <3>1
      <4> QED
        BY <4>1, <4>2
    <3>2. CASE v # i + 1
      <4>1. v \in 1 .. i /\ h[v] = g[v] /\ (v # 1 => v - 1 \in 1 .. i + 1 /\ h[v - 1] = g[v - 1])
        BY <3>2, <1>2
      <4>2. g[v] = IF v = 1 THEN s[v] ELSE g[v - 1] \o s[v]
        BY <2>1, <4>1 DEF IsFlat
      <4> QED
        BY <4>1, <4>2
    <3> QED
      BY <3>1, <3>2
  <2>3. h = [v \in 1 .. i + 1 |-> h[v]]
    OBVIOUS
  <2> HIDE DEF h
  <2>4. IsFlat(s, h, i + 1)
    BY <2>2, <2>3, Zenon DEF IsFlat
  <2>5. i + 1 \in 1 .. Len(s)
    BY <1>2
  <2> QED
    BY <2>4, <2>5
<1>3. 1 .. Len(s) \subseteq S
  <2> HIDE DEF S
  <2> QED
    BY <1>1, <1>2, UpTo
<1>4. Len(s) \in 1 .. Len(s)
  OBVIOUS
<1> QED
  BY <1>3, <1>4

LEMMA FlattenDef ==
  ASSUME NEW s, Len(s) \in Nat \ {0}
  PROVE  \E g : FlattenSeq(s) = g[Len(s)] /\ IsFlat(s, g, Len(s))
<1> DEFINE f == CHOOSE g : IsFlat(s, g, Len(s))
<1>1. IsFlat(s, f, Len(s))
  BY FlatExists, Zenon
<1>2. Len(s) # 0
  OBVIOUS
<1>3. FlattenSeq(s) = f[Len(s)]
  BY <1>2, Zenon DEF FlattenSeq, IsFlat
<1> QED
  BY <1>1, <1>3

\* newUpstreamPicker: the slots of an upstream are those between the sums of
\* the weights before it and up to it.
Owns(u, k) == Cumulative(u - 1) < k /\ k <= Cumulative(u)

\* The pool when the loop has come to u.
PoolUpTo(s, u) ==
  /\ s \in Seq(Upstreams) /\ Len(s) = Cumulative(u)
  /\ \A k \in 1 .. Cumulative(u) : s[k] <= u /\ Owns(s[k], k)

LEMMA PoolDef ==
  ASSUME WeightsInv
  PROVE  PoolUpTo(Pool, Len(weights))
<1> DEFINE slots == [u \in Upstreams |-> [i \in 1 .. Weight(u) |-> u]]
<1>1. /\ \A u \in Upstreams : slots[u] \in Seq(Upstreams) /\ Len(slots[u]) = Weight(u)
      /\ \A u \in Upstreams : \A k \in 1 .. Weight(u) : slots[u][k] = u
  <2> SUFFICES ASSUME NEW u \in Upstreams
               PROVE  /\ slots[u] \in Seq(Upstreams) /\ Len(slots[u]) = Weight(u)
                      /\ \A k \in 1 .. Weight(u) : slots[u][k] = u
    OBVIOUS
  <2>1. Weight(u) \in Nat /\ slots[u] = [i \in 1 .. Weight(u) |-> u]
    BY WeightType
  <2> QED
    BY <2>1
<1>2. Len(slots) = Len(weights)
  BY DEF WeightsInv, Upstreams
<1> HIDE DEF slots
<1>3. PICK g : FlattenSeq(slots) = g[Len(slots)] /\ IsFlat(slots, g, Len(slots))
  BY <1>2, FlattenDef DEF WeightsInv
<1>4. /\ Pool = g[Len(weights)]
      /\ \A u \in Upstreams : g[u] = IF u = 1 THEN slots[u] ELSE g[u - 1] \o slots[u]
  BY <1>2, <1>3, Zenon DEF Pool, IsFlat, Upstreams, slots
<1> DEFINE S == {u \in Upstreams : PoolUpTo(g[u], u)}
<1>5. 1 \in S
  <2>1. 1 \in Upstreams /\ g[1] = slots[1]
    BY <1>4 DEF WeightsInv, Upstreams
  <2>2. Cumulative(0) = 0 /\ Cumulative(1) = Weight(1) /\ Weight(1) \in Nat
    <3>1. Cumulative(1) = Cumulative(1 - 1) + Weight(1)
      BY <2>1, CumulativeDef
    <3> QED
      BY <2>1, <3>1, CumulativeDef, WeightType
  <2> QED
    BY <1>1, <2>1, <2>2 DEF PoolUpTo, Owns
<1>6. ASSUME NEW u \in 1 .. Len(weights) - 1, u \in S PROVE u + 1 \in S
  <2> DEFINE n == u + 1
  <2>1. /\ n \in Upstreams /\ u \in Upstreams /\ n # 1 /\ n - 1 = u
        /\ u \in 0 .. Len(weights)
    BY DEF WeightsInv, Upstreams
  <2>2. /\ Cumulative(n) = Cumulative(u) + Weight(n)
        /\ Cumulative(u) \in Nat /\ Weight(n) \in Nat
    BY <2>1, CumulativeDef, CumulativeType, WeightType
  <2>3. g[n] = g[u] \o slots[n]
    BY <1>4, <2>1
  <2>4. g[u] \in Seq(Upstreams) /\ Len(g[u]) = Cumulative(u)
    BY <1>6 DEF PoolUpTo
  <2>5. slots[n] \in Seq(Upstreams) /\ Len(slots[n]) = Weight(n)
    BY <1>1, <2>1
  <2>6. /\ g[n] \in Seq(Upstreams) /\ Len(g[n]) = Cumulative(n)
        /\ \A k \in 1 .. Cumulative(u) : g[n][k] = g[u][k]
        /\ \A k \in Cumulative(u) + 1 .. Cumulative(n) : g[n][k] = slots[n][k - Cumulative(u)]
    <3> DEFINE a == g[u]
               b == slots[n]
    <3>1. a \in Seq(Upstreams) /\ b \in Seq(Upstreams)
      BY <2>4, <2>5
    <3> HIDE DEF a, b, n
    <3>2. /\ a \o b \in Seq(Upstreams) /\ Len(a \o b) = Len(a) + Len(b)
          /\ \A k \in 1 .. Len(a) + Len(b) : (a \o b)[k] = IF k <= Len(a) THEN a[k] ELSE b[k - Len(a)]
      BY <3>1, ConcatProperties
    <3>3. g[n] = a \o b /\ Len(a) = Cumulative(u) /\ Len(b) = Weight(n)
      BY <2>3, <2>4, <2>5 DEF a, b
    <3>4. \A k \in 1 .. Cumulative(u) : g[n][k] = a[k]
      BY <2>2, <3>2, <3>3
    <3>5. \A k \in Cumulative(u) + 1 .. Cumulative(n) : g[n][k] = b[k - Cumulative(u)]
      BY <2>2, <3>2, <3>3
    <3> QED
      BY <2>2, <3>2, <3>3, <3>4, <3>5 DEF a, b
  <2>7. ASSUME NEW k \in 1 .. Cumulative(n) PROVE g[n][k] <= n /\ Owns(g[n][k], k)
    <3>1. CASE k <= Cumulative(u)
      <4>1. g[n][k] = g[u][k] /\ g[u][k] <= u /\ Owns(g[u][k], k) /\ g[u][k] \in Upstreams
        BY <3>1, <2>2, <2>4, <2>6, <1>6 DEF PoolUpTo
      <4> QED
        BY <4>1, <2>1 DEF Upstreams
    <3>2. CASE k > Cumulative(u)
      <4>1. k - Cumulative(u) \in 1 .. Weight(n) /\ k \in Cumulative(u) + 1 .. Cumulative(n)
        BY <3>2, <2>2
      <4>2. g[n][k] = n
        BY <4>1, <2>6, <1>1, <2>1
      <4> QED
        BY <4>2, <3>2, <2>1, <2>2 DEF Owns
    <3> QED
      BY <3>1, <3>2, <2>2
  <2> QED
    BY <2>1, <2>6, <2>7 DEF PoolUpTo
<1>7. 1 .. Len(weights) \subseteq S
  <2> HIDE DEF S
  <2> QED
    BY <1>5, <1>6, UpTo DEF WeightsInv
<1> QED
  BY <1>4, <1>7 DEF WeightsInv, Upstreams

-----------------------------------------------------------------------------
(* The random mode. *)

\* The slots of an upstream are as many as its weight.
LEMMA OwnsCount ==
  ASSUME WeightsInv, NEW u \in Upstreams
  PROVE  /\ \A k \in Int : Owns(u, k) => k \in 1 .. TotalWeight
         /\ IsFiniteSet({k \in 1 .. TotalWeight : Owns(u, k)})
         /\ Cardinality({k \in 1 .. TotalWeight : Owns(u, k)}) = Weight(u)
<1> DEFINE a == Cumulative(u - 1)
           b == Cumulative(u)
<1>1. a \in Nat /\ b \in Nat /\ TotalWeight \in Nat /\ b <= TotalWeight /\ b = a + Weight(u)
  <2>1. u - 1 \in 0 .. Len(weights) /\ u \in 0 .. Len(weights) /\ Len(weights) \in Upstreams
        /\ Len(weights) \in 0 .. Len(weights)
    BY DEF WeightsInv, Upstreams
  <2>2. u # Len(weights) => u \in 0 .. Len(weights) - 1
    BY <2>1 DEF Upstreams
  <2>3. u # Len(weights) => b < TotalWeight
    BY <2>1, <2>2, CumulativeGrows DEF TotalWeight
  <2>4. a \in Nat /\ b \in Nat /\ TotalWeight \in Nat
    BY <2>1, CumulativeType DEF TotalWeight
  <2>5. b = a + Weight(u)
    BY CumulativeDef
  <2>6. u = Len(weights) => b = TotalWeight
    BY DEF TotalWeight
  <2> QED
    BY <2>3, <2>4, <2>5, <2>6
<1>2. {k \in 1 .. TotalWeight : Owns(u, k)} = a + 1 .. b
  BY <1>1 DEF Owns
<1>3. Weight(u) \in Nat
  BY WeightType
<1>4. IsFiniteSet(a + 1 .. b) /\ Cardinality(a + 1 .. b) = Weight(u)
  <2> HIDE DEF a, b
  <2>1. a + 1 \in Int /\ b \in Int /\ (a + 1 > b => b = a)
    BY <1>1, <1>3
  <2>2. IsFiniteSet(a + 1 .. b) /\ Cardinality(a + 1 .. b) = IF a + 1 > b THEN 0 ELSE b - (a + 1) + 1
    BY <2>1, FS_Interval
  <2> QED
    BY <1>1, <1>3, <2>1, <2>2
<1>5. \A k \in Int : Owns(u, k) => k \in 1 .. TotalWeight
  BY <1>1 DEF Owns
<1> HIDE DEF a, b
<1> QED
  BY <1>2, <1>4, <1>5, Zenon

\* Every slot has one owner.
LEMMA OneOwner ==
  ASSUME WeightsInv, NEW u \in Upstreams, NEW v \in Upstreams, NEW k \in Nat,
         Owns(u, k), Owns(v, k)
  PROVE  u = v
<1>1. \A x, y \in Upstreams : x < y => Cumulative(x) <= Cumulative(y - 1)
  <2> SUFFICES ASSUME NEW x \in Upstreams, NEW y \in Upstreams, x < y
               PROVE  Cumulative(x) <= Cumulative(y - 1)
    OBVIOUS
  <2>1. CASE x = y - 1
    <3>1. x \in 0 .. Len(weights)
      BY DEF Upstreams, WeightsInv
    <3>2. Cumulative(x) \in Nat
      BY <3>1, CumulativeType
    <3>3. Cumulative(x) <= Cumulative(x)
      BY <3>2
    <3> QED
      BY <2>1, <3>3, Zenon
  <2>2. CASE x # y - 1
    <3>1. y - 1 \in Upstreams /\ x \in 0 .. (y - 1) - 1 /\ x \in 0 .. Len(weights)
          /\ y - 1 \in 0 .. Len(weights)
      BY <2>2 DEF Upstreams, WeightsInv
    <3>2. Cumulative(x) < Cumulative(y - 1)
      BY <3>1, CumulativeGrows
    <3> QED
      BY <3>1, <3>2, CumulativeType
  <2> QED
    BY <2>1, <2>2
<1>2. \A x, y \in Upstreams : x < y /\ Owns(x, k) => ~Owns(y, k)
  <2> SUFFICES ASSUME NEW x \in Upstreams, NEW y \in Upstreams, x < y, Owns(x, k), Owns(y, k)
               PROVE  FALSE
    OBVIOUS
  <2>1. Cumulative(x) \in Nat /\ Cumulative(y - 1) \in Nat
    BY CumulativeType DEF Upstreams, WeightsInv
  <2> QED
    BY <1>1, <2>1 DEF Owns
<1> QED
  BY <1>2 DEF Upstreams, WeightsInv

LEMMA PoolOwner ==
  ASSUME WeightsInv
  PROVE  /\ Pool \in Seq(Upstreams) /\ Len(Pool) = TotalWeight /\ TotalWeight \in Nat \ {0}
         /\ \A k \in 1 .. TotalWeight : Pool[k] \in Upstreams
         /\ \A k \in 1 .. TotalWeight, u \in Upstreams : Pool[k] = u <=> Owns(u, k)
<1>1. /\ Pool \in Seq(Upstreams) /\ Len(Pool) = TotalWeight
      /\ \A k \in 1 .. TotalWeight : Owns(Pool[k], k)
  BY PoolDef DEF PoolUpTo, TotalWeight
<1>2. TotalWeight \in Nat \ {0}
  <2>1. Len(weights) \in Upstreams /\ 0 \in 0 .. Len(weights) - 1 /\ Len(weights) \in 0 .. Len(weights)
    BY DEF WeightsInv, Upstreams
  <2>2. Cumulative(0) < Cumulative(Len(weights)) /\ Cumulative(0) = 0
    BY <2>1, CumulativeGrows, CumulativeDef
  <2> QED
    BY <2>1, <2>2, CumulativeType DEF TotalWeight
<1>3. \A k \in 1 .. TotalWeight : Pool[k] \in Upstreams
  BY <1>1, <1>2
<1>4. ASSUME NEW k \in 1 .. TotalWeight, NEW u \in Upstreams PROVE Pool[k] = u <=> Owns(u, k)
  BY <1>1, <1>2, <1>3, OneOwner
<1> QED
  BY <1>1, <1>2, <1>3, <1>4

\* The walk ends at the owner of the slot after n.
LEMMA WalkOwner ==
  ASSUME WeightsInv, NEW n \in 0 .. TotalWeight - 1
  PROVE  Walk(n) = Pool[n + 1]
<1> DEFINE u == Pool[n + 1]
           Ends(v) == n < Cumulative(v) /\ \A w \in Upstreams : w < v => n >= Cumulative(w)
<1>1. TotalWeight \in Nat /\ n + 1 \in 1 .. TotalWeight /\ u \in Upstreams /\ Owns(u, n + 1)
  BY PoolOwner
<1> HIDE DEF u
<1>2. \A v \in Upstreams : v \in 0 .. Len(weights) /\ v - 1 \in 0 .. Len(weights)
                       /\ Cumulative(v) \in Nat /\ Cumulative(v - 1) \in Nat
  <2>1. \A v \in Upstreams : v \in 0 .. Len(weights) /\ v - 1 \in 0 .. Len(weights)
    BY DEF Upstreams, WeightsInv
  <2> QED
    BY <2>1, CumulativeType
<1>3. Ends(u)
  <2>1. n < Cumulative(u) /\ n >= Cumulative(u - 1)
    BY <1>1, <1>2 DEF Owns
  <2>2. ASSUME NEW w \in Upstreams, w < u PROVE n >= Cumulative(w)
    <3>1. CASE w = u - 1
      BY <2>1, <3>1
    <3>2. CASE w # u - 1
      <4>1. u - 1 \in Upstreams /\ w \in 0 .. (u - 1) - 1
        BY <1>1, <2>2, <3>2 DEF Upstreams, WeightsInv
      <4>2. Cumulative(w) < Cumulative(u - 1)
        BY <4>1, CumulativeGrows
      <4> QED
        BY <1>1, <1>2, <2>1, <4>1, <4>2
    <3> QED
      BY <3>1, <3>2
  <2> QED
    BY <2>1, <2>2
<1>4. ASSUME NEW v \in Upstreams, Ends(v) PROVE v = u
  <2>1. ~(u < v)
    BY <1>1, <1>2, <1>3, <1>4
  <2>2. ~(v < u)
    BY <1>1, <1>2, <1>3, <1>4
  <2> QED
    BY <1>1, <2>1, <2>2 DEF Upstreams, WeightsInv
<1>5. Walk(n) = CHOOSE v \in Upstreams : Ends(v)
  BY Zenon DEF Walk
<1> HIDE DEF Ends
<1> QED
  BY <1>1, <1>3, <1>4, <1>5 DEF u

\* As many numbers lead to an upstream as it has weight.
LEMMA RandomWeighted ==
  ASSUME WeightsInv
  PROVE  RandomShares
<1> SUFFICES ASSUME NEW u \in Upstreams
             PROVE  Cardinality({n \in 0 .. TotalWeight - 1 : Walk(n) = u}) = Weight(u)
  BY DEF RandomShares
<1> DEFINE Slots == {k \in 1 .. TotalWeight : Owns(u, k)}
           Draws == {n \in 0 .. TotalWeight - 1 : Walk(n) = u}
           f == [k \in Slots |-> k - 1]
<1>1. TotalWeight \in Nat
  BY PoolOwner
<1>2. \A n \in 0 .. TotalWeight - 1 : n \in Draws <=> n + 1 \in Slots
  BY <1>1, WalkOwner, PoolOwner
<1>3. f \in Bijection(Slots, Draws)
  <2>1. f \in [Slots -> Draws]
    BY <1>1, <1>2
  <2>2. \A k, l \in Slots : f[k] = f[l] => k = l
    BY <1>1
  <2>3. \A n \in Draws : n + 1 \in Slots /\ f[n + 1] = n
    BY <1>1, <1>2
  <2> HIDE DEF f, Slots, Draws
  <2> QED
    BY <2>1, <2>2, <2>3 DEF Bijection, Injection, Surjection, IsInjective
<1>4. IsFiniteSet(Slots) /\ Cardinality(Slots) = Weight(u)
  BY OwnsCount
<1> HIDE DEF f, Slots, Draws
<1>5. ExistsBijection(Slots, Draws)
  BY <1>3 DEF ExistsBijection
<1>6. Cardinality(Draws) = Cardinality(Slots)
  BY <1>4, <1>5, FS_Bijection
<1> QED
  BY <1>4, <1>6 DEF Draws

-----------------------------------------------------------------------------
(* Remainders. *)

LEMMA RemainderUnique ==
  ASSUME NEW d \in Nat \ {0}, NEW p \in Int, NEW q \in Int,
         NEW r \in 0 .. d - 1, NEW s \in 0 .. d - 1, d * p + r = d * q + s
  PROVE  r = s
<1>1. \A n \in Nat \ {0} : d * n >= d
  OBVIOUS
<1>2. CASE p > q
  <2>1. d * (p - q) >= d
    BY <1>1, <1>2
  <2>2. d * (p - q) = d * p - d * q
    OBVIOUS
  <2> QED
    BY <2>1, <2>2
<1>3. CASE p < q
  <2>1. d * (q - p) >= d
    BY <1>1, <1>3
  <2>2. d * (q - p) = d * q - d * p
    OBVIOUS
  <2> QED
    BY <2>1, <2>2
<1> QED
  BY <1>2, <1>3

\* A remainder comes again after a whole cycle.
LEMMA RemainderCycle ==
  ASSUME NEW d \in Nat \ {0}, NEW a \in Nat
  PROVE  (a + d) % d = a % d
<1> DEFINE q == a \div d
           p == (a + d) \div d
<1>1. q \in Int /\ a % d \in 0 .. d - 1 /\ a = d * q + (a % d)
  OBVIOUS
<1>2. p \in Int /\ (a + d) % d \in 0 .. d - 1 /\ a + d = d * p + ((a + d) % d)
  OBVIOUS
<1>3. d * (q + 1) = d * q + d
  BY <1>1
<1> HIDE DEF p, q
<1>4. d * (q + 1) + (a % d) = d * p + ((a + d) % d)
  BY <1>1, <1>2, <1>3
<1>5. q + 1 \in Int
  BY <1>1
<1> QED
  BY <1>1, <1>2, <1>4, <1>5, RemainderUnique

LEMMA RemainderSmall ==
  ASSUME NEW d \in Nat \ {0}
  PROVE  /\ \A a \in Nat : a % d \in 0 .. d - 1
         /\ \A a \in 0 .. d - 1 : a % d = a
OBVIOUS

\* Two successive numbers are not both multiples of a number above 1.
LEMMA RemainderNext ==
  ASSUME NEW d \in Nat, d >= 2, NEW a \in Nat, (a + 1) % d = 0
  PROVE  a % d # 0
OBVIOUS

-----------------------------------------------------------------------------
(* Round-robin: the pool over and over. *)

\* The upstream of the k-th pick.
Turn(k) == Pool[((k - 1) % TotalWeight) + 1]

LEMMA TurnType ==
  ASSUME WeightsInv
  PROVE  /\ \A k \in Nat \ {0} : Turn(k) \in Upstreams
         /\ \A k \in 1 .. TotalWeight : Turn(k) = Pool[k]
         /\ \A k \in Nat \ {0} : Turn(k + TotalWeight) = Turn(k)
<1>1. TotalWeight \in Nat \ {0}
  BY PoolOwner
<1>2. ASSUME NEW k \in Nat \ {0} PROVE Turn(k) \in Upstreams
  <2>1. k - 1 \in Nat
    OBVIOUS
  <2>2. (k - 1) % TotalWeight \in 0 .. TotalWeight - 1
    BY <1>1, <2>1, RemainderSmall
  <2>3. ((k - 1) % TotalWeight) + 1 \in 1 .. TotalWeight
    BY <1>1, <2>2
  <2> QED
    BY <2>3, PoolOwner DEF Turn
<1>3. ASSUME NEW k \in 1 .. TotalWeight PROVE Turn(k) = Pool[k]
  <2>1. k - 1 \in 0 .. TotalWeight - 1
    BY <1>1
  <2>2. (k - 1) % TotalWeight = k - 1
    BY <1>1, <2>1, RemainderSmall
  <2>3. ((k - 1) % TotalWeight) + 1 = k
    BY <2>2
  <2> QED
    BY <2>3 DEF Turn
<1>4. ASSUME NEW k \in Nat \ {0} PROVE Turn(k + TotalWeight) = Turn(k)
  <2>1. k - 1 \in Nat /\ (k + TotalWeight) - 1 = (k - 1) + TotalWeight
    BY <1>1
  <2>2. ((k - 1) + TotalWeight) % TotalWeight = (k - 1) % TotalWeight
    BY <1>1, <2>1, RemainderCycle
  <2> QED
    BY <2>1, <2>2 DEF Turn
<1> QED
  BY <1>2, <1>3, <1>4

\* The picks an upstream gets among as many successive ones as the pool has slots.
Share(u, i) == {k \in i .. i + TotalWeight - 1 : Turn(k) = u}

LEMMA ShareIsWeight ==
  ASSUME WeightsInv, NEW u \in Upstreams, NEW i \in Nat \ {0}
  PROVE  Cardinality(Share(u, i)) = Weight(u)
<1> DEFINE S == {j \in 1 .. i : IsFiniteSet(Share(u, j)) /\ Cardinality(Share(u, j)) = Weight(u)}
<1>0. TotalWeight \in Nat \ {0} /\ Weight(u) \in Nat
  BY PoolOwner, WeightType
<1>1. 1 \in S
  <2>1. \A k \in 1 .. TotalWeight : Turn(k) = u <=> Owns(u, k)
    BY TurnType, PoolOwner
  <2>2. Share(u, 1) = {k \in 1 .. TotalWeight : Owns(u, k)}
    <3>1. 1 .. 1 + TotalWeight - 1 = 1 .. TotalWeight
      BY <1>0
    <3> QED
      BY <2>1, <3>1 DEF Share
  <2> QED
    BY <2>2, OwnsCount
<1>2. ASSUME NEW j \in 1 .. i - 1, j \in S PROVE j + 1 \in S
  <2> DEFINE a == Share(u, j)
             b == Share(u, j + 1)
             n == j + TotalWeight
  <2>1. j \in Nat \ {0} /\ n \in Nat /\ n > j /\ n \notin a /\ j \notin b /\ j + 1 \in 1 .. i
    BY <1>0 DEF Share
  <2>2. Turn(n) = Turn(j)
    BY <2>1, TurnType
  <2>3. (j \in a <=> Turn(j) = u) /\ (n \in b <=> Turn(n) = u)
    BY <1>0, <2>1 DEF Share
  <2>4. a \ {j} = b \ {n}
    BY <1>0, <2>1 DEF Share
  <2>5. IsFiniteSet(a) /\ Cardinality(a) = Weight(u)
    BY <1>2
  <2> HIDE DEF a, b, n
  <2>6. CASE Turn(j) = u
    <3>1. b = (a \ {j}) \cup {n} /\ n \notin a \ {j}
      BY <2>1, <2>2, <2>3, <2>4, <2>6
    <3>2. IsFiniteSet(a \ {j}) /\ Cardinality(a \ {j}) = Weight(u) - 1
      BY <2>3, <2>5, <2>6, FS_RemoveElement
    <3>3. IsFiniteSet(b) /\ Cardinality(b) = Weight(u) - 1 + 1
      BY <3>1, <3>2, FS_AddElement
    <3> QED
      BY <1>0, <2>1, <3>3 DEF b
  <2>7. CASE Turn(j) # u
    <3>1. b = a
      BY <2>2, <2>3, <2>4, <2>7
    <3> QED
      BY <2>1, <2>5, <3>1 DEF b
  <2> QED
    BY <2>6, <2>7
<1> HIDE DEF S
<1>3. 1 .. i \subseteq S
  BY <1>1, <1>2, UpTo
<1> QED
  BY <1>3 DEF S

-----------------------------------------------------------------------------
(* The inductive invariant. *)

TypeInv ==
  /\ WeightsInv
  /\ mode \in {"round-robin", "random"}
  /\ counter \in -IntMax - 1 .. IntMax
  /\ locked \in BOOLEAN
  /\ pc \in [Requests -> {"idle", "pick", "locked", "panic"}]
  /\ picks \in Seq(Upstreams)

\* p.next counts the picks, until it wraps.  The first pick after that needs the
\* pool to divide IntMax + 1, the second would need it to divide IntMax too.
CounterInv ==
  \/ counter >= 0 /\ counter = Len(picks)
  \/ counter = -IntMax - 1 /\ Len(picks) = IntMax + 1
  \/ counter = -IntMax /\ Len(picks) = IntMax + 2 /\ (IntMax + 1) % TotalWeight = 0

\* The picks go through the pool in order, over and over.
CycleInv ==
  mode = "round-robin" =>
    /\ \A k \in 1 .. Len(picks) : picks[k] = Turn(k)
    /\ Len(weights) > 1 => CounterInv

\* Who is between p.mu.Lock and p.mu.Unlock, or panicked there.
Holds(r) == pc[r] \in {"locked", "panic"}

\* The lock has one holder, who is balancing round-robin.
LockInv ==
  /\ locked <=> \E r \in Requests : Holds(r)
  /\ \A r, q \in Requests : Holds(r) /\ Holds(q) => r = q
  /\ \A r \in Requests : Holds(r) => mode = "round-robin" /\ Len(weights) > 1
  /\ \A r \in Requests : pc[r] = "panic" => counter < 0

PickerInv == TypeInv /\ CycleInv /\ LockInv

\* pick takes the lock for round-robin only, and panics in it only after
\* p.next has wrapped, when more picks were made than an int can count.
PanicsOnlyWrapped ==
  \A r \in Requests :
    pc[r] = "panic" => mode = "round-robin" /\ counter < 0 /\ Len(picks) > IntMax

\* A pick that panics leaves p.mu locked: the route never picks an upstream
\* again.
PanicIsFinal ==
  [][(\E r \in Requests : pc[r] = "panic") =>
       locked' /\ picks' = picks /\ \E r \in Requests : pc'[r] = "panic"]_vars

-----------------------------------------------------------------------------
(* It is inductive. *)

LEMMA InitPicker == Init => PickerInv
<1> SUFFICES ASSUME Init PROVE PickerInv
  OBVIOUS
<1>1. PICK n \in 1 .. NumUpstreams : weights \in [1 .. n -> 0 .. MaxWeight]
  BY DEF Init
<1>2. WeightsInv
  <2>1. Len(weights) = n
    BY <1>1, BoundsAssumption
  <2>2. 0 .. MaxWeight \subseteq Nat /\ n \in Nat \ {0}
    BY BoundsAssumption
  <2> QED
    BY <1>1, <2>1, <2>2 DEF WeightsInv
<1>3. TypeInv
  <2>1. 0 \in -IntMax - 1 .. IntMax
    BY BoundsAssumption
  <2>2. picks \in Seq(Upstreams)
    BY EmptySeq DEF Init
  <2> QED
    BY <1>2, <2>1, <2>2 DEF Init, TypeInv
<1>4. CycleInv
  BY DEF Init, CycleInv, CounterInv
<1>5. LockInv
  BY DEF Init, LockInv, Holds
<1> QED
  BY <1>3, <1>4, <1>5 DEF PickerInv

\* More than one upstream is more than one slot.
LEMMA ManySlots ==
  ASSUME WeightsInv, Len(weights) > 1
  PROVE  TotalWeight \in Nat /\ TotalWeight >= 2
<1>1. /\ Len(weights) \in Upstreams /\ Len(weights) \in 0 .. Len(weights)
      /\ Len(weights) - 1 \in Upstreams /\ Len(weights) - 1 \in 0 .. Len(weights)
      /\ 0 \in 0 .. (Len(weights) - 1) - 1
      /\ Len(weights) - 1 \in 0 .. Len(weights) - 1
  BY DEF WeightsInv, Upstreams
<1>2. Cumulative(0) = 0 /\ Cumulative(0) < Cumulative(Len(weights) - 1)
  BY <1>1, CumulativeDef, CumulativeGrows
<1>3. Cumulative(Len(weights) - 1) < Cumulative(Len(weights))
  BY <1>1, CumulativeGrows
<1> QED
  BY <1>1, <1>2, <1>3, CumulativeType DEF TotalWeight

\* One more pick, that takes its turn.
LEMMA NextTurn ==
  ASSUME PickerInv, NEW r \in Requests, NEW u \in Upstreams, Chosen(r, u), UNCHANGED <<weights, mode>>
  PROVE  /\ WeightsInv' /\ mode' \in {"round-robin", "random"}
         /\ Len(picks) \in Nat /\ Len(picks') = Len(picks) + 1
         /\ picks' \in Seq(Upstreams)'
         /\ pc' \in [Requests -> {"idle", "pick", "locked", "panic"}]
         /\ TotalWeight' = TotalWeight
         /\ (mode = "round-robin" => u = Turn(Len(picks) + 1))
              => (mode = "round-robin" => \A k \in 1 .. Len(picks') : picks'[k] = Turn(k)')
<1>1. /\ weights' = weights /\ mode' = mode /\ picks \in Seq(Upstreams) /\ WeightsInv
      /\ mode \in {"round-robin", "random"}
      /\ pc \in [Requests -> {"idle", "pick", "locked", "panic"}]
  BY DEF PickerInv, TypeInv
<1>2. /\ WeightsInv' /\ TotalWeight' = TotalWeight /\ Upstreams' = Upstreams
      /\ \A k : Turn(k)' = Turn(k)
  BY <1>1 DEF WeightsInv, TotalWeight, Cumulative, Weight, Upstreams, Turn, Pool
<1>3. picks' = Append(picks, u) /\ pc' = [pc EXCEPT ![r] = "idle"]
  BY DEF Chosen
<1>4. /\ picks' \in Seq(Upstreams) /\ Len(picks) \in Nat /\ Len(picks') = Len(picks) + 1
      /\ \A k \in 1 .. Len(picks) : picks'[k] = picks[k]
      /\ picks'[Len(picks) + 1] = u
  <2> HIDE DEF Upstreams
  <2> QED
    BY <1>1, <1>3, AppendProperties
<1>5. ASSUME mode = "round-robin", u = Turn(Len(picks) + 1)
      PROVE  \A k \in 1 .. Len(picks') : picks'[k] = Turn(k)'
  BY <1>2, <1>4, <1>5 DEF PickerInv, CycleInv
<1>6. pc' \in [Requests -> {"idle", "pick", "locked", "panic"}]
  BY <1>1, <1>3
<1>7. picks' \in Seq(Upstreams)' /\ mode' \in {"round-robin", "random"}
  BY <1>1, <1>2, <1>4
<1> QED
  BY <1>2, <1>4, <1>5, <1>6, <1>7, Zenon

\* A counter of 0 or more picks the slot whose turn it is.
LEMMA CounterTurn ==
  ASSUME WeightsInv, NEW c \in Nat
  PROVE  Pool[(c % Len(Pool)) + 1] = Turn(c + 1) /\ Turn(c + 1) \in Upstreams
<1>1. (c + 1) - 1 = c /\ c + 1 \in Nat \ {0}
  OBVIOUS
<1>2. Len(Pool) = TotalWeight
  BY PoolOwner
<1> QED
  BY <1>1, <1>2, TurnType DEF Turn

LEMMA StepPicker == PickerInv /\ [Next]_vars => PickerInv'
<1> SUFFICES ASSUME PickerInv, [Next]_vars PROVE PickerInv'
  OBVIOUS
<1> USE BoundsAssumption
<1>0. /\ TypeInv /\ CycleInv /\ LockInv /\ WeightsInv
  BY DEF PickerInv, TypeInv
<1>a. ASSUME weights' = weights
      PROVE  /\ WeightsInv' /\ TotalWeight' = TotalWeight /\ Upstreams' = Upstreams
             /\ \A k : Turn(k)' = Turn(k)
  BY <1>0, <1>a DEF WeightsInv, TotalWeight, Cumulative, Weight, Upstreams, Turn, Pool
\* A step that picks nothing.
<1>b. ASSUME weights' = weights, mode' = mode, counter' = counter, picks' = picks
      PROVE  CycleInv'
  BY <1>0, <1>a, <1>b DEF CycleInv, CounterInv
<1>1. CASE UNCHANGED vars
  <2>1. TypeInv' /\ LockInv'
    BY <1>0, <1>1, <1>a DEF vars, TypeInv, LockInv, Holds
  <2> QED
    BY <1>1, <1>b, <2>1 DEF vars, PickerInv
<1>2. ASSUME NEW r \in Requests, Arrive(r) PROVE PickerInv'
  <2>1. TypeInv'
    BY <1>0, <1>2, <1>a DEF Arrive, TypeInv
  <2>2. LockInv'
    BY <1>0, <1>2 DEF Arrive, LockInv, Holds, TypeInv
  <2> QED
    BY <1>2, <1>b, <2>1, <2>2 DEF Arrive, PickerInv
<1>3. ASSUME NEW r \in Requests, PickOnly(r) PROVE PickerInv'
  <2>1. 1 \in Upstreams /\ Chosen(r, 1) /\ UNCHANGED <<weights, mode, counter, locked>> /\ Len(weights) = 1
    BY <1>3 DEF PickOnly, Upstreams
  <2>2. Len(picks) \in Nat
    BY <1>0 DEF TypeInv
  <2>3. Turn(Len(picks) + 1) = 1
    BY <1>0, <2>1, <2>2, TurnType DEF Upstreams
  <2>4. TypeInv'
    BY <1>0, <2>1, NextTurn DEF TypeInv
  <2>5. CycleInv'
    BY <2>1, <2>3, NextTurn DEF CycleInv
  <2>6. LockInv'
    BY <1>0, <1>3 DEF PickOnly, Chosen, LockInv, Holds, TypeInv
  <2> QED
    BY <2>4, <2>5, <2>6 DEF PickerInv
<1>4. ASSUME NEW r \in Requests, Lock(r) PROVE PickerInv'
  <2>1. TypeInv'
    BY <1>0, <1>4, <1>a DEF Lock, TypeInv
  <2>2. LockInv'
    BY <1>0, <1>4 DEF Lock, LockInv, Holds, TypeInv
  <2> QED
    BY <1>4, <1>b, <2>1, <2>2 DEF Lock, PickerInv
<1>5. ASSUME NEW r \in Requests, PickRoundRobin(r) PROVE PickerInv'
  <2> DEFINE u == Pool[(counter % Len(Pool)) + 1]
  <2>1. /\ pc[r] = "locked" /\ counter >= 0 /\ Chosen(r, u) /\ UNCHANGED <<weights, mode>>
        /\ counter' = Wrap(counter) /\ locked' = FALSE /\ counter \in Nat
    BY <1>0, <1>5 DEF PickRoundRobin, TypeInv
  <2>2. u = Turn(counter + 1) /\ u \in Upstreams
    BY <1>0, <2>1, CounterTurn
  <2> HIDE DEF u
  <2>3. mode = "round-robin" /\ Len(weights) > 1
    BY <1>0, <2>1 DEF LockInv, Holds
  <2>4. TotalWeight \in Nat /\ TotalWeight >= 2
    BY <1>0, <2>3, ManySlots
  <2>5. counter = Len(picks)
    <3>1. CASE counter = -IntMax /\ (IntMax + 1) % TotalWeight = 0
      <4>1. IntMax = 0
        BY <2>1, <3>1
      <4> QED
        BY <2>4, <3>1, <4>1
    <3> QED
      BY <1>0, <2>1, <2>3, <3>1 DEF CycleInv, CounterInv
  <2>6. TypeInv'
    <3>1. counter' \in -IntMax - 1 .. IntMax
      BY <1>0, <2>1 DEF Wrap, TypeInv
    <3> QED
      BY <2>1, <2>2, <3>1, NextTurn DEF TypeInv
  <2>7. CycleInv'
    <3>1. CounterInv'
      <4>1. Len(picks') = Len(picks) + 1
        BY <2>1, <2>2, NextTurn
      <4> QED
        BY <2>1, <2>5, <4>1 DEF CounterInv, Wrap
    <3> QED
      BY <2>1, <2>2, <2>5, <3>1, NextTurn DEF CycleInv
  <2>8. LockInv'
    BY <1>0, <2>1 DEF Chosen, LockInv, Holds, TypeInv
  <2> QED
    BY <2>6, <2>7, <2>8 DEF PickerInv
<1>6. ASSUME NEW r \in Requests, PickWrapped(r) PROVE PickerInv'
  <2>1. pc[r] = "locked" /\ counter < 0 /\ counter \in Int /\ UNCHANGED <<weights, mode>> /\ Holds(r)
    BY <1>0, <1>6 DEF PickWrapped, TypeInv, Holds
  <2>2. mode = "round-robin" /\ Len(weights) > 1 /\ locked
    BY <1>0, <2>1 DEF LockInv
  <2>3. TotalWeight \in Nat /\ TotalWeight >= 2 /\ Len(Pool) = TotalWeight
    BY <1>0, <2>2, ManySlots, PoolOwner
  <2>4. CASE (-counter) % Len(Pool) = 0
    <3>1. Chosen(r, Pool[1]) /\ counter' = Wrap(counter) /\ locked' = FALSE
      BY <1>6, <2>4 DEF PickWrapped
    <3>2. counter = -IntMax - 1 /\ Len(picks) = IntMax + 1 /\ (IntMax + 1) % TotalWeight = 0
      <4>1. CASE counter = -IntMax - 1 /\ Len(picks) = IntMax + 1
        <5>1. -counter = IntMax + 1
          BY <4>1
        <5> QED
          BY <2>3, <2>4, <4>1, <5>1
      <4>2. CASE counter = -IntMax /\ (IntMax + 1) % TotalWeight = 0
        <5>1. -counter = IntMax
          BY <4>2
        <5>2. IntMax % TotalWeight # 0
          BY <2>3, <4>2, RemainderNext
        <5> QED
          BY <2>3, <2>4, <5>1, <5>2
      <4> QED
        BY <1>0, <2>1, <2>2, <4>1, <4>2 DEF CycleInv, CounterInv
    <3>3. Pool[1] = Turn(Len(picks) + 1) /\ Pool[1] \in Upstreams
      <4>1. (Len(picks) + 1) - 1 = IntMax + 1 /\ 0 + 1 = 1
        BY <3>2
      <4>2. Turn(Len(picks) + 1) = Pool[1]
        BY <3>2, <4>1 DEF Turn
      <4> QED
        BY <1>0, <2>3, <4>2, PoolOwner
    <3> DEFINE u == Pool[1]
    <3> HIDE DEF u
    <3>4. Chosen(r, u) /\ u \in Upstreams /\ u = Turn(Len(picks) + 1)
      BY <3>1, <3>3 DEF u
    <3>5. TypeInv'
      <4>1. counter' \in -IntMax - 1 .. IntMax
        BY <3>1, <3>2 DEF Wrap
      <4> QED
        BY <2>1, <3>1, <3>4, <4>1, NextTurn DEF TypeInv
    <3>6. CycleInv'
      <4>1. Len(picks') = Len(picks) + 1 /\ TotalWeight' = TotalWeight
        BY <2>1, <3>4, NextTurn
      <4>2. counter' = -IntMax
        BY <3>1, <3>2 DEF Wrap
      <4>3. CounterInv'
        BY <3>2, <4>1, <4>2 DEF CounterInv
      <4> QED
        BY <2>1, <3>4, <4>3, NextTurn DEF CycleInv
    <3>7. LockInv'
      BY <1>0, <2>1, <3>1 DEF Chosen, LockInv, Holds, TypeInv
    <3> QED
      BY <3>5, <3>6, <3>7 DEF PickerInv
  <2>5. CASE (-counter) % Len(Pool) # 0
    <3>1. pc' = [pc EXCEPT ![r] = "panic"] /\ UNCHANGED <<weights, mode, counter, locked, picks>>
      BY <1>6, <2>5 DEF PickWrapped
    <3>2. TypeInv'
      BY <1>0, <1>a, <3>1 DEF TypeInv
    <3>3. LockInv'
      BY <1>0, <2>1, <3>1 DEF LockInv, Holds, TypeInv
    <3> QED
      BY <1>b, <3>1, <3>2, <3>3 DEF PickerInv
  <2> QED
    BY <2>4, <2>5
<1>7. ASSUME NEW r \in Requests, PickRandom(r) PROVE PickerInv'
  <2>1. PICK n \in 0 .. TotalWeight - 1 : Chosen(r, Walk(n))
    BY <1>7 DEF PickRandom
  <2>2. Walk(n) \in Upstreams
    <3>1. n + 1 \in 1 .. TotalWeight
      BY <1>0, PoolOwner
    <3> QED
      BY <1>0, <3>1, WalkOwner, PoolOwner
  <2>3. mode = "random" /\ pc[r] = "pick" /\ UNCHANGED <<weights, mode, counter, locked>>
    BY <1>7 DEF PickRandom
  <2> DEFINE u == Walk(n)
  <2> HIDE DEF u
  <2>4. Chosen(r, u) /\ u \in Upstreams
    BY <2>1, <2>2 DEF u
  <2>5. TypeInv'
    BY <1>0, <2>3, <2>4, NextTurn DEF TypeInv
  <2>6. CycleInv'
    BY <2>3 DEF CycleInv
  <2>7. LockInv'
    BY <1>0, <2>3, <2>4 DEF Chosen, LockInv, Holds, TypeInv
  <2> QED
    BY <2>5, <2>6, <2>7 DEF PickerInv
<1> QED
  BY <1>1, <1>2, <1>3, <1>4, <1>5, <1>6, <1>7 DEF Next, Pick

-----------------------------------------------------------------------------
(* The theorems. *)

\* Picker invariant: holds in every reachable state.
THEOREM PickerInvHolds == Spec => []PickerInv
<1>1. Init => PickerInv
  BY InitPicker
<1>2. PickerInv /\ [Next]_vars => PickerInv'
  BY StepPicker
<1> QED
  BY <1>1, <1>2, PTL DEF Spec

LEMMA CycleShares == PickerInv => RoundRobinShares
<1> SUFFICES ASSUME PickerInv, mode = "round-robin",
                    NEW i \in 1 .. Len(picks) - TotalWeight + 1, NEW u \in Upstreams
             PROVE  Cardinality({k \in i .. i + TotalWeight - 1 : picks[k] = u}) = Weight(u)
  BY DEF RoundRobinShares
<1>1. WeightsInv /\ Len(picks) \in Nat /\ \A k \in 1 .. Len(picks) : picks[k] = Turn(k)
  BY DEF PickerInv, TypeInv, CycleInv
<1>2. TotalWeight \in Nat \ {0}
  BY <1>1, PoolOwner
<1>3. i \in Nat \ {0} /\ i .. i + TotalWeight - 1 \subseteq 1 .. Len(picks)
  BY <1>1, <1>2
<1>4. {k \in i .. i + TotalWeight - 1 : picks[k] = u} = Share(u, i)
  BY <1>1, <1>3 DEF Share
<1> QED
  BY <1>1, <1>3, <1>4, ShareIsWeight

\* newUpstreamPicker and pick: whatever the weights and however the requests
\* interleave, as many successive round-robin picks as the pool has slots give
\* every upstream its weight, and so do the draws of the random mode.
THEOREM PickerPicksAreWeighted == Spec => []PicksAreWeighted
<1>1. PickerInv => PicksAreWeighted
  BY CycleShares, RandomWeighted DEF PicksAreWeighted, PickerInv, TypeInv
<1> QED
  BY <1>1, PickerInvHolds, PTL

\* pick: indexing the pool panics only once p.next has wrapped.
THEOREM PickerPanicsOnlyWrapped == Spec => []PanicsOnlyWrapped
<1>1. PickerInv => PanicsOnlyWrapped
  BY BoundsAssumption DEF PickerInv, TypeInv, CycleInv, CounterInv, LockInv, Holds, PanicsOnlyWrapped
<1> QED
  BY <1>1, PickerInvHolds, PTL

\* pick: p.mu is not released by a defer, so the route picks no more after a
\* panic and never gets over it.
THEOREM PickerPanicIsFinal == Spec => PanicIsFinal
<1>1. ASSUME PickerInv, [Next]_vars, NEW q \in Requests, pc[q] = "panic"
      PROVE  locked' /\ picks' = picks /\ \E r \in Requests : pc'[r] = "panic"
  <2>1. /\ locked /\ mode = "round-robin" /\ Len(weights) > 1
        /\ \A r \in Requests : pc[r] # "locked"
        /\ pc \in [Requests -> {"idle", "pick", "locked", "panic"}]
    BY <1>1 DEF PickerInv, TypeInv, LockInv, Holds
  <2>2. CASE UNCHANGED vars
    BY <1>1, <2>1, <2>2 DEF vars
  <2>3. ASSUME NEW r \in Requests, Arrive(r)
        PROVE  UNCHANGED <<locked, picks>> /\ pc'[q] = "panic"
    BY <1>1, <2>1, <2>3 DEF Arrive
  <2>4. ASSUME NEW r \in Requests, Pick(r) PROVE FALSE
    <3>1. ~PickOnly(r)
      <4>1. Len(weights) \in Nat
        BY <1>1 DEF PickerInv, TypeInv, WeightsInv
      <4>2. Len(weights) > 1
        BY <2>1
      <4>3. \A n \in Nat : n > 1 => n # 1
        OBVIOUS
      <4> QED
        BY <4>1, <4>2, <4>3, Zenon DEF PickOnly
    <3>2. ~Lock(r) /\ ~PickRandom(r)
      BY <2>1 DEF Lock, PickRandom
    <3>3. ~PickRoundRobin(r) /\ ~PickWrapped(r)
      BY <2>1 DEF PickRoundRobin, PickWrapped
    <3> QED
      BY <2>4, <3>1, <3>2, <3>3 DEF Pick
  <2> QED
    BY <1>1, <2>1, <2>2, <2>3, <2>4 DEF Next
<1>2. PickerInv /\ [Next]_vars =>
        [(\E r \in Requests : pc[r] = "panic") =>
           locked' /\ picks' = picks /\ \E r \in Requests : pc'[r] = "panic"]_vars
  BY <1>1
<1> QED
  BY <1>2, PickerInvHolds, PTL DEF Spec, PanicIsFinal
=============================================================================
