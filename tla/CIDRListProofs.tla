--------------------------- MODULE CIDRListProofs ---------------------------
(***************************************************************************)
(* Proofs about CIDRList, for any number of sources, of configurations     *)
(* loaded one after the other and of versions of an origin.                *)
(***************************************************************************)
EXTENDS CIDRList, TLAPS

\* Nothing is known of a source, and no goroutine works for it, before the
\* list has loaded it; after Load there is none left to load.
LoadInv ==
  /\ \A l \in AllLists, s \in Sources :
       s >= next[l] => /\ dynamic[l][s] = 0
                       /\ \A w \in Workers : work[l][w][s].pc = "none"
  /\ \A l \in AllLists :
       stage[l] \in {"swapped", "running", "stopped"} => next[l] > NumSources

\* The lists before the one that is served are stopped; the one after it is
\* loaded only once the served one runs.
StageInv ==
  \A l \in AllLists :
    /\ l < served => stage[l] = "stopped"
    /\ l = served => stage[l] \in {"swapped", "running"}
    /\ l = served + 1 => stage[l] \in {"none", "loading"}
    /\ l > served + 1 => stage[l] = "none"
    /\ l = served + 1 /\ stage[l] = "loading" /\ served > 0 => stage[served] = "running"

\* Every version anybody holds was published by its origin, and a goroutine that
\* is about to write has read one.
VersionInv ==
  \A s \in Sources :
    /\ origin[s] >= 1 /\ cacheFile[s] <= origin[s]
    /\ \A l \in AllLists :
         /\ dynamic[l][s] <= origin[s] /\ lastMtime[l][s] <= origin[s]
         /\ \A w \in Workers :
              /\ work[l][w][s].got <= origin[s]
              /\ work[l][w][s].pc \in {"cache", "set"} => work[l][w][s].got # 0

IInv == TypeOK /\ LoadInv /\ StageInv /\ VersionInv

-----------------------------------------------------------------------------
(* Updates of the nested functions, point by point. *)

Works == [Workers -> [Sources -> Worker]]

\* Goroutine w of list l for source s becomes r; the others stay.
Becomes(l, w, s, r) ==
  /\ work' \in [AllLists -> Works]
  /\ \A m \in AllLists, v \in Workers, t \in Sources :
       work'[m][v][t] = IF m = l /\ v = w /\ t = s THEN r ELSE work[m][v][t]

LEMMA WorkUpdate ==
  ASSUME TypeOK, NEW l \in AllLists, NEW w \in Workers, NEW s \in Sources,
         NEW r \in Worker, work' = [work EXCEPT ![l][w][s] = r]
  PROVE  Becomes(l, w, s, r)
  BY DEF TypeOK, Becomes, Works

LEMMA GotoUpdate ==
  ASSUME TypeOK, NEW l \in AllLists, NEW w \in Workers, NEW s \in Sources,
         NEW pc \in {"none", "idle", "fetch", "cache", "set", "done"},
         Goto(l, w, s, pc)
  PROVE  Becomes(l, w, s, [pc |-> pc, got |-> work[l][w][s].got])
<1> DEFINE r == [pc |-> pc, got |-> work[l][w][s].got]
<1>1. work[l][w][s] \in Worker
  BY DEF TypeOK
<1>2. r \in Worker /\ [work[l][w][s] EXCEPT !.pc = pc] = r
  BY <1>1 DEF Worker
<1>3. work' = [work EXCEPT ![l][w][s] = r]
  BY <1>2 DEF Goto
<1> QED
  BY <1>2, <1>3, WorkUpdate

LEMMA DynamicUpdate ==
  ASSUME TypeOK, NEW l \in AllLists, NEW s \in Sources, NEW v \in Contents,
         dynamic' = [dynamic EXCEPT ![l][s] = v]
  PROVE  /\ dynamic' \in [AllLists -> [Sources -> Contents]]
         /\ \A m \in AllLists, t \in Sources :
              dynamic'[m][t] = IF m = l /\ t = s THEN v ELSE dynamic[m][t]
  BY DEF TypeOK

LEMMA VersionsAreContents == Versions \subseteq Contents
  BY EntriesAssumption DEF Versions, Contents, Torn

\* However writeCacheFile ends, the cache file has no version that its origin
\* never had.
LEMMA WriteUpdate ==
  ASSUME TypeOK, VersionInv, NEW s \in Sources, NEW v \in Versions, v <= origin[s],
         WriteCacheFile(s, v)
  PROVE  /\ cacheFile' \in [Sources -> Contents]
         /\ \A t \in Sources : cacheFile'[t] <= origin[t]
<1>1. Torn \in Contents /\ v \in Contents /\ Torn <= origin[s]
  BY EntriesAssumption, VersionsAreContents DEF TypeOK, Versions, Contents, Torn
<1>2. ASSUME NEW c \in {v, Torn}, cacheFile' = [cacheFile EXCEPT ![s] = c]
      PROVE  /\ cacheFile' \in [Sources -> Contents]
             /\ \A t \in Sources : cacheFile'[t] <= origin[t]
  BY <1>1, <1>2 DEF TypeOK, VersionInv
<1>3. CASE UNCHANGED cacheFile
  BY <1>3 DEF TypeOK, VersionInv
<1> QED
  BY <1>2, <1>3 DEF WriteCacheFile

\* Goroutines w of list l may start at pc, for sources of S, with nothing read.
Starts(l, S, w, pc) ==
  /\ work' \in [AllLists -> Works]
  /\ \A m \in AllLists, v \in Workers, t \in Sources :
       \/ work'[m][v][t] = work[m][v][t]
       \/ m = l /\ v = w /\ t \in S /\ work'[m][v][t] = [pc |-> pc, got |-> 0]

LEMMA AsyncUpdate ==
  ASSUME TypeOK, NEW l \in AllLists, NEW S, NEW w \in Workers,
         NEW pc \in {"idle", "fetch"},
         work' = [work EXCEPT ![l] = AsyncRefresh(work[l], S, w, pc)]
  PROVE  Starts(l, S, w, pc)
<1> DEFINE new == AsyncRefresh(work[l], S, w, pc)
           started == [pc |-> pc, got |-> 0]
<1>1. started \in Worker /\ work[l] \in Works
  BY EntriesAssumption DEF TypeOK, Worker, Versions, Works
<1>2. new \in Works
  BY <1>1 DEF AsyncRefresh, Works
<1>3. \A v \in Workers, t \in Sources :
        new[v][t] = work[l][v][t] \/ (v = w /\ t \in S /\ new[v][t] = started)
  BY <1>1 DEF AsyncRefresh, Works
<1>4. work' \in [AllLists -> Works] /\ \A m \in AllLists : work'[m] = IF m = l THEN new ELSE work[m]
  BY <1>2 DEF TypeOK, Works
<1> QED
  BY <1>3, <1>4 DEF Starts

-----------------------------------------------------------------------------
(* The invariant, action by action. *)

LEMMA InitIInv == Init => IInv
<1> SUFFICES ASSUME Init PROVE IInv
  OBVIOUS
<1> USE EntriesAssumption DEF Init, Versions, Contents, Torn, AllLists, Sources
<1>1. TypeOK
  <2>1. work \in [AllLists -> [Workers -> [Sources -> Worker]]]
    BY DEF NoWorker, Worker
  <2>2. \A l \in AllLists, s \in Sources : work[l]["once"][s].pc # "idle"
    BY DEF NoWorker, Workers
  <2>3. /\ origin \in [Sources -> Versions] /\ cacheFile \in [Sources -> Torn .. 1]
        /\ access \in [Sources -> {"ok", "fails", "gone"}]
    OBVIOUS
  <2>4. cacheFile \in [Sources -> Contents]
    <3> HIDE DEF Init, Sources
    <3> QED
      BY <2>3
  <2>5. /\ entry \in Entries /\ served \in 0 .. NumLists
        /\ stage \in [AllLists -> {"none", "loading", "swapped", "running", "stopped"}]
        /\ next \in [AllLists -> 1 .. NumSources + 1]
    OBVIOUS
  <2>6. /\ dynamic \in [AllLists -> [Sources -> Contents]]
        /\ lastMtime \in [AllLists -> [Sources -> Versions]]
    OBVIOUS
  <2> HIDE DEF Init, Sources, AllLists, Versions, Contents, Torn
  <2> QED
    BY <2>1, <2>2, <2>3, <2>4, <2>5, <2>6 DEF TypeOK
<1>2. LoadInv
  BY DEF LoadInv, NoWorker
<1>3. StageInv
  BY DEF StageInv
<1>4. VersionInv
  <2>1. \A s \in Sources : origin[s] = 1 /\ cacheFile[s] \in Torn .. 1
    OBVIOUS
  <2>2. \A l \in AllLists, s \in Sources : dynamic[l][s] = 0 /\ lastMtime[l][s] = 0
    OBVIOUS
  <2>3. \A l \in AllLists, w \in Workers, s \in Sources : work[l][w][s] = NoWorker
    OBVIOUS
  <2> HIDE DEF Init
  <2> QED
    BY <2>1, <2>2, <2>3 DEF VersionInv, NoWorker
<1> QED
  BY <1>1, <1>2, <1>3, <1>4 DEF IInv

LEMMA PublishIInv ==
  ASSUME IInv, NEW s \in Sources, Publish(s)
  PROVE  IInv'
<1> USE EntriesAssumption DEF IInv, Publish, loadVars
<1>1. /\ origin' \in [Sources -> Versions]
      /\ \A t \in Sources : origin'[t] >= origin[t]
  BY DEF TypeOK, Versions
<1>2. TypeOK'
  BY <1>1 DEF TypeOK
<1>3. LoadInv' /\ StageInv'
  BY DEF LoadInv, StageInv
<1>4. VersionInv'
  <2>1. \A t \in Sources, v \in Contents : v <= origin[t] => v <= origin'[t]
    BY <1>1 DEF TypeOK, Versions, Contents, Torn
  <2>2. /\ \A t \in Sources : cacheFile[t] \in Contents
        /\ \A t \in Sources, l \in AllLists : dynamic[l][t] \in Contents /\ lastMtime[l][t] \in Contents
        /\ \A t \in Sources, l \in AllLists, w \in Workers : work[l][w][t].got \in Contents
    BY VersionsAreContents DEF TypeOK, Worker
  <2>3. \A t \in Sources : origin'[t] >= 1
    BY <1>1 DEF VersionInv, TypeOK, Versions
  <2> QED
    BY <2>1, <2>2, <2>3 DEF VersionInv
<1> QED
  BY <1>2, <1>3, <1>4

LEMMA AccessIInv ==
  ASSUME IInv, NEW s \in Sources, ChangeAccess(s)
  PROVE  IInv'
<1> USE DEF IInv, ChangeAccess, loadVars
<1>1. TypeOK'
  <2>1. access' \in [Sources -> {"ok", "fails", "gone"}]
    BY DEF TypeOK
  <2> QED
    BY <2>1 DEF TypeOK
<1>2. LoadInv' /\ StageInv' /\ VersionInv'
  BY DEF LoadInv, StageInv, VersionInv
<1> QED
  BY <1>1, <1>2

LEMMA StartLoadIInv ==
  ASSUME IInv, NEW l \in AllLists, StartLoad(l)
  PROVE  IInv'
<1> USE EntriesAssumption DEF IInv, StartLoad, worldVars
<1>1. TypeOK'
  BY DEF TypeOK
<1>2. l = served + 1
  <2>1. CASE l = 1
    <3>1. stage[1] = "none" /\ 1 \in AllLists /\ served \in Nat
      BY <2>1 DEF TypeOK
    <3>2. ~(1 < served) /\ 1 # served
      BY <3>1 DEF StageInv
    <3> QED
      BY <2>1, <3>1, <3>2
  <2>2. CASE l # 1
    <3>1. l - 1 \in AllLists /\ stage[l - 1] = "running"
      BY <2>2 DEF AllLists
    <3> QED
      BY <3>1 DEF TypeOK, StageInv, AllLists
  <2> QED
    BY <2>1, <2>2
<1>3. LoadInv'
  BY DEF LoadInv, TypeOK
<1>4. StageInv'
  BY <1>2 DEF StageInv, TypeOK, AllLists
<1>5. VersionInv'
  BY DEF VersionInv
<1> QED
  BY <1>1, <1>3, <1>4, <1>5

LEMMA SwapIInv ==
  ASSUME IInv, NEW l \in AllLists, Swap(l)
  PROVE  IInv'
<1> USE EntriesAssumption DEF IInv, worldVars
<1>1. /\ stage[l] = "loading" /\ next[l] > NumSources /\ served' = l
      /\ stage' = [m \in AllLists |-> CASE m = l     -> "swapped"
                                        [] m = l - 1 -> "stopped"
                                        [] OTHER     -> stage[m]]
      /\ UNCHANGED <<entry, origin, access, next, cacheFile, dynamic, work, lastMtime>>
  BY DEF Swap
<1>2. /\ stage' \in [AllLists -> {"none", "loading", "swapped", "running", "stopped"}]
      /\ stage'[l] = "swapped"
      /\ l - 1 \in AllLists => stage'[l - 1] = "stopped"
      /\ \A m \in AllLists : m # l /\ m # l - 1 => stage'[m] = stage[m]
  BY <1>1 DEF TypeOK, AllLists
<1>3. TypeOK'
  BY <1>1, <1>2 DEF TypeOK, AllLists
<1>4. l = served + 1 /\ served \in Nat
  <2>1. served \in Nat /\ l \in Nat
    BY DEF TypeOK, AllLists
  <2>2. ~(l < served) /\ l # served /\ ~(l > served + 1)
    BY <1>1 DEF StageInv
  <2> QED
    BY <2>1, <2>2
<1>5. LoadInv'
  <2>1. ASSUME NEW m \in AllLists, stage'[m] \in {"swapped", "running", "stopped"}
        PROVE  next[m] > NumSources
    <3>1. CASE m = l
      BY <3>1, <1>1
    <3>2. CASE m = l - 1
      BY <3>2, <1>4 DEF StageInv, LoadInv
    <3>3. CASE m # l /\ m # l - 1
      BY <3>3, <2>1, <1>2 DEF LoadInv
    <3> QED
      BY <3>1, <3>2, <3>3
  <2> QED
    BY <2>1, <1>1 DEF LoadInv
<1>6. StageInv'
  BY <1>1, <1>2, <1>4 DEF StageInv, TypeOK, AllLists
<1>7. VersionInv'
  BY <1>1 DEF VersionInv
<1> QED
  BY <1>5, <1>6, <1>7, <1>3

\* Where a goroutine may go, and with what, so that the invariant stays.
LEMMA BecomesIInv ==
  ASSUME IInv, NEW l \in AllLists, NEW w \in Workers, NEW s \in Sources, NEW r \in Worker,
         Becomes(l, w, s, r), work[l][w][s].pc # "none",
         w = "once" => r.pc # "idle",
         r.got <= origin[s], r.pc \in {"cache", "set"} => r.got # 0,
         UNCHANGED <<entry, origin, access, stage, next, served>>,
         cacheFile' \in [Sources -> Contents],
         dynamic' \in [AllLists -> [Sources -> Contents]],
         lastMtime' \in [AllLists -> [Sources -> Versions]],
         \A t \in Sources : cacheFile'[t] <= origin[t],
         \A m \in AllLists, t \in Sources :
           /\ dynamic'[m][t] <= origin[t] /\ lastMtime'[m][t] <= origin[t]
           /\ dynamic'[m][t] = dynamic[m][t] \/ (m = l /\ t = s)
  PROVE  IInv'
<1> USE DEF IInv
<1>1. \A m \in AllLists, v \in Workers, t \in Sources :
        work'[m][v][t] = IF m = l /\ v = w /\ t = s THEN r ELSE work[m][v][t]
  BY DEF Becomes
<1>2. TypeOK'
  <2>1. \A m \in AllLists, t \in Sources : work'[m]["once"][t].pc # "idle"
    BY <1>1 DEF TypeOK, Workers
  <2> QED
    BY <2>1 DEF TypeOK, Becomes, Works
<1>3. LoadInv'
  <2>1. ~(s >= next[l])
    BY DEF LoadInv
  <2>2. ASSUME NEW m \in AllLists, NEW t \in Sources, t >= next[m]
        PROVE  dynamic'[m][t] = 0 /\ \A v \in Workers : work'[m][v][t].pc = "none"
    <3>1. ~(m = l /\ t = s)
      BY <2>1, <2>2
    <3>2. dynamic[m][t] = 0 /\ \A v \in Workers : work[m][v][t].pc = "none"
      BY <2>2 DEF LoadInv
    <3> QED
      BY <3>1, <3>2, <1>1
  <2> QED
    BY <2>2 DEF LoadInv
<1>4. StageInv'
  BY DEF StageInv
<1>5. VersionInv'
  <2>1. ASSUME NEW m \in AllLists, NEW v \in Workers, NEW t \in Sources
        PROVE  /\ work'[m][v][t].got <= origin'[t]
               /\ work'[m][v][t].pc \in {"cache", "set"} => work'[m][v][t].got # 0
    <3>1. /\ work[m][v][t].got <= origin[t]
          /\ work[m][v][t].pc \in {"cache", "set"} => work[m][v][t].got # 0
      BY DEF VersionInv
    <3>2. work'[m][v][t] = IF m = l /\ v = w /\ t = s THEN r ELSE work[m][v][t]
      BY <1>1
    <3>3. /\ r.got <= origin[s] /\ r.pc \in {"cache", "set"} => r.got # 0
          /\ origin'[t] = origin[t]
      OBVIOUS
    <3>4. CASE m = l /\ v = w /\ t = s
      <4>1. work'[m][v][t] = r
        BY <3>2, <3>4
      <4> QED
        BY <3>3, <3>4, <4>1
    <3>5. CASE ~(m = l /\ v = w /\ t = s)
      <4>1. work'[m][v][t] = work[m][v][t]
        BY <3>2, <3>5
      <4> QED
        BY <3>1, <3>3, <4>1
    <3> QED
      BY <3>4, <3>5
  <2>2. \A t \in Sources : origin'[t] >= 1 /\ cacheFile'[t] <= origin'[t]
    BY DEF VersionInv
  <2>3. \A m \in AllLists, t \in Sources :
          dynamic'[m][t] <= origin'[t] /\ lastMtime'[m][t] <= origin'[t]
    OBVIOUS
  <2>4. \A m \in AllLists, v \in Workers, t \in Sources :
          /\ work'[m][v][t].got <= origin'[t]
          /\ work'[m][v][t].pc \in {"cache", "set"} => work'[m][v][t].got # 0
    BY <2>1
  <2> HIDE DEF IInv
  <2> QED
    BY ONLY <2>2, <2>3, <2>4 DEF VersionInv
<1> QED
  BY <1>2, <1>3, <1>4, <1>5

LEMMA TickIInv ==
  ASSUME IInv, NEW l \in AllLists, NEW s \in Sources, Tick(l, s) \/ EndLoop(l, s)
  PROVE  IInv'
<1> DEFINE pc == IF Tick(l, s) THEN "fetch" ELSE "done"
           r  == [pc |-> pc, got |-> work[l]["loop"][s].got]
<1>1. /\ work[l]["loop"][s].pc = "idle" /\ Goto(l, "loop", s, pc)
      /\ UNCHANGED <<entry, origin, access, stage, next, served, cacheFile, dynamic>>
  BY DEF Tick, EndLoop, worldVars, loadVars
<1>2. TypeOK /\ VersionInv /\ "loop" \in Workers
  BY DEF IInv, Workers
<1>3. pc \in {"fetch", "done"}
  OBVIOUS
<1> HIDE DEF pc
<1>4. Becomes(l, "loop", s, r)
  BY <1>1, <1>2, <1>3, GotoUpdate
<1>5. r \in Worker /\ r.got <= origin[s] /\ r.pc = pc
  BY <1>2, <1>3 DEF TypeOK, Worker, VersionInv
<1>6. /\ lastMtime' \in [AllLists -> [Sources -> Versions]]
      /\ \A m \in AllLists, t \in Sources : lastMtime'[m][t] <= origin[t]
  <2>1. CASE UNCHANGED lastMtime
    BY <2>1, <1>2 DEF TypeOK, VersionInv
  <2>2. CASE lastMtime' = [lastMtime EXCEPT ![l][s] = origin[s]]
    BY <2>2, <1>2 DEF TypeOK, VersionInv, Versions
  <2> QED
    BY <2>1, <2>2 DEF Tick, EndLoop
<1> HIDE DEF r
<1> QED
  BY <1>1, <1>2, <1>3, <1>4, <1>5, <1>6, BecomesIInv DEF TypeOK, VersionInv

LEMMA FetchIInv ==
  ASSUME IInv, NEW l \in AllLists, NEW w \in Workers, NEW s \in Sources, Fetch(l, w, s)
  PROVE  IInv'
<1> DEFINE read == [pc |-> IF Cache(s) THEN "cache" ELSE "set", got |-> origin[s]]
           gave == [pc |-> After(w), got |-> work[l][w][s].got]
           r == IF access[s] = "ok" THEN read ELSE gave
<1>1. /\ work[l][w][s].pc = "fetch"
      /\ UNCHANGED <<entry, origin, access, stage, next, served, cacheFile, dynamic, lastMtime>>
  BY DEF Fetch, worldVars, loadVars
<1>2. TypeOK /\ VersionInv
  BY DEF IInv
<1>3. origin[s] \in Versions /\ origin[s] >= 1 /\ origin[s] <= origin[s]
  BY <1>2, EntriesAssumption DEF TypeOK, VersionInv, Versions
<1>4. /\ After(w) \in {"idle", "done"} /\ (w = "once" => After(w) # "idle")
  BY DEF After
<1>5. read \in Worker /\ gave \in Worker
  BY <1>2, <1>3, <1>4 DEF TypeOK, Worker
<1>6. Becomes(l, w, s, r)
  <2>1. CASE access[s] = "ok"
    <3>1. work' = [work EXCEPT ![l][w][s] = read]
      BY <2>1 DEF Fetch
    <3> HIDE DEF read
    <3> QED
      BY <2>1, <3>1, <1>2, <1>5, WorkUpdate
  <2>2. CASE access[s] # "ok"
    <3>1. Goto(l, w, s, After(w))
      BY <2>2 DEF Fetch
    <3> QED
      BY <2>2, <3>1, <1>2, <1>4, GotoUpdate
  <2> QED
    BY <2>1, <2>2
<1>7. /\ r \in Worker /\ (w = "once" => r.pc # "idle") /\ r.got <= origin[s]
      /\ r.pc \in {"cache", "set"} => r.got # 0
  BY <1>2, <1>3, <1>4, <1>5 DEF VersionInv
<1> HIDE DEF r
<1> QED
  BY <1>1, <1>2, <1>6, <1>7, BecomesIInv DEF TypeOK, VersionInv

LEMMA SaveCacheIInv ==
  ASSUME IInv, NEW l \in AllLists, NEW w \in Workers, NEW s \in Sources, SaveCache(l, w, s)
  PROVE  IInv'
<1> DEFINE r == [pc |-> "set", got |-> work[l][w][s].got]
<1>1. /\ work[l][w][s].pc = "cache" /\ Goto(l, w, s, "set")
      /\ UNCHANGED <<entry, origin, access, stage, next, served, dynamic, lastMtime>>
  BY DEF SaveCache, worldVars, loadVars
<1>2. TypeOK /\ VersionInv
  BY DEF IInv
<1>3. Becomes(l, w, s, r)
  BY <1>1, <1>2, GotoUpdate
<1>4. /\ work[l][w][s].got \in Versions /\ work[l][w][s].got <= origin[s]
      /\ work[l][w][s].got # 0
  BY <1>1, <1>2 DEF TypeOK, Worker, VersionInv
<1>5. r \in Worker /\ r.pc = "set" /\ r.got = work[l][w][s].got
  BY <1>4 DEF Worker
<1>6. /\ cacheFile' \in [Sources -> Contents]
      /\ \A t \in Sources : cacheFile'[t] <= origin[t]
  BY <1>1, <1>2, <1>4, WriteUpdate DEF SaveCache
<1> HIDE DEF r
<1> QED
  BY <1>1, <1>2, <1>3, <1>4, <1>5, <1>6, BecomesIInv DEF TypeOK, VersionInv

LEMMA SetDynamicIInv ==
  ASSUME IInv, NEW l \in AllLists, NEW w \in Workers, NEW s \in Sources, SetDynamic(l, w, s)
  PROVE  IInv'
<1> DEFINE r == [pc |-> After(w), got |-> 0]
           v == work[l][w][s].got
<1>1. /\ work[l][w][s].pc = "set" /\ work' = [work EXCEPT ![l][w][s] = r]
      /\ dynamic' = [dynamic EXCEPT ![l][s] = v]
      /\ UNCHANGED <<entry, origin, access, stage, next, served, cacheFile, lastMtime>>
  BY DEF SetDynamic, worldVars, loadVars
<1>2. TypeOK /\ VersionInv
  BY DEF IInv
<1>3. /\ After(w) \in {"idle", "done"} /\ (w = "once" => After(w) # "idle")
  BY DEF After
<1>4. r \in Worker /\ r.pc = After(w) /\ r.got = 0 /\ r.got <= origin[s]
  BY <1>2, <1>3, EntriesAssumption DEF Worker, Versions, TypeOK
<1>5. v \in Versions /\ v <= origin[s]
  BY <1>2 DEF TypeOK, Worker, VersionInv
<1>a. v \in Contents
  BY <1>5, VersionsAreContents
<1> HIDE DEF r, v
<1>6. Becomes(l, w, s, r)
  BY <1>1, <1>2, <1>4, WorkUpdate
<1>7. /\ dynamic' \in [AllLists -> [Sources -> Contents]]
      /\ \A m \in AllLists, t \in Sources :
           dynamic'[m][t] = IF m = l /\ t = s THEN v ELSE dynamic[m][t]
  BY <1>1, <1>2, <1>a, DynamicUpdate
<1>8. \A m \in AllLists, t \in Sources :
        /\ dynamic'[m][t] <= origin[t]
        /\ dynamic'[m][t] = dynamic[m][t] \/ (m = l /\ t = s)
  BY <1>2, <1>5, <1>7 DEF VersionInv
<1>9. /\ cacheFile' \in [Sources -> Contents] /\ lastMtime' \in [AllLists -> [Sources -> Versions]]
      /\ \A t \in Sources : cacheFile'[t] <= origin[t]
      /\ \A m \in AllLists, t \in Sources : lastMtime'[m][t] <= origin[t]
  BY <1>1, <1>2 DEF TypeOK, VersionInv
<1> QED
  BY <1>1, <1>3, <1>4, <1>6, <1>7, <1>8, <1>9, BecomesIInv

LEMMA StartRefreshIInv ==
  ASSUME IInv, NEW l \in AllLists, StartRefresh(l)
  PROVE  IInv'
<1>1. /\ stage[l] = "swapped" /\ stage' = [stage EXCEPT ![l] = "running"]
      /\ work' = [work EXCEPT ![l] = AsyncRefresh(work[l], Sources, "loop", "idle")]
      /\ UNCHANGED <<entry, origin, access, next, served, cacheFile, dynamic, lastMtime>>
  BY DEF StartRefresh, worldVars
<1>2. TypeOK /\ LoadInv /\ StageInv /\ VersionInv /\ "loop" \in Workers
  BY DEF IInv, Workers
<1>3. /\ work' \in [AllLists -> Works]
      /\ \A m \in AllLists, v \in Workers, t \in Sources :
           \/ work'[m][v][t] = work[m][v][t]
           \/ /\ m = l /\ v = "loop" /\ t \in Sources
              /\ work'[m][v][t] = [pc |-> "idle", got |-> 0]
  <2>1. Starts(l, Sources, "loop", "idle")
    BY <1>1, <1>2, AsyncUpdate
  <2> QED
    BY <2>1 DEF Starts
<1>4. TypeOK'
  <2>1. \A m \in AllLists, t \in Sources : work'[m]["once"][t].pc # "idle"
    BY <1>2, <1>3 DEF TypeOK, Workers
  <2>2. stage' \in [AllLists -> {"none", "loading", "swapped", "running", "stopped"}]
    BY <1>1, <1>2 DEF TypeOK
  <2> QED
    BY <2>1, <2>2, <1>1, <1>2, <1>3 DEF TypeOK, Works
<1>5. LoadInv'
  <2>1. next[l] > NumSources
    BY <1>1, <1>2 DEF LoadInv
  <2>2. ASSUME NEW m \in AllLists, NEW t \in Sources, t >= next[m]
        PROVE  \A v \in Workers : work'[m][v][t].pc = "none"
    <3>1. m # l
      BY <2>1, <2>2, <1>2, EntriesAssumption DEF Sources, TypeOK
    <3> QED
      BY <3>1, <2>2, <1>2, <1>3 DEF LoadInv
  <2> QED
    BY <2>1, <2>2, <1>1, <1>2 DEF LoadInv, TypeOK
<1>6. StageInv'
  BY <1>1, <1>2 DEF StageInv, TypeOK
<1>7. VersionInv'
  <2>1. ASSUME NEW m \in AllLists, NEW v \in Workers, NEW t \in Sources
        PROVE  /\ work'[m][v][t].got <= origin[t]
               /\ work'[m][v][t].pc \in {"cache", "set"} => work'[m][v][t].got # 0
    <3>1. origin[t] \in Nat
      BY <1>2, EntriesAssumption DEF TypeOK, Versions
    <3> QED
      BY <3>1, <1>2, <1>3 DEF VersionInv
  <2> QED
    BY <2>1, <1>1, <1>2 DEF VersionInv
<1> QED
  BY <1>4, <1>5, <1>6, <1>7 DEF IInv

\* The source that is loaded next had no networks and no goroutine.
LEMMA LoadSourceUpdate ==
  ASSUME IInv, NEW l \in AllLists, LoadSource(l)
  PROVE  /\ next[l] \in Sources
         /\ cacheFile' \in [Sources -> Contents]
         /\ \A t \in Sources : cacheFile'[t] <= origin[t]
         /\ dynamic' \in [AllLists -> [Sources -> Contents]]
         /\ \A m \in AllLists, t \in Sources :
              \/ dynamic'[m][t] = dynamic[m][t]
              \/ m = l /\ t = next[l] /\ dynamic'[m][t] <= origin[t]
         /\ work' \in [AllLists -> Works]
         /\ \A m \in AllLists, v \in Workers, t \in Sources :
              \/ work'[m][v][t] = work[m][v][t]
              \/ /\ m = l /\ v = "once" /\ t = next[l]
                 /\ work'[m][v][t] = [pc |-> "fetch", got |-> 0]
<1> DEFINE s == next[l]
<1>1. TypeOK /\ VersionInv /\ "once" \in Workers
  BY DEF IInv, Workers
<1>2. s \in Sources
  BY <1>1, EntriesAssumption DEF TypeOK, Sources, LoadSource
<1>3. /\ origin[s] \in Versions /\ origin[s] \in Contents /\ cacheFile[s] \in Contents
      /\ 0 \in Contents
      /\ cacheFile[s] <= origin[s] /\ origin[s] <= origin[s] /\ 0 <= origin[s]
  BY <1>1, <1>2, EntriesAssumption, VersionsAreContents DEF TypeOK, VersionInv, Versions
<1> HIDE DEF s
<1>4. CASE UNCHANGED <<cacheFile, dynamic, work>>
  BY <1>1, <1>2, <1>4 DEF TypeOK, VersionInv, Works, s
<1>5. CASE /\ dynamic' = [dynamic EXCEPT ![l][s] = cacheFile[s]]
           /\ work' = [work EXCEPT ![l] = AsyncRefresh(work[l], {s}, "once", "fetch")]
           /\ UNCHANGED cacheFile
  <2>1. /\ work' \in [AllLists -> Works]
        /\ \A m \in AllLists, v \in Workers, t \in Sources :
             \/ work'[m][v][t] = work[m][v][t]
             \/ m = l /\ v = "once" /\ t \in {s} /\ work'[m][v][t] = [pc |-> "fetch", got |-> 0]
    <3>1. Starts(l, {s}, "once", "fetch")
      BY <1>1, <1>5, AsyncUpdate
    <3> QED
      BY <3>1 DEF Starts
  <2>2. /\ dynamic' \in [AllLists -> [Sources -> Contents]]
        /\ \A m \in AllLists, t \in Sources :
             dynamic'[m][t] = IF m = l /\ t = s THEN cacheFile[s] ELSE dynamic[m][t]
    BY <1>1, <1>2, <1>3, <1>5, DynamicUpdate
  <2>3. /\ cacheFile' \in [Sources -> Contents]
        /\ \A t \in Sources : cacheFile'[t] <= origin[t]
    BY <1>1, <1>5 DEF TypeOK, VersionInv
  <2> QED
    BY <2>1, <2>2, <2>3, <1>2, <1>3 DEF s
<1>6. CASE /\ dynamic' = [dynamic EXCEPT ![l][s] = origin[s]]
           /\ WriteCacheFile(s, origin[s])
           /\ UNCHANGED work
  <2>1. /\ dynamic' \in [AllLists -> [Sources -> Contents]]
        /\ \A m \in AllLists, t \in Sources :
             dynamic'[m][t] = IF m = l /\ t = s THEN origin[s] ELSE dynamic[m][t]
    BY <1>1, <1>2, <1>3, <1>6, DynamicUpdate
  <2>2. /\ cacheFile' \in [Sources -> Contents]
        /\ \A t \in Sources : cacheFile'[t] <= origin[t]
    BY <1>1, <1>2, <1>3, <1>6, WriteUpdate
  <2> QED
    BY <2>1, <2>2, <1>1, <1>2, <1>3, <1>6 DEF TypeOK, Works, s
<1>7. CASE /\ dynamic' = [dynamic EXCEPT ![l][s] = 0]
           /\ UNCHANGED <<cacheFile, work>>
  <2>1. /\ dynamic' \in [AllLists -> [Sources -> Contents]]
        /\ \A m \in AllLists, t \in Sources :
             dynamic'[m][t] = IF m = l /\ t = s THEN 0 ELSE dynamic[m][t]
    BY <1>1, <1>2, <1>3, <1>7, DynamicUpdate
  <2> QED
    BY <2>1, <1>1, <1>2, <1>3, <1>7 DEF TypeOK, VersionInv, Works, s
<1> QED
  BY <1>4, <1>5, <1>6, <1>7 DEF LoadSource, s

LEMMA LoadSourceIInv ==
  ASSUME IInv, NEW l \in AllLists, LoadSource(l)
  PROVE  IInv'
<1>1. /\ stage[l] = "loading" /\ next[l] <= NumSources
      /\ next' = [next EXCEPT ![l] = @ + 1]
      /\ UNCHANGED <<entry, origin, access, stage, served, lastMtime>>
  BY DEF LoadSource, worldVars
<1>2. TypeOK /\ LoadInv /\ StageInv /\ VersionInv
  BY DEF IInv
<1>3. /\ next' \in [AllLists -> 1 .. NumSources + 1]
      /\ next'[l] = next[l] + 1 /\ \A m \in AllLists : m # l => next'[m] = next[m]
      /\ next \in [AllLists -> Nat]
  BY <1>1, <1>2, EntriesAssumption DEF TypeOK
<1>4. TypeOK'
  <2>1. \A m \in AllLists, t \in Sources : work'[m]["once"][t].pc # "idle"
    BY <1>2, LoadSourceUpdate DEF TypeOK, Workers
  <2> QED
    BY <2>1, <1>1, <1>2, <1>3, LoadSourceUpdate DEF TypeOK, Works
<1>5. LoadInv'
  <2>1. ASSUME NEW m \in AllLists, NEW t \in Sources, t >= next'[m]
        PROVE  dynamic'[m][t] = 0 /\ \A v \in Workers : work'[m][v][t].pc = "none"
    <3>1. t >= next[m] /\ ~(m = l /\ t = next[l])
      BY <2>1, <1>3, EntriesAssumption DEF Sources
    <3>2. dynamic[m][t] = 0 /\ \A v \in Workers : work[m][v][t].pc = "none"
      BY <3>1, <1>2 DEF LoadInv
    <3>3. dynamic'[m][t] = dynamic[m][t]
      BY <3>1, LoadSourceUpdate
    <3>4. \A v \in Workers : work'[m][v][t] = work[m][v][t]
      BY <3>1, LoadSourceUpdate
    <3> QED
      BY <3>2, <3>3, <3>4
  <2>2. ASSUME NEW m \in AllLists, stage'[m] \in {"swapped", "running", "stopped"}
        PROVE  next'[m] > NumSources
    BY <2>2, <1>1, <1>2, <1>3 DEF LoadInv
  <2> QED
    BY <2>1, <2>2 DEF LoadInv
<1>6. StageInv'
  BY <1>1, <1>2 DEF StageInv
<1>7. VersionInv'
  <2>1. ASSUME NEW m \in AllLists, NEW v \in Workers, NEW t \in Sources
        PROVE  /\ work'[m][v][t].got <= origin[t]
               /\ work'[m][v][t].pc \in {"cache", "set"} => work'[m][v][t].got # 0
    <3>1. origin[t] \in Nat
      BY <1>2, EntriesAssumption DEF TypeOK, Versions
    <3> QED
      BY <3>1, <1>2, LoadSourceUpdate DEF VersionInv
  <2>2. \A m \in AllLists, t \in Sources : dynamic'[m][t] <= origin[t]
    BY <1>2, LoadSourceUpdate DEF VersionInv
  <2> QED
    BY <2>1, <2>2, <1>1, <1>2, LoadSourceUpdate DEF VersionInv
<1> QED
  BY <1>4, <1>5, <1>6, <1>7 DEF IInv

LEMMA NextIInv == IInv /\ [Next]_vars => IInv'
<1> SUFFICES ASSUME IInv, [Next]_vars PROVE IInv'
  OBVIOUS
<1>1. ASSUME NEW s \in Sources, Publish(s) \/ ChangeAccess(s) PROVE IInv'
  BY <1>1, PublishIInv, AccessIInv
<1>2. ASSUME NEW l \in AllLists, StartLoad(l) \/ LoadSource(l) \/ Swap(l) \/ StartRefresh(l)
      PROVE  IInv'
  BY <1>2, StartLoadIInv, LoadSourceIInv, SwapIInv, StartRefreshIInv
<1>3. ASSUME NEW l \in AllLists, NEW s \in Sources, Tick(l, s) \/ EndLoop(l, s)
      PROVE  IInv'
  BY <1>3, TickIInv
<1>4. ASSUME NEW l \in AllLists, NEW w \in Workers, NEW s \in Sources, Refreshing(l, w, s)
      PROVE  IInv'
  BY <1>4, FetchIInv, SaveCacheIInv, SetDynamicIInv DEF Refreshing
<1>5. CASE UNCHANGED vars
  BY <1>5 DEF vars, worldVars, loadVars, IInv, TypeOK, LoadInv, StageInv, VersionInv,
              Kind, Cache, Refresh
<1> QED
  BY <1>1, <1>2, <1>3, <1>4, <1>5 DEF Next

-----------------------------------------------------------------------------
(* Theorems. *)

\* The inductive invariant of the lists, their goroutines and cache files.
THEOREM ListInvariant == Spec => []IInv
  BY InitIInv, NextIInv, PTL DEF Spec

\* The types; in particular the one-time goroutine of AsyncRefresh never waits
\* for a tick.
THEOREM ListTypeCorrect == Spec => []TypeOK
  BY ListInvariant, PTL DEF IInv

\* "keeping previous list" of AsyncRefresh: whatever goroutine of whatever list
\* writes, after whatever error, what a list holds gives way only to a version
\* its origin has published; and loadSource never takes anything away.
THEOREM ListKeepsPrevious == Spec => KeepsPreviousList
<1>1. ASSUME IInv, [Next]_vars, NEW l \in AllLists, NEW s \in Sources,
             dynamic[l][s] # 0, dynamic'[l][s] # dynamic[l][s]
      PROVE  dynamic'[l][s] \in 1 .. origin[s]
  <2>1. ASSUME NEW m \in AllLists, LoadSource(m) PROVE FALSE
    <3>1. ~(l = m /\ s = next[m])
      <4>1. ~(s >= next[l]) /\ next[m] \in Nat
        BY <1>1, <2>1, EntriesAssumption DEF IInv, LoadInv, TypeOK
      <4> QED
        BY <4>1
    <3> QED
      BY <3>1, <1>1, <2>1, LoadSourceUpdate
  <2>2. ASSUME NEW m \in AllLists, NEW w \in Workers, NEW t \in Sources, SetDynamic(m, w, t)
        PROVE  dynamic'[l][s] \in 1 .. origin[s]
    <3>1. /\ work[m][w][t].got # 0 /\ work[m][w][t].got \in Versions
          /\ work[m][w][t].got <= origin[t]
      BY <1>1, <2>2 DEF SetDynamic, IInv, VersionInv, TypeOK, Worker
    <3>2. work[m][w][t].got \in Contents
      BY <3>1, VersionsAreContents
    <3>3. dynamic'[l][s] = IF l = m /\ s = t THEN work[m][w][t].got ELSE dynamic[l][s]
      BY <1>1, <2>2, <3>2, DynamicUpdate DEF SetDynamic, IInv
    <3>4. origin[t] \in Nat
      BY <1>1, EntriesAssumption DEF IInv, TypeOK, Versions
    <3> QED
      BY <1>1, <3>1, <3>3, <3>4, EntriesAssumption DEF Versions
  <2>3. CASE UNCHANGED dynamic
    BY <1>1, <2>3
  <2> QED
    BY <1>1, <2>1, <2>2, <2>3
       DEF Next, Publish, ChangeAccess, StartLoad, Swap, StartRefresh, Tick, EndLoop,
           Refreshing, Fetch, SaveCache, vars
<1>2. IInv /\ [Next]_vars =>
        [\A l \in AllLists, s \in Sources :
           dynamic[l][s] # 0 /\ dynamic'[l][s] # dynamic[l][s]
             => dynamic'[l][s] \in 1 .. origin[s]]_dynamic
  BY <1>1
<1> QED
  BY <1>2, ListInvariant, PTL DEF Spec, KeepsPreviousList

\* A reload stops the lists it replaces: of all lists that were ever built only
\* the one that is served may have a refresh loop whose context is not cancelled.
OnlyServedRefreshes ==
  \A l \in AllLists : stage[l] \in {"swapped", "running"} <=> l = served

\* Swap of server.go: the list that is taken out of service is stopped with it.
THEOREM ListOnlyServedRefreshes == Spec => []OnlyServedRefreshes
<1>1. IInv => OnlyServedRefreshes
  <2> SUFFICES ASSUME IInv, NEW l \in AllLists
               PROVE  stage[l] \in {"swapped", "running"} <=> l = served
    BY DEF OnlyServedRefreshes
  <2>1. served \in Nat /\ l \in Nat
    BY EntriesAssumption DEF IInv, TypeOK, AllLists
  <2>2. l < served \/ l = served \/ l = served + 1 \/ l > served + 1
    BY <2>1
  <2> QED
    BY <2>1, <2>2 DEF IInv, StageInv
<1> QED
  BY <1>1, ListInvariant, PTL
=============================================================================
