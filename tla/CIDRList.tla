------------------------------ MODULE CIDRList ------------------------------
(***************************************************************************)
(* The refreshable lists of networks behind ip-filter and trusted-proxies  *)
(* (ipfilter.go), and how newServer and Reload load, serve, stop and start *)
(* them (server.go).                                                       *)
(*                                                                         *)
(* Every reload builds a new list object from the same entries: list l is  *)
(* the one of the l-th configuration.  The objects share the origins (the  *)
(* files and URLs) and the cache files.  The networks a source gives are   *)
(* abstracted to the version of its origin they were read from.  A version *)
(* is whatever parseCIDRLines makes of that file or page without an error, *)
(* which is no networks for a page of junk or an empty file; nothing in    *)
(* this part of the code looks at how many there are.  0 stands for none   *)
(* loaded, Torn for what a cache file holds that was not written whole.    *)
(* cl.nets is rebuilt under the lock whenever dynamic changes, so it       *)
(* carries no state of its own.                                            *)
(***************************************************************************)
EXTENDS Integers

CONSTANTS
  NumSources,   \* how many entries a list has
  Entries,      \* the lists of entries a configuration may have
  NumLists,     \* bound: how many configurations are loaded
  MaxVersion    \* bound: how often an origin changes

Sources == 1 .. NumSources
AllLists == 1 .. NumLists
Versions == 0 .. MaxVersion
Torn == -1
Contents == Torn .. MaxVersion
Workers == {"once", "loop"}

\* An entry as parseFilterEntry accepts it: cache= needs a URL, refresh= a file
\* or a URL.
Entry == {e \in [kind: {"cidr", "file", "url"}, cache: BOOLEAN, refresh: BOOLEAN] :
            (e.cache => e.kind = "url") /\ (e.refresh => e.kind # "cidr")}

ASSUME EntriesAssumption ==
  /\ NumSources \in Nat /\ NumLists \in Nat \ {0} /\ MaxVersion \in Nat \ {0}
  /\ Entries \subseteq [Sources -> Entry]

VARIABLES
  entry,      \* the entries of the lists; never changes
  origin,     \* the version the file or URL has
  access,     \* "ok"; "fails": open or GET fails; "gone": stat fails too
  cacheFile,  \* what the cache file holds, 0 when none can be read
  stage,      \* how far each list is
  next,       \* the source each list loads next
  dynamic,    \* list -> source -> what it holds from it
  work,       \* list -> worker -> source -> [pc, got]
  lastMtime,  \* list -> source -> lastMtime of the refresh loop
  served      \* the list requests are checked against, 0 before the first

worldVars == <<entry, origin, access>>
loadVars  == <<stage, next, served>>
vars == <<worldVars, loadVars, cacheFile, dynamic, work, lastMtime>>

Kind(s)    == entry[s].kind
Cache(s)   == entry[s].cache
Refresh(s) == entry[s].refresh

Worker == [pc: {"none", "idle", "fetch", "cache", "set", "done"}, got: Versions]
NoWorker == [pc |-> "none", got |-> 0]

TypeOK ==
  /\ entry \in Entries
  /\ origin \in [Sources -> Versions]
  /\ access \in [Sources -> {"ok", "fails", "gone"}]
  /\ cacheFile \in [Sources -> Contents]
  /\ stage \in [AllLists -> {"none", "loading", "swapped", "running", "stopped"}]
  /\ next \in [AllLists -> 1 .. NumSources + 1]
  /\ dynamic \in [AllLists -> [Sources -> Contents]]
  /\ work \in [AllLists -> [Workers -> [Sources -> Worker]]]
  /\ \A l \in AllLists, s \in Sources : work[l]["once"][s].pc # "idle"
  /\ lastMtime \in [AllLists -> [Sources -> Versions]]
  /\ served \in 0 .. NumLists

\* The program starts; a cache file may be left from an earlier run.
Init ==
  /\ entry \in Entries
  /\ origin = [s \in Sources |-> 1]
  /\ access \in [Sources -> {"ok", "fails"}]
  /\ cacheFile \in {f \in [Sources -> Torn .. 1] :
                      \A s \in Sources : f[s] # 0 => Cache(s)}
  /\ stage = [l \in AllLists |-> "none"]
  /\ next = [l \in AllLists |-> 1]
  /\ dynamic = [l \in AllLists |-> [s \in Sources |-> 0]]
  /\ work = [l \in AllLists |-> [w \in Workers |-> [s \in Sources |-> NoWorker]]]
  /\ lastMtime = [l \in AllLists |-> [s \in Sources |-> 0]]
  /\ served = 0

-----------------------------------------------------------------------------
(* The outside world. *)

Publish(s) ==
  /\ Kind(s) # "cidr" /\ origin[s] < MaxVersion
  /\ origin' = [origin EXCEPT ![s] = @ + 1]
  /\ UNCHANGED <<entry, access, loadVars, cacheFile, dynamic, work, lastMtime>>

ChangeAccess(s) ==
  /\ Kind(s) # "cidr"
  /\ \E a \in {"ok", "fails", "gone"} \ {access[s]} :
       /\ a = "gone" => Kind(s) = "file"
       /\ access' = [access EXCEPT ![s] = a]
  /\ UNCHANGED <<entry, origin, loadVars, cacheFile, dynamic, work, lastMtime>>

-----------------------------------------------------------------------------
(* newServer and Reload. *)

\* Load is called on the list of the next configuration.
StartLoad(l) ==
  /\ stage[l] = "none"
  /\ IF l = 1 THEN TRUE ELSE stage[l - 1] = "running"
  /\ stage' = [stage EXCEPT ![l] = "loading"]
  /\ UNCHANGED <<worldVars, next, served, cacheFile, dynamic, work, lastMtime>>

\* writeCacheFile: the rename is atomic and a failure of it is only logged; the
\* errors of Fprintln are ignored, so that on a full disk a file that is cut
\* short or empty takes the place of the cache.
WriteCacheFile(s, v) ==
  \/ Cache(s) /\ \E c \in {v, Torn} : cacheFile' = [cacheFile EXCEPT ![s] = c]
  \/ UNCHANGED cacheFile

\* AsyncRefresh: nothing is started for a source without refresh=.
AsyncRefresh(W, S, w, pc) ==
  [W EXCEPT ![w] = [s \in Sources |->
     IF s \in S /\ Kind(s) # "cidr" /\ Refresh(s)
       THEN [pc |-> pc, got |-> 0] ELSE W[w][s]]]

\* loadSource and setDynamic for the next source of list l.  A cache file is
\* used at once and refreshed in the background; otherwise the source is read
\* here, and a failure leaves it without networks.
LoadSource(l) ==
  /\ stage[l] = "loading" /\ next[l] <= NumSources
  /\ next' = [next EXCEPT ![l] = @ + 1]
  /\ LET s == next[l]
     IN  \/ /\ Kind(s) = "cidr"
            /\ UNCHANGED <<cacheFile, dynamic, work>>
         \/ /\ Cache(s) /\ cacheFile[s] # 0
            /\ dynamic' = [dynamic EXCEPT ![l][s] = cacheFile[s]]
            /\ work' = [work EXCEPT ![l] = AsyncRefresh(@, {s}, "once", "fetch")]
            /\ UNCHANGED cacheFile
         \/ /\ Kind(s) # "cidr" /\ cacheFile[s] = 0 /\ access[s] = "ok"
            /\ dynamic' = [dynamic EXCEPT ![l][s] = origin[s]]
            /\ WriteCacheFile(s, origin[s])
            /\ UNCHANGED work
         \/ /\ Kind(s) # "cidr" /\ cacheFile[s] = 0 /\ access[s] # "ok"
            /\ dynamic' = [dynamic EXCEPT ![l][s] = 0]
            /\ UNCHANGED <<cacheFile, work>>
  /\ UNCHANGED <<worldVars, stage, served, lastMtime>>

\* Seeded fault of Swap: the list that is replaced is not stopped.
SwapWithoutStop(l) ==
  /\ stage[l] = "loading" /\ next[l] > NumSources
  /\ served' = l
  /\ stage' = [stage EXCEPT ![l] = "swapped"]
  /\ UNCHANGED <<worldVars, next, cacheFile, dynamic, work, lastMtime>>

\* Load has returned: the list is served and the one before it is stopped.
Swap(l) ==
  /\ stage[l] = "loading" /\ next[l] > NumSources
  /\ served' = l
  /\ stage' = [m \in AllLists |-> CASE m = l     -> "swapped"
                                    [] m = l - 1 -> "stopped"
                                    [] OTHER     -> stage[m]]
  /\ UNCHANGED <<worldVars, next, cacheFile, dynamic, work, lastMtime>>

StartRefresh(l) ==
  /\ stage[l] = "swapped"
  /\ stage' = [stage EXCEPT ![l] = "running"]
  /\ work' = [work EXCEPT ![l] = AsyncRefresh(@, Sources, "loop", "idle")]
  /\ UNCHANGED <<worldVars, next, served, cacheFile, dynamic, lastMtime>>

-----------------------------------------------------------------------------
(* The background goroutines of a list. *)

Goto(l, w, s, pc) == work' = [work EXCEPT ![l][w][s].pc = pc]

\* Seeded fault of After: the one-time goroutine does not return.
AfterLoops(w) == "idle"

\* What a goroutine does after a fetch: the loop waits for the next tick.
After(w) == IF w = "loop" THEN "idle" ELSE "done"

\* Seeded fault of Tick: a URL is only fetched when it is newer than at the
\* last tick, whether or not that fetch succeeded.
TickConditional(l, s) ==
  /\ work[l]["loop"][s].pc = "idle"
  /\ origin[s] > lastMtime[l][s]
  /\ lastMtime' = [lastMtime EXCEPT ![l][s] = origin[s]]
  /\ Goto(l, "loop", s, "fetch")
  /\ UNCHANGED <<worldVars, loadVars, cacheFile, dynamic>>

\* Seeded fault of Tick: a file is read at the first tick only.
TickOnce(l, s) ==
  /\ work[l]["loop"][s].pc = "idle"
  /\ Kind(s) = "file" => access[s] # "gone" /\ lastMtime[l][s] = 0
  /\ lastMtime' = [lastMtime EXCEPT ![l][s] = origin[s]]
  /\ Goto(l, "loop", s, "fetch")
  /\ UNCHANGED <<worldVars, loadVars, cacheFile, dynamic>>

\* A tick of the refresh loop.  A file is only read when stat shows a newer
\* mtime, which is remembered before the file is read.  After Stop a tick that
\* is ready together with ctx.Done() may still be taken.
Tick(l, s) ==
  /\ work[l]["loop"][s].pc = "idle"
  /\ \/ /\ Kind(s) = "url"
        /\ UNCHANGED lastMtime
     \/ /\ Kind(s) = "file"
        /\ access[s] # "gone" /\ origin[s] > lastMtime[l][s]
        /\ lastMtime' = [lastMtime EXCEPT ![l][s] = origin[s]]
  /\ Goto(l, "loop", s, "fetch")
  /\ UNCHANGED <<worldVars, loadVars, cacheFile, dynamic>>

\* The loop sees that Stop cancelled its context.
EndLoop(l, s) ==
  /\ work[l]["loop"][s].pc = "idle" /\ stage[l] = "stopped"
  /\ Goto(l, "loop", s, "done")
  /\ UNCHANGED <<worldVars, loadVars, cacheFile, dynamic, lastMtime>>

\* Seeded fault of Fetch: a read that fails gives no networks.
FetchIgnoresError(l, w, s) ==
  /\ work[l][w][s].pc = "fetch"
  /\ work' = [work EXCEPT ![l][w][s] =
                [pc |-> "set", got |-> IF access[s] = "ok" THEN origin[s] ELSE 0]]
  /\ UNCHANGED <<worldVars, loadVars, cacheFile, dynamic, lastMtime>>

\* refreshFromSource reads the file or the URL; lines that are no networks are
\* skipped without an error.
Fetch(l, w, s) ==
  /\ work[l][w][s].pc = "fetch"
  /\ IF access[s] = "ok"
       THEN work' = [work EXCEPT ![l][w][s] =
                       [pc |-> IF Cache(s) THEN "cache" ELSE "set",
                        got |-> origin[s]]]
       ELSE Goto(l, w, s, After(w))
  /\ UNCHANGED <<worldVars, loadVars, cacheFile, dynamic, lastMtime>>

\* refreshFromSource writes the cache file.
SaveCache(l, w, s) ==
  /\ work[l][w][s].pc = "cache"
  /\ WriteCacheFile(s, work[l][w][s].got)
  /\ Goto(l, w, s, "set")
  /\ UNCHANGED <<worldVars, loadVars, dynamic, lastMtime>>

SetDynamic(l, w, s) ==
  /\ work[l][w][s].pc = "set"
  /\ dynamic' = [dynamic EXCEPT ![l][s] = work[l][w][s].got]
  /\ work' = [work EXCEPT ![l][w][s] = [pc |-> After(w), got |-> 0]]
  /\ UNCHANGED <<worldVars, loadVars, cacheFile, lastMtime>>

Refreshing(l, w, s) == Fetch(l, w, s) \/ SaveCache(l, w, s) \/ SetDynamic(l, w, s)

Next ==
  \/ \E s \in Sources : Publish(s) \/ ChangeAccess(s)
  \/ \E l \in AllLists : StartLoad(l) \/ LoadSource(l) \/ Swap(l) \/ StartRefresh(l)
  \/ \E l \in AllLists, s \in Sources : Tick(l, s) \/ EndLoop(l, s)
  \/ \E l \in AllLists, w \in Workers, s \in Sources : Refreshing(l, w, s)

Spec == Init /\ [][Next]_vars

\* A started load goes on (every fetch has a timeout), tickers tick and
\* goroutines run.  select picks among ready cases at random, so a loop whose
\* context is cancelled ends after some tick.  Reloads and the origins owe
\* nothing.
Fairness ==
  /\ \A l \in AllLists : WF_vars(LoadSource(l) \/ Swap(l) \/ StartRefresh(l))
  /\ \A l \in AllLists, s \in Sources :
       WF_vars(Tick(l, s)) /\ SF_vars(EndLoop(l, s))
  /\ \A l \in AllLists, w \in Workers, s \in Sources : WF_vars(Refreshing(l, w, s))

FairSpec == Spec /\ Fairness

-----------------------------------------------------------------------------
(* Properties. *)

\* "keeping previous list" of AsyncRefresh: what a list holds from a source
\* gives way only to a version the origin has published.  No reported error
\* empties it, and a cache file that is torn is never read back into it.
KeepsPreviousList ==
  [][\A l \in AllLists, s \in Sources :
       dynamic[l][s] # 0 /\ dynamic'[l][s] # dynamic[l][s]
         => dynamic'[l][s] \in 1 .. origin[s]]_dynamic

\* A list that was replaced by a reload is left alone after a while: all its
\* goroutines end.
StoppedListsEnd ==
  \A l \in AllLists, w \in Workers, s \in Sources :
    (l < served) ~> work[l][w][s].pc \in {"none", "done"}

\* A URL with refresh= that is reachable from some time on ends up in the
\* served list in its current version, whatever cache file, one-time fetch,
\* reload or slow fetch of a replaced list came before.
RefreshedUrlConverges ==
  \A s \in Sources :
    Kind(s) = "url" /\ Refresh(s) =>
      ((<>[](access[s] = "ok") /\ <>(served # 0))
         => <>[](served # 0 => dynamic[served][s] = origin[s]))

\* The same for a file with refresh=, as long as it can always be read: the
\* loop remembers the mtime before it reads the file and does not come back to
\* a version it failed to read.
RefreshedFileConverges ==
  \A s \in Sources :
    Kind(s) = "file" /\ Refresh(s) =>
      (([](access[s] = "ok") /\ <>(served # 0))
         => <>[](served # 0 => dynamic[served][s] = origin[s]))

\* README.md:307: "While reloading, if any error is encountered, then RouteMUX
\* will report and continue to run with previous working version of the
\* configuration": a reload whose list cannot be loaded replaces no list.
FailedLoadKeepsOld ==
  [][\A s \in Sources :
       served # 0 /\ served' # served /\ dynamic[served][s] # 0
         => dynamic'[served'][s] # 0]_served
=============================================================================
