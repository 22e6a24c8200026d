---------------------------- MODULE ReloadProofs ----------------------------
(***************************************************************************)
(* Proofs about Reload, for every set of contents, goroutines and timers.  *)
(***************************************************************************)
EXTENDS Reload, TLAPS

\* reloadMu is held by exactly the goroutine that is inside Reload.
LockInv ==
  \A g \in Goroutines : pc[g] \in Critical <=> lock = g

\* What Reload's local variables hold at each point: until the swap oldState
\* is what is served, after it newCfg is; before the swap newCfg comes from
\* a loadable version of the file, no older than what is served.
LocalInv ==
  \A g \in Goroutines :
    /\ pc[g] \in Critical => old[g] \in State /\ old[g].gen < nextGen
    /\ pc[g] \in {"parse", "load"} => old[g] = served
    /\ pc[g] \in {"load", "stop", "start", "certs"} =>
         /\ new[g] \in State
         /\ old[g].gen < new[g].gen /\ new[g].gen < nextGen
    /\ pc[g] \in {"stop", "start", "certs"} => new[g] = served
    /\ pc[g] = "load" =>
         /\ new[g].mtime \in served.mtime .. Len(disk)
         /\ Loadable(disk[new[g].mtime])
         /\ new[g].cfg = Revert(served.cfg, disk[new[g].mtime])

\* The served state is older than the next one and than the file.
ServedInv ==
  /\ served.gen < nextGen
  /\ served.mtime \in 1 .. Len(disk)

\* Which refresh loops run at each point of a reload.
RefreshInv ==
  /\ lock = None => refreshers = RefreshersOf(served)
  /\ \A g \in Goroutines :
       /\ pc[g] \in {"parse", "load", "stop"} =>
            refreshers = RefreshersOf(old[g])
       /\ pc[g] = "start" => refreshers = {}
       /\ pc[g] = "certs" => refreshers = RefreshersOf(new[g])

IInv == TypeOK /\ LockInv /\ LocalInv /\ ServedInv /\ RefreshInv /\ NoTriggerLost

-----------------------------------------------------------------------------

\* Reverting the settings that are fixed at server start gives a configuration.
LEMMA RevertType ==
  ASSUME NEW c \in Config, NEW d \in Config
  PROVE  Revert(c, d) \in Config
BY DEF Revert, RevertVHostTLS, Config

\* The version of the file on disk is one of the contents.
LEMMA DiskType ==
  ASSUME TypeOK
  PROVE  /\ Mtime \in Nat /\ Mtime >= 1
         /\ \A v \in 1 .. Mtime : disk[v] \in Contents
BY DEF TypeOK, Mtime

\* The initial states satisfy the inductive invariant.
LEMMA InitIInv == Init => IInv
<1> SUFFICES ASSUME Init PROVE IInv
  OBVIOUS
<1> USE ContentsAssumption, NoneAssumption
<1>1. PICK c \in Contents :
        /\ Loadable(c)
        /\ disk = <<c>>
        /\ served = [gen |-> 0, mtime |-> 1, cfg |-> c]
        /\ refreshers = RefreshersOf(served)
        /\ liveCert = IF c.cert = NoCert THEN 0 ELSE 1
  BY DEF Init
<1>2. c \in Config /\ c.lists \subseteq Lists
      /\ c.tls \in [VHosts -> TLSBlocks \cup {NoTLS, Absent}]
  BY DEF Config
<1>3. served \in State /\ refreshers \subseteq Nat \X Lists
  BY <1>1, <1>2 DEF State, RefreshersOf
<1>4. disk \in Seq(Contents) /\ Len(disk) = 1
  BY <1>1
<1>5. TypeOK
  <2>1. /\ pc \in [Goroutines -> {"free", "fired", "reload"} \cup Critical]
        /\ old \in [Goroutines -> State \cup {None}]
        /\ new \in [Goroutines -> State \cup {None}]
    BY DEF Init
  <2>2. /\ exited \in BOOLEAN /\ pending \in BOOLEAN
        /\ liveCert \in Nat
    BY <1>1 DEF Init
  <2> QED
    BY <1>1, <1>2, <1>3, <1>4, <2>1, <2>2 DEF Init, TypeOK
<1>6. LockInv /\ LocalInv /\ NoTriggerLost
  BY <1>5 DEF Init, LockInv, LocalInv, NoTriggerLost, Critical
<1>7. ServedInv /\ RefreshInv
  BY <1>1, <1>4 DEF Init, ServedInv, RefreshInv
<1> QED
  BY <1>5, <1>6, <1>7 DEF IInv

-----------------------------------------------------------------------------

\* Everything a Reload works on, and the debounce.
reloadVars == <<pc, lock, localVars, served, nextGen, refreshers>>

\* A step that touches none of it, except that the file may get a new
\* version, keeps the parts of the invariant that are about it.
LEMMA FrameIInv ==
  ASSUME IInv, TypeOK', UNCHANGED reloadVars,
         disk' = disk \/ \E c \in Contents : disk' = Append(disk, c),
         NoTriggerLost'
  PROVE  IInv'
<1>1. /\ Len(disk') \in Nat /\ Len(disk') >= Len(disk) /\ Len(disk) \in Nat
      /\ \A v \in 1 .. Len(disk) : disk'[v] = disk[v]
  BY DEF IInv, TypeOK
<1>2. LockInv' /\ RefreshInv'
  BY DEF IInv, LockInv, RefreshInv, reloadVars, localVars, RefreshersOf
<1>3. ServedInv'
  BY <1>1 DEF IInv, ServedInv, reloadVars, localVars, TypeOK, State
<1>4. LocalInv'
  <2> SUFFICES ASSUME NEW g \in Goroutines
               PROVE  LocalInv!(g)'
    BY DEF LocalInv
  <2>1. LocalInv!(g)
    BY DEF IInv, LocalInv
  <2>2. CASE pc[g] = "load"
    <3>1. new[g].mtime \in 1 .. Len(disk)
      BY <2>1, <2>2 DEF IInv, ServedInv, TypeOK, State, Critical
    <3> QED
      BY <1>1, <2>1, <2>2, <3>1 DEF reloadVars, localVars, Loadable, State, IInv, TypeOK
  <2>3. CASE pc[g] # "load"
    BY <2>1, <2>3 DEF reloadVars, localVars
  <2> QED
    BY <2>2, <2>3
<1> QED
  BY <1>2, <1>3, <1>4 DEF IInv

\* One step of the administrator, the watcher or the signal goroutine, or a panic.
LEMMA OutsideIInv ==
  ASSUME IInv,
         \/ Edit \/ RotateCert \/ Signal \/ WatchStart \/ WatchTick
         \/ WatchSchedule \/ HandleSignal \/ HandleSchedule \/ Exit
         \/ \E g \in Goroutines : CompilePanics(g)
  PROVE  IInv'
<1> USE NoneAssumption DEF Critical
<1> DEFINE Frame == /\ UNCHANGED reloadVars
                    /\ disk' = disk
                    /\ UNCHANGED timerVars
<1>a. TypeOK /\ NoTriggerLost
  BY DEF IInv
<1>b. ASSUME Frame, TypeOK' PROVE IInv'
  <2>1. NoTriggerLost'
    BY <1>a, <1>b DEF NoTriggerLost, timerVars, reloadVars
  <2> QED
    BY <1>b, <2>1, FrameIInv
<1>c. ASSUME ScheduledReload, UNCHANGED reloadVars, disk' = disk, TypeOK'
      PROVE  IInv'
  <2>1. armed' # {}
    BY <1>a, <1>c DEF ScheduledReload, TypeOK
  <2>2. NoTriggerLost'
    BY <2>1 DEF NoTriggerLost
  <2> QED
    BY <1>c, <2>2, FrameIInv
<1>d. ASSUME ScheduledReload
      PROVE  /\ timer' \in Timers \cup {None} /\ armed' \subseteq Timers
             /\ pending' \in BOOLEAN
  BY <1>a, <1>d DEF ScheduledReload, TypeOK
<1>1. CASE Edit
  <2>1. PICK c \in Contents : disk' = Append(disk, c)
    BY <1>1 DEF Edit
  <2>2. disk' \in Seq(Contents) /\ Len(disk') >= 1
    BY <1>a, <2>1 DEF TypeOK
  <2>3. TypeOK'
    BY <1>a, <1>1, <2>2 DEF TypeOK, Edit, watchVars, sigVars, timerVars,
       localVars, stateVars
  <2>4. NoTriggerLost'
    BY <1>a, <1>1 DEF NoTriggerLost, Edit, timerVars
  <2>5. UNCHANGED reloadVars
    BY <1>1 DEF Edit, reloadVars, localVars, stateVars
  <2> QED
    BY <2>1, <2>3, <2>4, <2>5, FrameIInv
<1>2. CASE RotateCert
  <2>1. TypeOK'
    BY <1>a, <1>2 DEF TypeOK, RotateCert, fileVars, watchVars, sigVars,
       timerVars, localVars, stateVars
  <2>2. Frame
    BY <1>2 DEF RotateCert, reloadVars, localVars, stateVars, fileVars, timerVars
  <2> QED
    BY <1>b, <2>1, <2>2
<1>3. CASE Signal
  <2>1. TypeOK'
    BY <1>a, <1>3 DEF TypeOK, Signal, fileVars, watchVars, sigVars,
       timerVars, localVars, stateVars
  <2>2. Frame
    BY <1>3 DEF Signal, reloadVars, localVars, stateVars, fileVars, timerVars
  <2> QED
    BY <1>b, <2>1, <2>2
<1>4. CASE WatchStart
  <2>1. TypeOK'
    BY <1>a, <1>4, DiskType DEF TypeOK, WatchStart, fileVars, watchVars, sigVars,
       timerVars, localVars, stateVars
  <2>2. Frame
    BY <1>4 DEF WatchStart, reloadVars, localVars, stateVars, fileVars, timerVars
  <2> QED
    BY <1>b, <2>1, <2>2
<1>5. CASE WatchTick
  <2>1. TypeOK'
    BY <1>a, <1>5, DiskType DEF TypeOK, WatchTick, fileVars, watchVars, sigVars,
       timerVars, localVars, stateVars
  <2>2. Frame
    BY <1>5 DEF WatchTick, reloadVars, localVars, stateVars, fileVars, timerVars
  <2> QED
    BY <1>b, <2>1, <2>2
<1>6. CASE WatchSchedule
  <2>1. TypeOK'
    BY <1>a, <1>d, <1>6 DEF TypeOK, WatchSchedule, fileVars, watchVars, sigVars,
       localVars, stateVars
  <2>2. ScheduledReload /\ UNCHANGED reloadVars /\ disk' = disk
    BY <1>6 DEF WatchSchedule, reloadVars, localVars, stateVars, fileVars
  <2> QED
    BY <1>c, <2>1, <2>2
<1>7. CASE HandleSignal
  <2>1. TypeOK'
    BY <1>a, <1>7 DEF TypeOK, HandleSignal, fileVars, watchVars, sigVars,
       timerVars, localVars, stateVars
  <2>2. Frame
    BY <1>7 DEF HandleSignal, reloadVars, localVars, stateVars, fileVars, timerVars
  <2> QED
    BY <1>b, <2>1, <2>2
<1>8. CASE HandleSchedule
  <2>1. TypeOK'
    BY <1>a, <1>d, <1>8 DEF TypeOK, HandleSchedule, fileVars, watchVars, sigVars,
       localVars, stateVars
  <2>2. ScheduledReload /\ UNCHANGED reloadVars /\ disk' = disk
    BY <1>8 DEF HandleSchedule, reloadVars, localVars, stateVars, fileVars
  <2> QED
    BY <1>c, <2>1, <2>2
<1>9. CASE Exit
  <2>1. TypeOK'
    BY <1>a, <1>9 DEF TypeOK, Exit, fileVars, watchVars, sigVars,
       timerVars, localVars, stateVars
  <2>2. Frame
    BY <1>9 DEF Exit, reloadVars, localVars, stateVars, fileVars, timerVars
  <2> QED
    BY <1>b, <2>1, <2>2
<1>10. CASE \E g \in Goroutines : CompilePanics(g)
  <2>1. PICK g \in Goroutines : CompilePanics(g)
    BY <1>10
  <2>2. TypeOK'
    BY <1>a, <2>1, DiskType DEF TypeOK, CompilePanics, fileVars, watchVars, sigVars,
       timerVars, localVars, stateVars
  <2>3. Frame
    BY <2>1 DEF CompilePanics, reloadVars, localVars, stateVars, fileVars, timerVars
  <2> QED
    BY <1>b, <2>2, <2>3
<1> QED
  BY <1>1, <1>2, <1>3, <1>4, <1>5, <1>6, <1>7, <1>8, <1>9, <1>10

\* A timer fires.
LEMMA FireIInv ==
  ASSUME IInv, NEW t \in Timers, NEW g \in Goroutines, Fire(t, g)
  PROVE  IInv'
<1> USE DEF IInv, Critical
<1>1. TypeOK'
  BY DEF TypeOK, Fire, fileVars, watchVars, sigVars, localVars, stateVars
<1>2. /\ pc[g] = "free" /\ pc' = [pc EXCEPT ![g] = "fired"]
      /\ UNCHANGED <<lock, localVars, served, nextGen, refreshers, disk>>
  BY DEF Fire, localVars, stateVars, fileVars
<1>3. pc'[g] = "fired" /\ \A h \in Goroutines \ {g} : pc'[h] = pc[h]
  BY <1>2 DEF TypeOK
<1>4. LockInv'
  BY <1>2, <1>3 DEF LockInv
<1>5. LocalInv'
  BY <1>2, <1>3 DEF LocalInv, localVars
<1>6. ServedInv' /\ RefreshInv'
  BY <1>2, <1>3 DEF ServedInv, RefreshInv, RefreshersOf, localVars
<1>7. NoTriggerLost'
  BY <1>3 DEF NoTriggerLost
<1> QED
  BY <1>1, <1>4, <1>5, <1>6, <1>7

\* The callback clears the timer, or Reload drops the trigger: neither is in
\* the critical section of reloadMu, before or after.
LEMMA CallbackIInv ==
  ASSUME IInv, NEW g \in Goroutines, ClearTimer(g) \/ Drop(g)
  PROVE  IInv'
<1> USE DEF IInv, Critical
<1>1. TypeOK'
  BY DEF TypeOK, ClearTimer, Drop, fileVars, watchVars, sigVars, localVars,
     stateVars
<1>2. /\ pc[g] \in {"fired", "reload"} /\ pc'[g] \in {"reload", "free"}
      /\ \A h \in Goroutines \ {g} : pc'[h] = pc[h]
      /\ UNCHANGED <<lock, localVars, served, nextGen, refreshers, disk>>
  BY DEF TypeOK, ClearTimer, Drop, localVars, stateVars, fileVars
<1>3. LockInv'
  BY <1>2 DEF LockInv
<1>4. LocalInv'
  BY <1>2 DEF LocalInv, localVars
<1>5. ServedInv' /\ RefreshInv'
  BY <1>2 DEF ServedInv, RefreshInv, RefreshersOf, localVars
<1>6. NoTriggerLost'
  <2>1. CASE ClearTimer(g)
    <3>1. pc'[g] = "reload"
      BY <2>1 DEF ClearTimer, TypeOK
    <3> QED
      BY <3>1 DEF NoTriggerLost
  <2>2. CASE Drop(g)
    BY <2>2 DEF Drop, NoTriggerLost
  <2> QED
    BY <2>1, <2>2
<1> QED
  BY <1>1, <1>3, <1>4, <1>5, <1>6

\* Reload takes the lock and reads the running state.
LEMMA BeginIInv ==
  ASSUME IInv, NEW g \in Goroutines, Begin(g)
  PROVE  IInv'
<1> USE NoneAssumption DEF IInv, Critical
<1>1. TypeOK'
  BY DEF TypeOK, Begin, fileVars, watchVars, sigVars, stateVars
<1>2. /\ pc'[g] = "parse" /\ old'[g] = served /\ lock = None /\ lock' = g
      /\ \A h \in Goroutines \ {g} : pc'[h] = pc[h] /\ old'[h] = old[h]
      /\ UNCHANGED <<new, served, nextGen, refreshers, disk>>
  BY DEF TypeOK, Begin, stateVars, fileVars
<1>3. \A h \in Goroutines : pc[h] \notin Critical
  BY <1>2 DEF LockInv
<1>4. LockInv'
  BY <1>2, <1>3 DEF LockInv
<1>5. LocalInv'
  BY <1>2, <1>3 DEF LocalInv, ServedInv, TypeOK
<1>6. ServedInv' /\ RefreshInv'
  BY <1>2, <1>3 DEF ServedInv, RefreshInv, RefreshersOf
<1>7. NoTriggerLost'
  BY DEF Begin, NoTriggerLost
<1> QED
  BY <1>1, <1>4, <1>5, <1>6, <1>7

\* Inside Reload, no other goroutine is inside.
LEMMA OthersOutside ==
  ASSUME IInv, NEW g \in Goroutines, pc[g] \in Critical
  PROVE  lock = g /\ \A h \in Goroutines \ {g} : pc[h] \notin Critical
BY NoneAssumption DEF IInv, LockInv

\* A step inside Reload after which the goroutine still holds the lock keeps
\* NoTriggerLost and LockInv.
LEMMA InsideKeeps ==
  ASSUME IInv, NEW g \in Goroutines, pc[g] \in Critical, pc'[g] \in Critical,
         \A h \in Goroutines \ {g} : pc'[h] = pc[h],
         UNCHANGED <<lock, timerVars>>
  PROVE  LockInv' /\ NoTriggerLost'
<1>1. LockInv'
  BY OthersOutside DEF IInv, LockInv
<1>2. NoTriggerLost'
  BY DEF IInv, NoTriggerLost, timerVars, Critical
<1> QED
  BY <1>1, <1>2

\* Reload parses a loadable version of the file.
LEMMA ParseIInv ==
  ASSUME IInv, NEW g \in Goroutines, Parse(g)
  PROVE  IInv'
<1> USE DEF IInv, Critical
<1> DEFINE n == [gen |-> nextGen, mtime |-> Mtime,
                 cfg |-> Revert(old[g].cfg, disk[Mtime])]
<1>1. /\ pc[g] = "parse" /\ pc' = [pc EXCEPT ![g] = "load"]
      /\ new' = [new EXCEPT ![g] = n]
      /\ nextGen' = nextGen + 1
      /\ Loadable(disk[Mtime])
      /\ UNCHANGED <<lock, old, served, refreshers, disk, timerVars>>
  BY DEF Parse, fileVars
<1>2. old[g] = served /\ served \in State /\ served.cfg \in Config
  BY <1>1 DEF LocalInv, TypeOK, State
<1>3. /\ Mtime \in 1 .. Len(disk) /\ disk[Mtime] \in Config
      /\ Mtime \in served.mtime .. Len(disk)
  BY DiskType, ContentsAssumption DEF Mtime, ServedInv, TypeOK, State
<1>4. Revert(old[g].cfg, disk[Mtime]) \in Config
  BY <1>2, <1>3, RevertType
<1>5. n \in State /\ n.gen = nextGen /\ n.mtime = Mtime
      /\ n.cfg = Revert(served.cfg, disk[Mtime])
  BY <1>2, <1>3, <1>4 DEF State, TypeOK
<1>6. /\ pc'[g] = "load" /\ new'[g] = n
      /\ \A h \in Goroutines \ {g} : pc'[h] = pc[h] /\ new'[h] = new[h]
  BY <1>1 DEF TypeOK
<1> HIDE DEF n
<1>7. TypeOK'
  <2>1. /\ new' \in [Goroutines -> State \cup {None}]
        /\ pc' \in [Goroutines -> {"free", "fired", "reload"} \cup Critical]
        /\ nextGen' \in Nat
    BY <1>1, <1>5 DEF TypeOK
  <2>2. readMtime' \in Nat
    BY <1>3 DEF Parse, TypeOK
  <2> QED
    BY <2>1, <2>2 DEF TypeOK, Parse, fileVars, watchVars, sigVars, timerVars
<1>8. LockInv' /\ NoTriggerLost'
  BY <1>1, <1>6, InsideKeeps
<1>9. \A h \in Goroutines \ {g} : pc[h] \notin Critical
  BY <1>1, OthersOutside
<1>10. served.gen < nextGen /\ nextGen \in Nat /\ served.gen \in Nat
  BY <1>2 DEF ServedInv, TypeOK, State
<1>11. LocalInv'
  <2> SUFFICES ASSUME NEW h \in Goroutines PROVE LocalInv!(h)'
    BY DEF LocalInv
  <2>1. CASE h # g
    BY <2>1, <1>6, <1>9
  <2>2. CASE h = g
    <3>1. old'[g] = served' /\ old'[g] \in State /\ old'[g].gen < nextGen'
      BY <1>1, <1>2, <1>10
    <3>2. /\ new'[g] \in State
          /\ old'[g].gen < new'[g].gen /\ new'[g].gen < nextGen'
      BY <1>1, <1>2, <1>5, <1>6, <1>10
    <3>3. /\ new'[g].mtime \in served'.mtime .. Len(disk')
          /\ Loadable(disk'[new'[g].mtime])
          /\ new'[g].cfg = Revert(served'.cfg, disk'[new'[g].mtime])
      BY <1>1, <1>3, <1>5, <1>6
    <3> QED
      BY <2>2, <1>6, <3>1, <3>2, <3>3
  <2> QED
    BY <2>1, <2>2
<1>12. ServedInv' /\ RefreshInv'
  BY <1>1, <1>6, <1>9, <1>10, OthersOutside, NoneAssumption
     DEF ServedInv, RefreshInv, RefreshersOf
<1> QED
  BY <1>7, <1>8, <1>11, <1>12

\* The new state is served.
LEMMA SwapIInv ==
  ASSUME IInv, NEW g \in Goroutines, Swap(g)
  PROVE  IInv'
<1> USE DEF IInv, Critical
<1>1. /\ pc[g] = "load" /\ pc'[g] = "stop" /\ served' = new[g]
      /\ \A h \in Goroutines \ {g} : pc'[h] = pc[h]
      /\ UNCHANGED <<lock, localVars, nextGen, refreshers, disk, timerVars>>
  BY DEF Swap, fileVars, TypeOK
<1>2. LocalInv!(g)
  BY DEF LocalInv
<1>3. /\ new[g] \in State /\ new[g].gen < nextGen
      /\ new[g].mtime \in 1 .. Len(disk)
  BY <1>1, <1>2 DEF ServedInv, TypeOK, State
<1>4. TypeOK'
  BY <1>3 DEF TypeOK, Swap, fileVars, watchVars, sigVars, timerVars, localVars
<1>5. LockInv' /\ NoTriggerLost'
  BY <1>1, InsideKeeps
<1>6. lock = g /\ \A h \in Goroutines \ {g} : pc[h] \notin Critical
  BY <1>1, OthersOutside
<1>7. LocalInv'
  BY <1>1, <1>2, <1>6 DEF LocalInv, localVars
<1>8. ServedInv' /\ RefreshInv'
  BY <1>1, <1>3, <1>6, NoneAssumption
     DEF ServedInv, RefreshInv, RefreshersOf, localVars
<1> QED
  BY <1>4, <1>5, <1>7, <1>8

\* The loops of the old state are stopped; no other runs then.
LEMMA StopOldIInv ==
  ASSUME IInv, NEW g \in Goroutines, StopOld(g)
  PROVE  IInv'
<1> USE DEF IInv, Critical
<1>1. /\ pc[g] = "stop" /\ pc'[g] = "start"
      /\ refreshers' = refreshers \ RefreshersOf(old[g])
      /\ \A h \in Goroutines \ {g} : pc'[h] = pc[h]
      /\ UNCHANGED <<lock, localVars, served, nextGen, disk, timerVars>>
  BY DEF StopOld, fileVars, TypeOK
<1>2. refreshers' = {}
  BY <1>1 DEF RefreshInv
<1>3. TypeOK'
  BY <1>2 DEF TypeOK, StopOld, fileVars, watchVars, sigVars, timerVars,
     localVars
<1>4. LockInv' /\ NoTriggerLost'
  BY <1>1, InsideKeeps
<1>5. lock = g /\ \A h \in Goroutines \ {g} : pc[h] \notin Critical
  BY <1>1, OthersOutside
<1>6. LocalInv'
  BY <1>1, <1>5 DEF LocalInv, localVars
<1>7. ServedInv' /\ RefreshInv'
  BY <1>1, <1>2, <1>5, NoneAssumption DEF ServedInv, RefreshInv
<1> QED
  BY <1>3, <1>4, <1>6, <1>7

\* The loops of the new state, which is the served one, are started.
LEMMA StartNewIInv ==
  ASSUME IInv, NEW g \in Goroutines, StartNew(g)
  PROVE  IInv'
<1> USE DEF IInv, Critical
<1>1. /\ pc[g] = "start" /\ pc'[g] = "certs"
      /\ refreshers' = refreshers \cup RefreshersOf(new[g])
      /\ \A h \in Goroutines \ {g} : pc'[h] = pc[h]
      /\ UNCHANGED <<lock, localVars, served, nextGen, disk, timerVars>>
  BY DEF StartNew, fileVars, TypeOK
<1>2. new[g] \in State /\ refreshers' = RefreshersOf(new[g])
  BY <1>1 DEF RefreshInv, LocalInv
<1>3. RefreshersOf(new[g]) \subseteq Nat \X Lists
  BY <1>2 DEF State, Config, RefreshersOf
<1>4. TypeOK'
  BY <1>2, <1>3 DEF TypeOK, StartNew, fileVars, watchVars, sigVars,
     timerVars, localVars
<1>5. LockInv' /\ NoTriggerLost'
  BY <1>1, InsideKeeps
<1>6. lock = g /\ \A h \in Goroutines \ {g} : pc[h] \notin Critical
  BY <1>1, OthersOutside
<1>7. LocalInv'
  BY <1>1, <1>6 DEF LocalInv, localVars
<1>8. ServedInv' /\ RefreshInv'
  BY <1>1, <1>2, <1>6, NoneAssumption
     DEF ServedInv, RefreshInv, RefreshersOf, localVars
<1> QED
  BY <1>4, <1>5, <1>7, <1>8

\* Reload returns, early or at its end, and the lock is free.
LEMMA ReturnIInv ==
  ASSUME IInv, NEW g \in Goroutines,
         NoConfig(g) \/ Reject(g) \/ ReloadCert(g)
  PROVE  IInv'
<1> USE NoneAssumption DEF IInv, Critical
<1>1. /\ pc[g] \in {"parse", "certs"}
      /\ Return(g)
      /\ UNCHANGED <<served, nextGen, refreshers, disk, timerVars>>
  BY DEF NoConfig, Reject, ReloadCert, stateVars, fileVars
<1>2. /\ pc'[g] = "free" /\ lock' = None
      /\ \A h \in Goroutines \ {g} :
           pc'[h] = pc[h] /\ old'[h] = old[h] /\ new'[h] = new[h]
  BY <1>1 DEF Return, TypeOK
<1>3. lock = g /\ \A h \in Goroutines \ {g} : pc[h] \notin Critical
  BY <1>1, OthersOutside
<1>4. TypeOK'
  <2>1. /\ pc' \in [Goroutines -> {"free", "fired", "reload"} \cup Critical]
        /\ old' \in [Goroutines -> State \cup {None}]
        /\ new' \in [Goroutines -> State \cup {None}]
        /\ lock' \in Goroutines \cup {None}
    BY <1>1 DEF Return, TypeOK
  <2>2. /\ liveCert' \in Nat /\ readMtime' \in Nat
        /\ exited' = exited
        /\ UNCHANGED <<fileVars, watchVars, sigVars, timerVars>>
    BY DiskType DEF TypeOK, NoConfig, Reject, ReloadCert, stateVars
  <2> QED
    BY <1>1, <2>1, <2>2 DEF TypeOK, fileVars, watchVars, sigVars, timerVars
<1>5. LockInv'
  BY <1>2, <1>3 DEF LockInv
<1>6. LocalInv'
  BY <1>2, <1>3 DEF LocalInv
<1>7. RefreshersOf(served) = refreshers
  BY <1>1 DEF RefreshInv, LocalInv
<1>8. ServedInv' /\ RefreshInv'
  BY <1>1, <1>2, <1>3, <1>7 DEF ServedInv, RefreshInv, RefreshersOf
<1>9. NoTriggerLost'
  BY <1>1, <1>2, <1>3 DEF NoTriggerLost, timerVars
<1> QED
  BY <1>4, <1>5, <1>6, <1>8, <1>9

-----------------------------------------------------------------------------

\* Every step of the system keeps the inductive invariant.
LEMMA NextIInv ==
  ASSUME IInv, [Next]_vars
  PROVE  IInv'
<1>1. CASE \/ Edit \/ RotateCert \/ Signal \/ WatchStart \/ WatchTick
           \/ WatchSchedule \/ HandleSignal \/ HandleSchedule \/ Exit
  BY <1>1, OutsideIInv
<1>2. CASE \E t \in Timers, g \in Goroutines : Fire(t, g)
  BY <1>2, FireIInv
<1>3. CASE \E g \in Goroutines : Step(g)
  BY <1>3, OutsideIInv, CallbackIInv, BeginIInv, ParseIInv, SwapIInv, StopOldIInv,
     StartNewIInv, ReturnIInv DEF Step
<1>4. CASE UNCHANGED vars
  <2>1. TypeOK'
    BY <1>4 DEF IInv, TypeOK, vars, fileVars, watchVars, sigVars, timerVars,
       localVars, stateVars
  <2>2. NoTriggerLost' /\ disk' = disk
    BY <1>4 DEF IInv, NoTriggerLost, vars, timerVars, fileVars
  <2>3. UNCHANGED reloadVars
    BY <1>4 DEF vars, reloadVars, stateVars
  <2> QED
    BY <2>1, <2>2, <2>3, FrameIInv
<1> QED
  BY <1>1, <1>2, <1>3, <1>4 DEF Next, Ended

\* The inductive invariant holds in every reachable state.
THEOREM ReloadInvariant == Spec => []IInv
<1>1. Init => IInv
  BY InitIInv
<1>2. IInv /\ [Next]_vars => IInv'
  BY NextIInv
<1> QED
  BY <1>1, <1>2, PTL DEF Spec

\* Every variable of the model keeps its type.
THEOREM ReloadTypeCorrect == Spec => []TypeOK
<1>1. IInv => TypeOK
  BY DEF IInv
<1> QED
  BY <1>1, ReloadInvariant, PTL

\* scheduledReload loses no trigger, for any number of timers, callbacks and
\* triggers and however Reset races with the expiry of a timer.
THEOREM ReloadNoTriggerLost == Spec => []NoTriggerLost
<1>1. IInv => NoTriggerLost
  BY DEF IInv
<1> QED
  BY <1>1, ReloadInvariant, PTL

\* Outside a reload exactly the served state's lists are refreshed, and in one
\* only those of the states before and after it.
THEOREM ReloadRefreshersMatch == Spec => []RefreshersMatchServed
<1>1. IInv => RefreshersMatchServed
  <2> SUFFICES ASSUME IInv PROVE RefreshersMatchServed
    OBVIOUS
  <2>1. lock = None => refreshers = RefreshersOf(served)
    BY DEF IInv, RefreshInv
  <2>2. ASSUME NEW g \in Goroutines, pc[g] \in Critical
        PROVE  refreshers \subseteq RefreshersOf(old[g]) \cup RefreshersOf(served)
    BY <2>2 DEF IInv, RefreshInv, LocalInv, Critical
  <2> QED
    BY <2>1, <2>2 DEF RefreshersMatchServed
<1> QED
  BY <1>1, ReloadInvariant, PTL

-----------------------------------------------------------------------------

\* Only the swap of a reload changes what is served.
LEMMA OnlySwapServes ==
  ASSUME [Next]_vars, served' # served
  PROVE  \E g \in Goroutines : Swap(g)
BY DEF Next, Step, vars, stateVars, Edit, RotateCert, Signal, WatchStart,
   WatchTick, WatchSchedule, HandleSignal, HandleSchedule, Exit, Fire,
   ClearTimer, Drop, Begin, NoConfig, Reject, CompilePanics, Parse, StopOld, StartNew,
   ReloadCert, Ended

\* What a swap installs: a loadable version of the file that is no older
\* than the one in force, with the fixed settings of the latter.
LEMMA SwapInstalls ==
  ASSUME IInv, NEW g \in Goroutines, Swap(g)
  PROVE  \E v \in served.mtime .. Len(disk) :
           /\ Loadable(disk[v])
           /\ served'.mtime = v
           /\ served'.cfg = Revert(served.cfg, disk[v])
<1>1. pc[g] = "load" /\ served' = new[g]
  BY DEF Swap
<1> QED
  BY <1>1 DEF IInv, LocalInv

\* Revert takes over what is fixed at server start.
LEMMA RevertKeeps ==
  ASSUME NEW c \in Config, NEW d \in Config
  PROVE  /\ Revert(c, d).addr = c.addr
         /\ Revert(c, d).cert = c.cert
         /\ Revert(c, d).acme = c.acme
         /\ \A v \in VHosts : c.tls[v] # Absent /\ Revert(c, d).tls[v] # Absent
                                => Revert(c, d).tls[v] = c.tls[v]
BY DEF Revert, RevertVHostTLS, AcmeConfigChanged, Config

\* A reload never installs an older version of the file over a newer one.
THEOREM ReloadServedMovesForward == Spec => ServedMovesForward
<1>1. IInv /\ [Next]_vars => [served'.mtime >= served.mtime]_served
  <2> SUFFICES ASSUME IInv, [Next]_vars, served' # served
               PROVE  served'.mtime >= served.mtime
    OBVIOUS
  <2> QED
    BY OnlySwapServes, SwapInstalls DEF IInv, TypeOK, State
<1> QED
  BY <1>1, ReloadInvariant, PTL DEF Spec, ServedMovesForward

\* No sequence of reloads changes a setting that is fixed at server start.
THEOREM ReloadStartSettingsKept == Spec => StartSettingsKept
<1> DEFINE Kept ==
      /\ served'.cfg.addr = served.cfg.addr
      /\ served'.cfg.cert = served.cfg.cert
      /\ served'.cfg.acme = served.cfg.acme
      /\ \A v \in VHosts :
           served.cfg.tls[v] # Absent /\ served'.cfg.tls[v] # Absent =>
             served'.cfg.tls[v] = served.cfg.tls[v]
<1>1. IInv /\ [Next]_vars => [Kept]_served
  <2> SUFFICES ASSUME IInv, [Next]_vars, served' # served
               PROVE  Kept
    OBVIOUS
  <2>1. PICK v \in served.mtime .. Len(disk) :
          served'.cfg = Revert(served.cfg, disk[v])
    BY OnlySwapServes, SwapInstalls
  <2>2. served.cfg \in Config /\ v \in 1 .. Len(disk)
    BY <2>1 DEF IInv, TypeOK, State, ServedInv
  <2>3. disk[v] \in Config
    BY <2>2, ContentsAssumption DEF IInv, TypeOK
  <2> QED
    BY <2>1, <2>2, <2>3, RevertKeeps
<1> QED
  BY <1>1, ReloadInvariant, PTL DEF Spec, StartSettingsKept

-----------------------------------------------------------------------------

\* The file only ever gets new versions, and no step both writes it and swaps.
LEMMA OnlyEditWrites ==
  ASSUME [Next]_vars
  PROVE  UNCHANGED disk \/ (UNCHANGED served /\ Edit)
BY DEF Next, Step, vars, fileVars, stateVars, Edit, RotateCert, Signal,
   WatchStart, WatchTick, WatchSchedule, HandleSignal, HandleSchedule, Exit,
   Fire, ClearTimer, Drop, Begin, NoConfig, Reject, CompilePanics, Parse, Swap, StopOld,
   StartNew, ReloadCert, Ended

\* Reload implements ConfigService.
THEOREM ReloadImplementsConfigService == Spec => ImplementsConfigService
<1> USE DEF Service!csVars
<1>1. Init => Service!CSInit
  BY DEF Init, Service!CSInit, Service!Loadable, Loadable
<1>2. IInv /\ [Next]_vars => [Service!CSNext]_(Service!csVars)
  <2> SUFFICES ASSUME IInv, [Next]_vars
               PROVE  [Service!CSNext]_(Service!csVars)
    OBVIOUS
  <2>1. CASE disk' # disk
    <3>1. Service!Write
      BY <2>1, OnlyEditWrites DEF Edit, Service!Write
    <3> QED
      BY <3>1 DEF Service!CSNext
  <2>2. CASE disk' = disk /\ served' # served
    <3>1. PICK v \in served.mtime .. Len(disk) :
            /\ Loadable(disk[v])
            /\ served'.mtime = v
            /\ served'.cfg = Revert(served.cfg, disk[v])
      BY <2>2, OnlySwapServes, SwapInstalls
    <3>2. Service!Install
      BY <2>2, <3>1 DEF Service!Install, Service!Loadable, Loadable,
         Service!Revert, Revert, Service!RevertVHostTLS, RevertVHostTLS,
         Service!AcmeConfigChanged, AcmeConfigChanged
    <3> QED
      BY <3>2 DEF Service!CSNext
  <2>3. CASE disk' = disk /\ served' = served
    BY <2>3
  <2> QED
    BY <2>1, <2>2, <2>3
<1> QED
  BY <1>1, <1>2, ReloadInvariant, PTL
     DEF Spec, ImplementsConfigService, Service!CSSpec
-----------------------------------------------------------------------------

\* The certificate that handshakes get is no newer than the files, and while
\* the two files do not match the next version of both will be newer.
CertInv ==
  IF certFile # 0 THEN liveCert <= certFile /\ certFile <= rotations + 1
                  ELSE liveCert <= rotations

\* Only a replacement of the files and reloadCert have to do with them.
LEMMA OtherStepsKeepCert ==
  ASSUME [Next]_vars, ~RotateCert, \A g \in Goroutines : ~ReloadCert(g)
  PROVE  UNCHANGED <<liveCert, certFile, rotations>>
BY DEF Next, Step, vars, fileVars, stateVars, Edit, Signal, WatchStart,
   WatchTick, WatchSchedule, HandleSignal, HandleSchedule, Exit, Fire,
   ClearTimer, Drop, Begin, NoConfig, Reject, CompilePanics, Parse, Swap,
   StopOld, StartNew, Ended

\* A replacement of one of the two files.
LEMMA RotateCertInv ==
  ASSUME TypeOK, CertInv, RotateCert
  PROVE  CertInv' /\ UNCHANGED liveCert
<1>1. /\ certFile \in Nat /\ rotations \in Nat /\ liveCert \in Nat
      /\ rotations' = rotations + 1 /\ liveCert' = liveCert
      /\ certFile' = IF certFile = 0 THEN rotations' ELSE 0
  BY DEF TypeOK, RotateCert, stateVars
<1> QED
  BY <1>1 DEF CertInv

\* reloadCert takes the files only when they match and the configuration in
\* force has a certificate.
LEMMA ReloadCertInv ==
  ASSUME IInv, CertInv, NEW g \in Goroutines, ReloadCert(g)
  PROVE  /\ CertInv'
         /\ liveCert' # liveCert => liveCert' > liveCert /\ served.cfg.cert # NoCert
<1>1. /\ certFile \in Nat /\ rotations \in Nat /\ liveCert \in Nat
      /\ certFile' = certFile /\ rotations' = rotations
  BY DEF IInv, TypeOK, ReloadCert, fileVars
<1>2. new[g] = served
  BY DEF IInv, LocalInv, ReloadCert
<1>3. \/ liveCert' = certFile /\ certFile # 0 /\ served.cfg.cert # NoCert
      \/ liveCert' = liveCert
  BY <1>2 DEF ReloadCert
<1> QED
  BY <1>1, <1>3 DEF CertInv

\* Handshakes never get a certificate that is older than the one they had, or
\* that does not match its key, whatever is replaced while a reload runs.
THEOREM ReloadLiveCertUsable == Spec => LiveCertUsable
<1>1. Init => CertInv
  BY DEF Init, CertInv
<1>2. IInv /\ CertInv /\ [Next]_vars =>
        CertInv' /\ [liveCert' > liveCert /\ served.cfg.cert # NoCert]_liveCert
  <2> SUFFICES ASSUME IInv, CertInv, [Next]_vars
               PROVE  /\ CertInv'
                      /\ [liveCert' > liveCert /\ served.cfg.cert # NoCert]_liveCert
    OBVIOUS
  <2>1. CASE RotateCert
    BY <2>1, RotateCertInv DEF IInv
  <2>2. ASSUME NEW g \in Goroutines, ReloadCert(g)
        PROVE  /\ CertInv'
               /\ [liveCert' > liveCert /\ served.cfg.cert # NoCert]_liveCert
    BY <2>2, ReloadCertInv
  <2>3. CASE UNCHANGED <<liveCert, certFile, rotations>>
    BY <2>3 DEF CertInv
  <2> QED
    BY <2>1, <2>2, <2>3, OtherStepsKeepCert
<1> QED
  BY <1>1, <1>2, ReloadInvariant, PTL DEF Spec, LiveCertUsable
=============================================================================
