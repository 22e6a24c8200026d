------------------------------- MODULE Reload -------------------------------
(***************************************************************************)
(* Hot reload of RouteMUX (server.go, server_unix.go).                     *)
(*                                                                         *)
(* Actors: the administrator (edits the file, replaces the certificate,    *)
(* sends signals), the file watcher of run(), the signal goroutine of      *)
(* setupSignals, the runtime's timers, and the goroutines that timers      *)
(* start, which run the callback of scheduledReload and then Reload.       *)
(*                                                                         *)
(* A critical section under timerMu is one step.  Reload is split where    *)
(* another actor can see a difference: TryLock, the read of the file, the  *)
(* load of the lists (seconds, when one comes from a URL) with the swap,   *)
(* Stop, StartRefresh, and the certificate with the unlock.                *)
(***************************************************************************)
EXTENDS ConfigData, Integers, Sequences, FiniteSets

CONSTANTS
  Goroutines,     \* the goroutines timer callbacks run on
  Timers,         \* the time.Timer objects of scheduledReload
  None,           \* the nil pointer
  MaxEdits,       \* bound: how often the file changes
  MaxRotations,   \* bound: how often the certificate files change
  MaxSignals      \* bound: how many signals are sent

ASSUME NoneAssumption == None \notin Goroutines \cup Timers
ASSUME BoundsAssumption ==
  /\ MaxEdits \in Nat /\ MaxRotations \in Nat /\ MaxSignals \in Nat

VARIABLES
  hasConfig,  \* ConfigPath is not empty; never changes
  disk,       \* the versions the file has had; the length is its mtime
  certFile,   \* version of the certificate files; 0: they do not match
  rotations,  \* how often they changed
  lastMtime,  \* the watcher's lastMtime
  watcher,    \* "off" before its first stat, "idle" between ticks, "sched"
  sigChan,    \* sigChan, a channel of capacity 1
  handler,    \* the signal goroutine
  signals,    \* how many signals were sent
  timer,      \* s.reloadTimer
  armed,      \* the timers that will fire
  pc,         \* where each callback goroutine is
  old,        \* Reload's oldState
  new,        \* Reload's newCfg
  lock,       \* the owner of reloadMu
  served,     \* s.state
  nextGen,    \* identity of the next state to be built
  refreshers, \* the lists whose background refresh runs, with their state
  liveCert,   \* the certificate handshakes get (globalCert or SNI fallback)
  exited,     \* the process has ended
  pending,    \* history: a trigger was accepted and no Reload began since
  readMtime   \* history: the newest mtime a Reload has read

fileVars  == <<hasConfig, disk, certFile, rotations>>
watchVars == <<lastMtime, watcher>>
sigVars   == <<sigChan, handler, signals>>
timerVars == <<timer, armed, pending>>
localVars == <<old, new>>
stateVars == <<served, nextGen, refreshers, liveCert>>
vars == <<fileVars, watchVars, sigVars, timerVars, localVars, stateVars,
          pc, lock, exited, readMtime>>

Mtime == Len(disk)
State == [gen: Nat, mtime: Nat, cfg: Config]

\* The refresh loops of a state: one per list it configures.
RefreshersOf(s) == {s.gen} \X s.cfg.lists

\* Where Reload holds reloadMu.
Critical == {"parse", "load", "stop", "start", "certs"}

TypeOK ==
  /\ hasConfig \in BOOLEAN
  /\ disk \in Seq(Contents) /\ Len(disk) >= 1
  /\ certFile \in Nat /\ rotations \in Nat
  /\ lastMtime \in Nat /\ watcher \in {"off", "idle", "sched"}
  /\ sigChan \in {"empty", "HUP", "TERM"}
  /\ handler \in {"idle", "sched", "shutdown"}
  /\ signals \in Nat
  /\ timer \in Timers \cup {None}
  /\ armed \subseteq Timers
  /\ pc \in [Goroutines -> {"free", "fired", "reload"} \cup Critical]
  /\ old \in [Goroutines -> State \cup {None}]
  /\ new \in [Goroutines -> State \cup {None}]
  /\ lock \in Goroutines \cup {None}
  /\ served \in State
  /\ nextGen \in Nat
  /\ refreshers \subseteq Nat \X Lists
  /\ liveCert \in Nat
  /\ exited \in BOOLEAN /\ pending \in BOOLEAN
  /\ readMtime \in Nat

\* run() and newServer: the file is parsed, compiled and served, its lists
\* are loaded and refreshed, the certificate is loaded, and only then do the
\* signal goroutine and the watcher start.
Init ==
  /\ \E c \in Contents :
       /\ Loadable(c)
       /\ disk = <<c>>
       /\ served = [gen |-> 0, mtime |-> 1, cfg |-> c]
       /\ refreshers = RefreshersOf(served)
       /\ liveCert = IF c.cert = NoCert THEN 0 ELSE 1
  /\ hasConfig \in BOOLEAN
  /\ certFile = 1 /\ rotations = 0
  /\ lastMtime = 0 /\ watcher = "off"
  /\ sigChan = "empty" /\ handler = "idle" /\ signals = 0
  /\ timer = None /\ armed = {} /\ pending = FALSE
  /\ pc = [g \in Goroutines |-> "free"]
  /\ old = [g \in Goroutines |-> None]
  /\ new = [g \in Goroutines |-> None]
  /\ lock = None
  /\ nextGen = 1
  /\ exited = FALSE
  /\ readMtime = 1

-----------------------------------------------------------------------------
(* The administrator. *)

\* The file is written, replaced or removed; its mtime moves on.
Edit ==
  /\ ~exited /\ hasConfig /\ Len(disk) <= MaxEdits
  /\ \E c \in Contents : disk' = Append(disk, c)
  /\ UNCHANGED <<hasConfig, certFile, rotations, watchVars, sigVars, timerVars,
                 localVars, stateVars, pc, lock, exited, readMtime>>

\* The certificate files are replaced.  They are two files: after the first
\* write they do not match (0), after the second they are the next version.
RotateCert ==
  /\ ~exited /\ rotations < 2 * MaxRotations
  /\ rotations' = rotations + 1
  /\ certFile' = IF certFile = 0 THEN rotations' ELSE 0
  /\ UNCHANGED <<hasConfig, disk, watchVars, sigVars, timerVars, localVars, stateVars,
                 pc, lock, exited, readMtime>>

\* A signal is sent; the runtime drops it when the channel is full.
Signal ==
  /\ ~exited /\ signals < MaxSignals
  /\ signals' = signals + 1
  /\ \E s \in {"HUP", "TERM"} :
       sigChan' = IF sigChan = "empty" THEN s ELSE sigChan
  /\ UNCHANGED <<fileVars, watchVars, handler, timerVars, localVars,
                 stateVars, pc, lock, exited, readMtime>>

-----------------------------------------------------------------------------
(* Debounce: scheduledReload and the timer. *)

\* Seeded fault of ScheduledReload: Stop instead of Reset.
ScheduledReloadStops ==
  /\ pending' = TRUE
  /\ \/ /\ timer # None
        /\ armed' = armed \ {timer}
        /\ UNCHANGED timer
     \/ /\ timer = None
        /\ \E t \in Timers \ armed :
             timer' = t /\ armed' = armed \cup {t}

\* scheduledReload, under timerMu: a timer that is still referenced is reset,
\* which arms it again even when it has fired; otherwise a new one is made.
ScheduledReload ==
  /\ pending' = TRUE
  /\ \/ /\ timer # None
        /\ armed' = armed \cup {timer}
        /\ UNCHANGED timer
     \/ /\ timer = None
        /\ \E t \in Timers \ armed :
             timer' = t /\ armed' = armed \cup {t}

\* A timer expires: the runtime starts a goroutine for its callback.
Fire(t, g) ==
  /\ ~exited /\ t \in armed /\ pc[g] = "free"
  /\ armed' = armed \ {t}
  /\ pc' = [pc EXCEPT ![g] = "fired"]
  /\ UNCHANGED <<fileVars, watchVars, sigVars, timer, pending, localVars,
                 stateVars, lock, exited, readMtime>>

\* The callback forgets the timer, under timerMu, and goes on to Reload.
ClearTimer(g) ==
  /\ ~exited /\ pc[g] = "fired"
  /\ timer' = None
  /\ pc' = [pc EXCEPT ![g] = "reload"]
  /\ UNCHANGED <<fileVars, watchVars, sigVars, armed, pending, localVars,
                 stateVars, lock, exited, readMtime>>

-----------------------------------------------------------------------------
(* The watcher and the signal goroutine. *)

\* The watcher's first stat, before its ticker starts.
WatchStart ==
  /\ ~exited /\ hasConfig /\ watcher = "off"
  /\ watcher' = "idle"
  /\ lastMtime' = IF disk[Mtime].verdict = "missing" THEN 0 ELSE Mtime
  /\ UNCHANGED <<fileVars, sigVars, timerVars, localVars, stateVars, pc,
                 lock, exited, readMtime>>

\* A tick: a file that cannot be read or is not newer is left alone.
WatchTick ==
  /\ ~exited /\ watcher = "idle"
  /\ IF disk[Mtime].verdict # "missing" /\ Mtime > lastMtime
       THEN lastMtime' = Mtime /\ watcher' = "sched"
       ELSE UNCHANGED watchVars
  /\ UNCHANGED <<fileVars, sigVars, timerVars, localVars, stateVars, pc,
                 lock, exited, readMtime>>

WatchSchedule ==
  /\ ~exited /\ watcher = "sched"
  /\ watcher' = "idle"
  /\ ScheduledReload
  /\ UNCHANGED <<fileVars, lastMtime, sigVars, localVars, stateVars, pc,
                 lock, exited, readMtime>>

HandleSignal ==
  /\ ~exited /\ handler = "idle" /\ sigChan # "empty"
  /\ handler' = IF sigChan = "HUP" THEN "sched" ELSE "shutdown"
  /\ sigChan' = "empty"
  /\ UNCHANGED <<fileVars, watchVars, signals, timerVars, localVars,
                 stateVars, pc, lock, exited, readMtime>>

HandleSchedule ==
  /\ ~exited /\ handler = "sched"
  /\ handler' = "idle"
  /\ ScheduledReload
  /\ UNCHANGED <<fileVars, watchVars, sigChan, signals, localVars, stateVars,
                 pc, lock, exited, readMtime>>

\* Shutdown closes the listeners; Serve then returns at once, and run() and
\* the process end without waiting for Shutdown.
Exit ==
  /\ ~exited /\ handler = "shutdown"
  /\ exited' = TRUE
  /\ UNCHANGED <<fileVars, watchVars, sigVars, timerVars, localVars,
                 stateVars, pc, lock, readMtime>>

-----------------------------------------------------------------------------
(* Reload. *)

\* Reload returns and reloadMu is released.
Return(g) ==
  /\ lock' = None
  /\ pc' = [pc EXCEPT ![g] = "free"]
  /\ old' = [old EXCEPT ![g] = None]
  /\ new' = [new EXCEPT ![g] = None]

\* TryLock fails: a reload is running and this trigger is dropped.
Drop(g) ==
  /\ ~exited /\ pc[g] = "reload" /\ lock # None
  /\ pending' = FALSE
  /\ pc' = [pc EXCEPT ![g] = "free"]
  /\ UNCHANGED <<fileVars, watchVars, sigVars, timer, armed, localVars,
                 stateVars, lock, exited, readMtime>>

\* Seeded fault of Begin: reloads are not serialised.
BeginUnlocked(g) ==
  /\ ~exited /\ pc[g] = "reload"
  /\ pending' = FALSE
  /\ lock' = g
  /\ old' = [old EXCEPT ![g] = served]
  /\ pc' = [pc EXCEPT ![g] = "parse"]
  /\ UNCHANGED <<fileVars, watchVars, sigVars, timer, armed, new, stateVars,
                 exited, readMtime>>

\* TryLock succeeds and the running state is read.
Begin(g) ==
  /\ ~exited /\ pc[g] = "reload" /\ lock = None
  /\ pending' = FALSE
  /\ lock' = g
  /\ old' = [old EXCEPT ![g] = served]
  /\ pc' = [pc EXCEPT ![g] = "parse"]
  /\ UNCHANGED <<fileVars, watchVars, sigVars, timer, armed, new, stateVars,
                 exited, readMtime>>

\* Seeded fault of NoConfig: the early return keeps reloadMu.
NoConfigKeepsLock(g) ==
  /\ ~exited /\ pc[g] = "parse" /\ ~hasConfig
  /\ pc' = [pc EXCEPT ![g] = "free"]
  /\ UNCHANGED <<fileVars, watchVars, sigVars, timerVars, localVars, lock,
                 stateVars, exited, readMtime>>

\* There is no configuration file to reload.
NoConfig(g) ==
  /\ ~exited /\ pc[g] = "parse" /\ ~hasConfig
  /\ Return(g)
  /\ UNCHANGED <<fileVars, watchVars, sigVars, timerVars, stateVars, exited,
                 readMtime>>

\* Seeded fault of Reject: no return after the error.
RejectGoesOn(g) ==
  /\ ~exited /\ pc[g] = "parse" /\ hasConfig
  /\ Faulty(disk[Mtime])
  /\ readMtime' = Mtime
  /\ pc' = [pc EXCEPT ![g] = "load"]
  /\ UNCHANGED <<fileVars, watchVars, sigVars, timerVars, localVars, lock,
                 stateVars, exited>>

\* parseAll, validate or compileVHosts fails: the old configuration stays.
Reject(g) ==
  /\ ~exited /\ pc[g] = "parse" /\ hasConfig
  /\ Faulty(disk[Mtime])
  /\ readMtime' = Mtime
  /\ Return(g)
  /\ UNCHANGED <<fileVars, watchVars, sigVars, timerVars, stateVars, exited>>

\* compileVHosts panics in mux.Handle.  Nothing recovers on the goroutine of the
\* timer: the process ends.
CompilePanics(g) ==
  /\ ~exited /\ pc[g] = "parse" /\ hasConfig
  /\ disk[Mtime].verdict = "panic"
  /\ readMtime' = Mtime
  /\ exited' = TRUE
  /\ UNCHANGED <<fileVars, watchVars, sigVars, timerVars, localVars, stateVars,
                 pc, lock>>

\* Seeded fault of Parse: nothing is reverted to the running configuration.
ParseWithoutRevert(g) ==
  /\ ~exited /\ pc[g] = "parse" /\ hasConfig
  /\ Loadable(disk[Mtime])
  /\ readMtime' = Mtime
  /\ new' = [new EXCEPT ![g] =
               [gen |-> nextGen, mtime |-> Mtime, cfg |-> disk[Mtime]]]
  /\ nextGen' = nextGen + 1
  /\ pc' = [pc EXCEPT ![g] = "load"]
  /\ UNCHANGED <<fileVars, watchVars, sigVars, timerVars, old, served,
                 refreshers, liveCert, lock, exited>>

\* parseAll, validate, the reverts and compileVHosts succeed.
Parse(g) ==
  /\ ~exited /\ pc[g] = "parse" /\ hasConfig
  /\ Loadable(disk[Mtime])
  /\ readMtime' = Mtime
  /\ new' = [new EXCEPT ![g] =
               [gen   |-> nextGen,
                mtime |-> Mtime,
                cfg   |-> Revert(old[g].cfg, disk[Mtime])]]
  /\ nextGen' = nextGen + 1
  /\ pc' = [pc EXCEPT ![g] = "load"]
  /\ UNCHANGED <<fileVars, watchVars, sigVars, timerVars, old, served,
                 refreshers, liveCert, lock, exited>>

\* The lists are loaded (CIDRList.Load never fails) and the state is stored.
Swap(g) ==
  /\ ~exited /\ pc[g] = "load"
  /\ served' = new[g]
  /\ pc' = [pc EXCEPT ![g] = "stop"]
  /\ UNCHANGED <<fileVars, watchVars, sigVars, timerVars, localVars, nextGen,
                 refreshers, liveCert, lock, exited, readMtime>>

\* Seeded fault of StopOld: the loops of the state just built are stopped.
StopNew(g) ==
  /\ ~exited /\ pc[g] = "stop"
  /\ refreshers' = refreshers \ RefreshersOf(new[g])
  /\ pc' = [pc EXCEPT ![g] = "start"]
  /\ UNCHANGED <<fileVars, watchVars, sigVars, timerVars, localVars, served,
                 nextGen, liveCert, lock, exited, readMtime>>

\* The refresh loops of the replaced state are cancelled.
StopOld(g) ==
  /\ ~exited /\ pc[g] = "stop"
  /\ refreshers' = refreshers \ RefreshersOf(old[g])
  /\ pc' = [pc EXCEPT ![g] = "start"]
  /\ UNCHANGED <<fileVars, watchVars, sigVars, timerVars, localVars, served,
                 nextGen, liveCert, lock, exited, readMtime>>

\* The refresh loops of the served state are started.
StartNew(g) ==
  /\ ~exited /\ pc[g] = "start"
  /\ refreshers' = refreshers \cup RefreshersOf(new[g])
  /\ pc' = [pc EXCEPT ![g] = "certs"]
  /\ UNCHANGED <<fileVars, watchVars, sigVars, timerVars, localVars, served,
                 nextGen, liveCert, lock, exited, readMtime>>

\* Seeded fault of ReloadCert: the error of LoadX509KeyPair is ignored.
ReloadCertUnchecked(g) ==
  /\ ~exited /\ pc[g] = "certs"
  /\ liveCert' = IF new[g].cfg.cert # NoCert THEN certFile ELSE liveCert
  /\ Return(g)
  /\ UNCHANGED <<fileVars, watchVars, sigVars, timerVars, served, nextGen,
                 refreshers, exited, readMtime>>

\* The global certificate is read again; one that does not load is ignored.
ReloadCert(g) ==
  /\ ~exited /\ pc[g] = "certs"
  /\ liveCert' = IF new[g].cfg.cert # NoCert /\ certFile # 0
                   THEN certFile ELSE liveCert
  /\ Return(g)
  /\ UNCHANGED <<fileVars, watchVars, sigVars, timerVars, served, nextGen,
                 refreshers, exited, readMtime>>

\* One step of the callback goroutine g.
Step(g) ==
  \/ ClearTimer(g) \/ Drop(g) \/ Begin(g) \/ NoConfig(g) \/ Reject(g)
  \/ CompilePanics(g) \/ Parse(g) \/ Swap(g) \/ StopOld(g) \/ StartNew(g) \/ ReloadCert(g)

\* The process has ended.
Ended == exited /\ UNCHANGED vars

Next ==
  \/ Edit \/ RotateCert \/ Signal
  \/ WatchStart \/ WatchTick \/ WatchSchedule
  \/ HandleSignal \/ HandleSchedule \/ Exit
  \/ \E t \in Timers, g \in Goroutines : Fire(t, g)
  \/ \E g \in Goroutines : Step(g)
  \/ Ended

Spec == Init /\ [][Next]_vars

\* Every goroutine is scheduled, timers expire, the ticker ticks, the 12s
\* timeout of loadCIDRsFromURL bounds a load, and Serve returns when Shutdown
\* has closed the listeners.  The administrator owes nothing.
Fairness ==
  /\ WF_vars(WatchStart) /\ WF_vars(WatchTick) /\ WF_vars(WatchSchedule)
  /\ WF_vars(HandleSignal) /\ WF_vars(HandleSchedule) /\ WF_vars(Exit)
  /\ \A t \in Timers : WF_vars(\E g \in Goroutines : Fire(t, g))
  /\ \A g \in Goroutines : WF_vars(Step(g))

FairSpec == Spec /\ Fairness

-----------------------------------------------------------------------------
(* Properties. *)

\* A trigger that scheduledReload accepted is never lost in the debounce: as
\* long as no Reload began after it, a timer is armed or a callback is on its
\* way to Reload, whatever the race between Reset, expiry and the callback's
\* reloadTimer = nil.
NoTriggerLost ==
  pending => \/ armed # {}
             \/ \E g \in Goroutines : pc[g] \in {"fired", "reload"}

\* Between reloads, exactly the lists of the served state are refreshed in
\* the background: no loop of a replaced state runs on, none of the new one
\* is missing; during a reload only the two states involved have loops.
RefreshersMatchServed ==
  /\ lock = None => refreshers = RefreshersOf(served)
  /\ \A g \in Goroutines :
       pc[g] \in Critical =>
         refreshers \subseteq RefreshersOf(old[g]) \cup RefreshersOf(served)

\* Each swap installs a version of the file at least as new as the one in
\* force: a slow reload never overwrites the result of a later one.
ServedMovesForward == [][served'.mtime >= served.mtime]_served

\* Whatever the file says, no sequence of reloads changes what is fixed at
\* server start: address, global certificate, acme block, and the tls block
\* of a vhost that both configurations have.
StartSettingsKept ==
  [][/\ served'.cfg.addr = served.cfg.addr
     /\ served'.cfg.cert = served.cfg.cert
     /\ served'.cfg.acme = served.cfg.acme
     /\ \A v \in VHosts :
          served.cfg.tls[v] # Absent /\ served'.cfg.tls[v] # Absent =>
            served'.cfg.tls[v] = served.cfg.tls[v]]_served

\* With a global certificate configured, handshakes always have a usable one,
\* also when a reload meets files that do not match; and no reload puts back
\* an older version.
LiveCertUsable ==
  [][liveCert' > liveCert /\ served.cfg.cert # NoCert]_liveCert

\* Hot reload implements ConfigService: with current the installed version,
\* every step is a write of the file, an installation in order, or a stutter.
Service == INSTANCE ConfigService
             WITH current <- [mtime |-> served.mtime, cfg |-> served.cfg]
ImplementsConfigService == Service!CSSpec

\* An accepted trigger is followed by a Reload, unless the process ends.
TriggerReachesReload == pending ~> (~pending \/ exited)

\* Every reload finishes and frees reloadMu, unless the process ends.
ReloadFinishes == \A g \in Goroutines : lock = g ~> (lock # g \/ exited)

\* README.md:307: "The reload is triggered on config file change": a change
\* the watcher noticed is read by some reload.
NoticedChangeIsRead ==
  \A m \in 1 .. MaxEdits + 1 :
    (watcher = "sched" /\ lastMtime >= m) ~> (readMtime >= m \/ exited)

\* README.md:307: "While reloading, if any error is encountered, then RouteMUX
\* will report and continue to run": only a signal ends the process.
ErrorsAreSurvived == exited => handler = "shutdown"
=============================================================================
