------------------------------ MODULE Watchdog ------------------------------
(***************************************************************************)
(* The daemon with a watchdog (daemon/daemon_unix.go), from watch-start    *)
(* until the watchdog has ended.                                           *)
(*                                                                         *)
(* Actors: the command that forked the watchdog; the commands stop, reload *)
(* and status; the main loop of runWatchdog; the goroutine of              *)
(* setupGracefulShutdown and the one it starts to wait for the worker; the *)
(* goroutine of forwardSignal; the workers.  The variable currentWorker is *)
(* shared by the goroutines without a lock: each read is a step, and a     *)
(* read of nil where a method is called on it panics and ends the          *)
(* watchdog.  RouteMUX sets RestartOnCleanExit, so every exit of a worker  *)
(* is followed by a restart.                                               *)
(***************************************************************************)
EXTENDS Integers, FiniteSets

CONSTANTS
  Workers,   \* identities of worker processes; that of a dead one is used again
  Nil        \* the nil pointer

ASSUME WorkersAssumption ==
  /\ IsFiniteSet(Workers) /\ Workers # {}
  /\ \A w \in Workers \cup {Nil} : w \notin {"none", "call", "done"}
  /\ Nil \notin Workers

VARIABLES
  dog,       \* the watchdog process: "up", "exited" or "crashed"
  starter,   \* the command watch-start: "waiting", "writing" or "done"
  pidFile,   \* the PID file is there, with the PID of the watchdog
  termChan,  \* a SIGTERM is in the channel of setupGracefulShutdown
  hupChan,   \* a SIGHUP is in the channel of forwardSignal
  main,      \* where the loop of runWatchdog is
  cmd,       \* its variable cmd: the worker
  current,   \* currentWorker
  handler,   \* where the goroutine of setupGracefulShutdown is
  waiter,    \* the goroutine that calls Wait: the worker it waits for
  shutting,  \* watchdogShuttingDown
  forward,   \* where the goroutine of forwardSignal is
  worker     \* worker -> its state

dogVars    == <<dog, starter, pidFile>>
chanVars   == <<termChan, hupChan>>
mainVars   == <<main, cmd, current>>
signalVars == <<handler, waiter, shutting>>
vars == <<dogVars, chanVars, mainVars, signalVars, forward, worker>>

\* "signalled" is a serving worker with a SIGHUP in its sigChan; "stopping" is
\* one that has a SIGTERM there or has taken it.
WorkerStates == {"none", "starting", "serving", "signalled", "stopping", "dead"}

Alive == {w \in Workers : worker[w] \notin {"none", "dead"}}

TypeOK ==
  /\ dog \in {"up", "exited", "crashed"}
  /\ starter \in {"waiting", "writing", "done"}
  /\ pidFile \in BOOLEAN /\ termChan \in BOOLEAN /\ hupChan \in BOOLEAN
  /\ main \in {"start", "assign", "wait", "clear", "check", "delay", "halt"}
  /\ cmd \in Workers \cup {Nil}
  /\ current \in Workers \cup {Nil}
  /\ handler \in {"receive", "test", "process", "log", "store", "signal", "select",
                  "remove", "exit"}
  /\ waiter \in {"none", "call", "done"} \cup Workers
  /\ shutting \in BOOLEAN
  /\ forward \in {"receive", "test", "process", "signal"}
  /\ worker \in [Workers -> WorkerStates]

\* forkDaemon has started the watchdog, which has set up its signal handlers.
Init ==
  /\ dog = "up" /\ starter = "waiting" /\ pidFile = FALSE
  /\ termChan = FALSE /\ hupChan = FALSE
  /\ main = "start" /\ cmd = Nil /\ current = Nil
  /\ handler = "receive" /\ waiter = "none" /\ shutting = FALSE
  /\ forward = "receive"
  /\ worker = [w \in Workers |-> "none"]

Up == dog = "up"

\* An unrecovered panic ends the process; nothing is cleaned up.
Panic ==
  /\ dog' = "crashed"
  /\ UNCHANGED <<starter, pidFile, chanVars, mainVars, signalVars, forward, worker>>

-----------------------------------------------------------------------------
(* The commands. *)

\* forkDaemon: WaitAfterStart is over, or the watchdog was seen to exit.
ConfirmStart ==
  /\ starter = "waiting"
  /\ starter' = IF Up THEN "writing" ELSE "done"
  /\ UNCHANGED <<dog, pidFile, chanVars, mainVars, signalVars, forward, worker>>

\* handleWatchStart writes the PID file.
WritePID ==
  /\ starter = "writing"
  /\ starter' = "done"
  /\ pidFile' = TRUE
  /\ UNCHANGED <<dog, chanVars, mainVars, signalVars, forward, worker>>

\* handleStop, or anybody else who terminates the watchdog.  A channel that
\* already holds a signal drops the next.
SendTerm ==
  /\ Up
  /\ termChan' = TRUE
  /\ UNCHANGED <<dogVars, hupChan, mainVars, signalVars, forward, worker>>

\* handleReload.
SendHup ==
  /\ Up /\ pidFile
  /\ hupChan' = TRUE
  /\ UNCHANGED <<dogVars, termChan, mainVars, signalVars, forward, worker>>

\* handleStop, handleReload and handleStatus remove the PID file of a watchdog
\* that is gone.
CleanUp ==
  /\ ~Up /\ pidFile
  /\ pidFile' = FALSE
  /\ UNCHANGED <<dog, starter, chanVars, mainVars, signalVars, forward, worker>>

-----------------------------------------------------------------------------
(* The loop of runWatchdog. *)

StartWorker ==
  /\ Up /\ main = "start"
  /\ \E w \in Workers \ {waiter} :
       /\ worker[w] \in {"none", "dead"}
       /\ cmd' = w
       /\ worker' = [worker EXCEPT ![w] = "starting"]
  /\ main' = "assign"
  /\ UNCHANGED <<dogVars, chanVars, current, signalVars, forward>>

\* cmd.Start fails: after the delay it is tried again.
StartFails ==
  /\ Up /\ main = "start"
  /\ main' = "delay"
  /\ UNCHANGED <<dogVars, chanVars, cmd, current, signalVars, forward, worker>>

Assign ==
  /\ Up /\ main = "assign"
  /\ current' = cmd
  /\ main' = "wait"
  /\ UNCHANGED <<dogVars, chanVars, cmd, signalVars, forward, worker>>

\* Seeded fault of WaitReturns: Wait gives up before the worker has ended.
WaitReturnsEarly ==
  /\ Up /\ main = "wait"
  /\ main' = "clear"
  /\ UNCHANGED <<dogVars, chanVars, cmd, current, signalVars, forward, worker>>

WaitReturns ==
  /\ Up /\ main = "wait" /\ worker[cmd] = "dead"
  /\ main' = "clear"
  /\ UNCHANGED <<dogVars, chanVars, cmd, current, signalVars, forward, worker>>

ClearWorker ==
  /\ Up /\ main = "clear"
  /\ current' = Nil
  /\ main' = "check"
  /\ UNCHANGED <<dogVars, chanVars, cmd, signalVars, forward, worker>>

\* Seeded fault of CheckShutdown: the loop halts after every exit.
CheckShutdownHalts ==
  /\ Up /\ main = "check"
  /\ main' = "halt"
  /\ UNCHANGED <<dogVars, chanVars, cmd, current, signalVars, forward, worker>>

\* The loop halts when the watchdog is shutting down and restarts otherwise.
CheckShutdown ==
  /\ Up /\ main = "check"
  /\ main' = IF shutting THEN "halt" ELSE "delay"
  /\ UNCHANGED <<dogVars, chanVars, cmd, current, signalVars, forward, worker>>

\* WatchdogRestartDelay is over.
RestartDelay ==
  /\ Up /\ main = "delay"
  /\ main' = "start"
  /\ UNCHANGED <<dogVars, chanVars, cmd, current, signalVars, forward, worker>>

Loop ==
  \/ StartWorker \/ StartFails \/ Assign \/ WaitReturns \/ ClearWorker
  \/ CheckShutdown \/ RestartDelay

-----------------------------------------------------------------------------
(* setupGracefulShutdown. *)

HandlerGoto(pc) ==
  /\ handler' = pc
  /\ UNCHANGED <<dogVars, hupChan, mainVars, waiter, forward>>

\* Seeded fault of ReceiveTerm: the PID file is removed before the worker has
\* been told.
ReceiveTermRemoves ==
  /\ Up /\ handler = "receive" /\ termChan
  /\ termChan' = FALSE
  /\ handler' = "test" /\ pidFile' = FALSE
  /\ UNCHANGED <<dog, starter, hupChan, mainVars, waiter, forward, shutting, worker>>

ReceiveTerm ==
  /\ Up /\ handler = "receive" /\ termChan
  /\ termChan' = FALSE
  /\ HandlerGoto("test")
  /\ UNCHANGED <<shutting, worker>>

\* *workerCmd != nil: without a worker there is nothing to forward.
TestWorker ==
  /\ Up /\ handler = "test"
  /\ HandlerGoto(IF current = Nil THEN "remove" ELSE "process")
  /\ UNCHANGED <<termChan, shutting, worker>>

\* (*workerCmd).Process != nil
TestProcess ==
  /\ Up /\ handler = "process"
  /\ \/ current = Nil /\ Panic
     \/ /\ current # Nil /\ HandlerGoto("log")
        /\ UNCHANGED <<termChan, shutting, worker>>

\* The log line reads the PID.
LogForward ==
  /\ Up /\ handler = "log"
  /\ \/ current = Nil /\ Panic
     \/ /\ current # Nil /\ HandlerGoto("store")
        /\ UNCHANGED <<termChan, shutting, worker>>

\* watchdogShuttingDown.Store(true): the loop may have passed its test meanwhile.
StoreShutdown ==
  /\ Up /\ handler = "store"
  /\ HandlerGoto("signal")
  /\ shutting' = TRUE
  /\ UNCHANGED <<termChan, worker>>

\* A worker that has not called setupSignals yet dies of the signal.  The
\* sigChan of a worker has room for one signal: SIGTERM is dropped when a
\* SIGHUP is in it.
Terminate(state) == CASE state = "starting" -> "dead"
                      [] state = "serving"  -> "stopping"
                      [] OTHER              -> state

\* The signal is forwarded, and a goroutine is started that waits for the
\* worker.
ForwardTerm ==
  /\ Up /\ handler = "signal"
  /\ \/ current = Nil /\ Panic
     \/ /\ current # Nil
        /\ worker' = [worker EXCEPT ![current] = Terminate(@)]
        /\ waiter' = "call"
        /\ handler' = "select"
        /\ UNCHANGED <<dogVars, chanVars, mainVars, shutting, forward>>

\* Seeded fault of WaiterCalls: the goroutine goes on with the nil it read.
WaiterCallsUnchecked ==
  /\ Up /\ waiter = "call"
  /\ waiter' = current
  /\ UNCHANGED <<dogVars, chanVars, mainVars, handler, shutting, forward, worker>>

\* The goroutine reads currentWorker and calls Wait on it.
WaiterCalls ==
  /\ Up /\ waiter = "call"
  /\ \/ current = Nil /\ Panic
     \/ /\ current # Nil
        /\ waiter' = current
        /\ UNCHANGED <<dogVars, chanVars, mainVars, handler, shutting, forward,
                       worker>>

WaiterDone ==
  /\ Up /\ waiter \in Workers /\ worker[waiter] = "dead"
  /\ waiter' = "done"
  /\ UNCHANGED <<dogVars, chanVars, mainVars, handler, shutting, forward, worker>>

WorkerExited ==
  /\ Up /\ handler = "select" /\ waiter = "done"
  /\ HandlerGoto("remove")
  /\ UNCHANGED <<termChan, shutting, worker>>

\* Seeded fault of ForceKill: the time is over and nothing is killed.
ForceKillForgets ==
  /\ Up /\ handler = "select"
  /\ HandlerGoto("remove")
  /\ UNCHANGED <<termChan, shutting, worker>>

\* Seeded fault of ForceKill: there is no timeout.
ForceKillNever ==
  /\ Up /\ handler = "select" /\ waiter = "done"
  /\ HandlerGoto("remove")
  /\ UNCHANGED <<termChan, shutting, worker>>

\* The worker has not ended within 10 seconds and is killed.
ForceKill ==
  /\ Up /\ handler = "select"
  /\ \/ current = Nil /\ Panic
     \/ /\ current # Nil
        /\ worker' = [worker EXCEPT ![current] = "dead"]
        /\ HandlerGoto("remove")
        /\ UNCHANGED <<termChan, shutting>>

RemovePID ==
  /\ Up /\ handler = "remove"
  /\ pidFile' = FALSE
  /\ handler' = "exit"
  /\ UNCHANGED <<dog, starter, chanVars, mainVars, waiter, shutting, forward, worker>>

Exit ==
  /\ Up /\ handler = "exit"
  /\ dog' = "exited"
  /\ UNCHANGED <<starter, pidFile, chanVars, mainVars, signalVars, forward, worker>>

Shutdown ==
  \/ ReceiveTerm \/ TestWorker \/ TestProcess \/ LogForward \/ StoreShutdown
  \/ ForwardTerm \/ WorkerExited \/ ForceKill \/ RemovePID \/ Exit

Waiter == WaiterCalls \/ WaiterDone

-----------------------------------------------------------------------------
(* forwardSignal. *)

ForwardGoto(pc) ==
  /\ forward' = pc
  /\ UNCHANGED <<dogVars, termChan, mainVars, signalVars>>

ReceiveHup ==
  /\ Up /\ forward = "receive" /\ hupChan
  /\ hupChan' = FALSE
  /\ ForwardGoto("test")
  /\ UNCHANGED worker

TestHup ==
  /\ Up /\ forward = "test"
  /\ ForwardGoto(IF current = Nil THEN "receive" ELSE "process")
  /\ UNCHANGED <<hupChan, worker>>

\* (*workerCmd).Process != nil and the log line.
TestHupProcess ==
  /\ Up /\ forward = "process"
  /\ \/ current = Nil /\ Panic
     \/ current # Nil /\ ForwardGoto("signal") /\ UNCHANGED <<hupChan, worker>>

\* SIGHUP ends a worker that has not called setupSignals yet and goes to the
\* sigChan of one that serves.
HangUp(state) == CASE state = "starting" -> "dead"
                   [] state = "serving"  -> "signalled"
                   [] OTHER              -> state

ForwardHup ==
  /\ Up /\ forward = "signal"
  /\ \/ current = Nil /\ Panic
     \/ /\ current # Nil
        /\ worker' = [worker EXCEPT ![current] = HangUp(@)]
        /\ ForwardGoto("receive")
        /\ UNCHANGED hupChan

Forward == ReceiveHup \/ TestHup \/ TestHupProcess \/ ForwardHup

-----------------------------------------------------------------------------
(* The workers.  They go on when the watchdog is gone. *)

WorkerGoes(w, from, to) ==
  /\ worker[w] \in from
  /\ worker' = [worker EXCEPT ![w] = to]
  /\ UNCHANGED <<dogVars, chanVars, mainVars, signalVars, forward>>

\* newServer has returned and run has called setupSignals.
Serve(w) == WorkerGoes(w, {"starting"}, "serving")

\* The goroutine of setupSignals takes the SIGHUP; Reload models the rest.
TakeHup(w) == WorkerGoes(w, {"signalled"}, "serving")

\* Shutdown has closed the listeners, Serve and run return.
Stopped(w) == WorkerGoes(w, {"stopping"}, "dead")

Crash(w) == WorkerGoes(w, {"starting", "serving", "signalled", "stopping"}, "dead")

Next ==
  \/ ConfirmStart \/ WritePID \/ SendTerm \/ SendHup \/ CleanUp
  \/ Loop \/ Shutdown \/ Waiter \/ Forward
  \/ \E w \in Workers : Serve(w) \/ TakeHup(w) \/ Stopped(w) \/ Crash(w)

Spec == Init /\ [][Next]_vars

\* The goroutines of the watchdog run, its delays end, and a start that is tried
\* again and again succeeds.  Workers and commands owe nothing.
Fairness ==
  /\ WF_vars(Loop) /\ SF_vars(StartWorker)
  /\ WF_vars(Shutdown) /\ WF_vars(Waiter) /\ WF_vars(Forward)

FairSpec == Spec /\ Fairness

-----------------------------------------------------------------------------
(* Properties. *)

\* Two workers never run at a time: the one before has ended when runWatchdog
\* starts the next, so they never compete for the listening port.
OneWorker == Cardinality(Alive) <= 1

\* A watchdog that forwarded SIGTERM leaves no worker behind when it exits:
\* the worker has stopped, failed or been killed after 10 seconds, whatever
\* crash or restart fell between the reads of currentWorker.  (A watchdog that
\* found currentWorker nil may leave the worker the loop is just starting.)
ForwardedStopLeavesNoWorker == dog = "exited" /\ shutting => Alive = {}

\* From the end of watch-start until it is about to exit, a watchdog that runs
\* has its PID file, so that stop finds it and another start refuses to run.
RunningHasPidFile == Up /\ starter = "done" /\ handler # "exit" => pidFile

\* A watchdog that was sent SIGTERM ends, also when its worker never got
\* the signal or is between two restarts: handleStop, which waits for that,
\* returns.
StopEnds == termChan ~> ~Up

\* README.md:301: "In event of server process failure, the watchdog will
\* restart the process": when no worker runs there will be one again, unless
\* the watchdog is stopped or has panicked.
WorkerIsRestarted ==
  (Up /\ Alive = {}) ~> (Alive # {} \/ ~Up \/ handler # "receive")
=============================================================================
