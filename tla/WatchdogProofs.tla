--------------------------- MODULE WatchdogProofs ---------------------------
(***************************************************************************)
(* Proofs about Watchdog: the invariants that the run watchdog checks, for  *)
(* any number of worker identities.                                        *)
(***************************************************************************)
EXTENDS Watchdog, FiniteSetTheorems, TLAPS

\* The worker that lives is the one that runWatchdog waits for or is about to.
LoopInv ==
  /\ \A w \in Alive : w = cmd /\ main \in {"assign", "wait"}
  /\ main \in {"assign", "wait", "clear"} => cmd \in Workers
  /\ current = IF main \in {"wait", "clear"} THEN cmd ELSE Nil

\* Once the worker has been told, with watchdogShuttingDown set, the loop does not
\* come back to the start of a worker, and who waits for a worker waits for the
\* last one.
ShutdownInv ==
  /\ shutting => /\ handler \in {"signal", "select", "remove", "exit"}
                 /\ handler # "signal" => main \in {"wait", "clear", "check", "halt"}
  /\ handler \in {"signal", "select"} => shutting
  /\ waiter # "none" => shutting /\ handler # "signal"
  /\ waiter \in Workers => waiter = cmd
  /\ waiter = "done" \/ (shutting /\ handler \in {"remove", "exit"}) => Alive = {}
  /\ dog = "exited" => handler = "exit"

IInv == TypeOK /\ LoopInv /\ ShutdownInv /\ RunningHasPidFile

-----------------------------------------------------------------------------
(* The types. *)

LEMMA InitType == Init => TypeOK
  BY DEF Init, TypeOK, WorkerStates

\* A signal leaves a worker one, and wakes none up that is not running.
LEMMA SignalStates ==
  ASSUME NEW state \in WorkerStates
  PROVE  /\ Terminate(state) \in WorkerStates
         /\ HangUp(state) \in WorkerStates
         /\ state \in {"none", "dead"} => Terminate(state) = state /\ HangUp(state) = state
  BY DEF WorkerStates, Terminate, HangUp

LEMMA NextType == TypeOK /\ [Next]_vars => TypeOK'
<1> SUFFICES ASSUME TypeOK, [Next]_vars PROVE TypeOK'
  OBVIOUS
<1> USE WorkersAssumption DEF TypeOK, WorkerStates, dogVars, chanVars, mainVars, signalVars
<1>1. CASE ConfirmStart
  BY <1>1 DEF ConfirmStart, Up
<1>2. CASE WritePID
  BY <1>2 DEF WritePID
<1>3. CASE SendTerm
  BY <1>3 DEF SendTerm
<1>4. CASE SendHup
  BY <1>4 DEF SendHup
<1>5. CASE CleanUp
  <2>1. pidFile' \in BOOLEAN
    BY <1>5, Zenon DEF CleanUp
  <2> QED
    BY <2>1, <1>5 DEF CleanUp
<1>6. CASE StartWorker
  BY <1>6 DEF StartWorker
<1>7. CASE StartFails
  BY <1>7 DEF StartFails
<1>8. CASE Assign
  BY <1>8 DEF Assign
<1>9. CASE WaitReturns
  BY <1>9 DEF WaitReturns
<1>10. CASE ClearWorker
  BY <1>10 DEF ClearWorker
<1>11. CASE CheckShutdown
  BY <1>11 DEF CheckShutdown
<1>12. CASE RestartDelay
  BY <1>12 DEF RestartDelay
<1>13. CASE ReceiveTerm
  <2>1. termChan' \in BOOLEAN
    BY <1>13, Zenon DEF ReceiveTerm
  <2> QED
    BY <2>1, <1>13 DEF ReceiveTerm, HandlerGoto
<1>14. CASE TestWorker
  BY <1>14 DEF TestWorker, HandlerGoto
<1>15. CASE TestProcess
  BY <1>15 DEF TestProcess, HandlerGoto, Panic
<1>16. CASE LogForward \/ StoreShutdown
  <2>1. CASE LogForward
    BY <2>1 DEF LogForward, HandlerGoto, Panic
  <2>2. CASE StoreShutdown
    BY <2>2 DEF StoreShutdown, HandlerGoto
  <2> QED
    BY <1>16, <2>1, <2>2
<1>17. CASE ForwardTerm
  BY <1>17, SignalStates DEF ForwardTerm, Panic
<1>18. CASE WorkerExited
  BY <1>18 DEF WorkerExited, HandlerGoto
<1>19. CASE ForceKill
  BY <1>19 DEF ForceKill, HandlerGoto, Panic
<1>20. CASE RemovePID
  <2>1. pidFile' \in BOOLEAN
    BY <1>20, Zenon DEF RemovePID
  <2> QED
    BY <2>1, <1>20 DEF RemovePID
<1>21. CASE Exit
  BY <1>21 DEF Exit
<1>22. CASE WaiterCalls
  BY <1>22 DEF WaiterCalls, Panic
<1>23. CASE WaiterDone
  BY <1>23 DEF WaiterDone
<1>24. CASE ReceiveHup
  <2>1. hupChan' \in BOOLEAN
    BY <1>24, Zenon DEF ReceiveHup
  <2> QED
    BY <2>1, <1>24 DEF ReceiveHup, ForwardGoto
<1>25. CASE TestHup
  BY <1>25 DEF TestHup, ForwardGoto
<1>26. CASE TestHupProcess
  BY <1>26 DEF TestHupProcess, ForwardGoto, Panic
<1>27. CASE ForwardHup
  BY <1>27, SignalStates DEF ForwardHup, ForwardGoto, Panic
<1>28. ASSUME NEW w \in Workers, Serve(w) \/ TakeHup(w) \/ Stopped(w) \/ Crash(w)
     PROVE  TypeOK'
  BY <1>28 DEF Serve, TakeHup, Stopped, Crash, WorkerGoes
<1>29. CASE UNCHANGED vars
  BY <1>29 DEF vars
<1> HIDE DEF TypeOK
<1> QED
  BY <1>1, <1>2, <1>3, <1>4, <1>5, <1>6, <1>7, <1>8, <1>9, <1>10, <1>11, <1>12, <1>13, <1>14, <1>15, <1>16, <1>17, <1>18, <1>19, <1>20, <1>21, <1>22, <1>23, <1>24, <1>25, <1>26, <1>27, <1>28, <1>29
     DEF Next, Loop, Shutdown, Waiter, Forward

-----------------------------------------------------------------------------
(* The loop and its worker. *)

\* A worker that steps by itself was alive and gets no other identity.
LEMMA WorkerSteps ==
  ASSUME TypeOK, NEW w \in Workers, Serve(w) \/ TakeHup(w) \/ Stopped(w) \/ Crash(w)
  PROVE  /\ Alive' \subseteq Alive
         /\ UNCHANGED <<dogVars, chanVars, mainVars, signalVars, forward>>
  BY DEF TypeOK, Serve, TakeHup, Stopped, Crash, WorkerGoes, Alive

\* A signal that the watchdog forwards and the kill reach the worker of the loop.
LEMMA SignalsKeepDead ==
  ASSUME TypeOK, current # Nil, NEW state,
         worker' = [worker EXCEPT ![current] = state],
         worker[current] \in {"none", "dead"} => state \in {"none", "dead"}
  PROVE  Alive' \subseteq Alive
  BY DEF TypeOK, Alive

LEMMA InitLoop == Init => LoopInv
  BY DEF Init, LoopInv, Alive

\* What leaves the loop and the dead workers alone keeps its invariant.
LEMMA LoopStays ==
  ASSUME LoopInv, UNCHANGED mainVars, Alive' \subseteq Alive
  PROVE  LoopInv'
  BY DEF LoopInv, mainVars

\* Only the loop, the forwarded signals, the kill and the workers themselves
\* touch the variables of the loop and the workers.
LEMMA LoopAside ==
  ASSUME [Next]_vars
  PROVE  \/ Loop \/ ForwardTerm \/ ForceKill \/ ForwardHup
         \/ \E w \in Workers : Serve(w) \/ TakeHup(w) \/ Stopped(w) \/ Crash(w)
         \/ UNCHANGED <<mainVars, worker>>
  BY DEF Next, Shutdown, Waiter, Forward, vars, ConfirmStart, WritePID, SendTerm,
         SendHup, CleanUp, ReceiveTerm, TestWorker, TestProcess, LogForward, StoreShutdown,
         WorkerExited, RemovePID, Exit, WaiterCalls, WaiterDone, ReceiveHup,
         TestHup, TestHupProcess, HandlerGoto, ForwardGoto, Panic, mainVars,
         dogVars, chanVars, signalVars

LEMMA NextLoop == TypeOK /\ LoopInv /\ [Next]_vars => LoopInv'
<1> SUFFICES ASSUME TypeOK, LoopInv, [Next]_vars PROVE LoopInv'
  OBVIOUS
<1>1. CASE Loop
  <2> USE WorkersAssumption DEF TypeOK, LoopInv, Alive
  <2>1. CASE StartWorker
    <3>1. PICK w \in Workers \ {waiter} :
            /\ worker[w] \in {"none", "dead"}
            /\ cmd' = w
            /\ worker' = [worker EXCEPT ![w] = "starting"]
      BY <2>1 DEF StartWorker
    <3>2. main' = "assign" /\ current' = Nil
      BY <2>1 DEF StartWorker
    <3>3. Alive = {}
      BY <2>1 DEF StartWorker
    <3>4. \A v \in Workers : v \in Alive' => v = w
      BY <3>1, <3>3
    <3> QED
      BY <3>1, <3>2, <3>4
  <2>2. CASE StartFails
    BY <2>2 DEF StartFails
  <2>3. CASE Assign
    BY <2>3 DEF Assign
  <2>4. CASE WaitReturns
    BY <2>4 DEF WaitReturns
  <2>5. CASE ClearWorker
    BY <2>5 DEF ClearWorker
  <2>6. CASE CheckShutdown
    BY <2>6 DEF CheckShutdown
  <2>7. CASE RestartDelay
    BY <2>7 DEF RestartDelay
  <2> QED
    BY <1>1, <2>1, <2>2, <2>3, <2>4, <2>5, <2>6, <2>7 DEF Loop
<1>2. CASE ForwardTerm
  <2>1. CASE current = Nil /\ Panic
    BY <2>1, LoopStays DEF Panic, Alive, mainVars
  <2>2. CASE current # Nil /\ ~(current = Nil /\ Panic)
    <3>1. worker[current] \in WorkerStates
      BY <2>2 DEF TypeOK
    <3>2. /\ worker' = [worker EXCEPT ![current] = Terminate(worker[current])]
          /\ UNCHANGED mainVars
      BY <2>2, <1>2 DEF ForwardTerm
    <3> QED
      BY <2>2, <3>1, <3>2, SignalStates, SignalsKeepDead, LoopStays
  <2> QED
    BY <2>1, <2>2, <1>2 DEF ForwardTerm
<1>3. CASE ForceKill
  <2>1. CASE current = Nil /\ Panic
    BY <2>1, LoopStays DEF Panic, Alive, mainVars
  <2>2. CASE current # Nil /\ ~(current = Nil /\ Panic)
    <3>1. /\ worker' = [worker EXCEPT ![current] = "dead"]
          /\ UNCHANGED mainVars
      BY <2>2, <1>3 DEF ForceKill, HandlerGoto
    <3> QED
      BY <2>2, <3>1, SignalsKeepDead, LoopStays
  <2> QED
    BY <2>1, <2>2, <1>3 DEF ForceKill
<1>4. CASE ForwardHup
  <2>1. CASE current = Nil /\ Panic
    BY <2>1, LoopStays DEF Panic, Alive, mainVars
  <2>2. CASE current # Nil /\ ~(current = Nil /\ Panic)
    <3>1. worker[current] \in WorkerStates
      BY <2>2 DEF TypeOK
    <3>2. /\ worker' = [worker EXCEPT ![current] = HangUp(worker[current])]
          /\ UNCHANGED mainVars
      BY <2>2, <1>4 DEF ForwardHup, ForwardGoto
    <3> QED
      BY <2>2, <3>1, <3>2, SignalStates, SignalsKeepDead, LoopStays
  <2> QED
    BY <2>1, <2>2, <1>4 DEF ForwardHup
<1>5. ASSUME NEW w \in Workers, Serve(w) \/ TakeHup(w) \/ Stopped(w) \/ Crash(w)
      PROVE  LoopInv'
  BY <1>5, WorkerSteps, LoopStays
<1>6. CASE UNCHANGED <<mainVars, worker>>
  BY <1>6, LoopStays DEF Alive
<1> QED
  BY <1>1, <1>2, <1>3, <1>4, <1>5, <1>6, LoopAside

-----------------------------------------------------------------------------
(* The shutdown. *)

LEMMA InitShutdown == Init => ShutdownInv
  BY WorkersAssumption DEF Init, ShutdownInv

\* What leaves the loop, the handler and the dead workers alone keeps it.
LEMMA ShutdownStays ==
  ASSUME ShutdownInv, UNCHANGED <<dog, main, cmd, handler, waiter, shutting>>,
         Alive' \subseteq Alive
  PROVE  ShutdownInv'
  BY DEF ShutdownInv

\* A panic ends the process without an exit.
LEMMA PanicShutdown == ASSUME ShutdownInv, Panic PROVE ShutdownInv'
  BY DEF ShutdownInv, Panic, Alive, mainVars, signalVars

LEMMA LoopShutdown ==
  ASSUME TypeOK, LoopInv, ShutdownInv, Loop
  PROVE  ShutdownInv'
<1> USE WorkersAssumption DEF ShutdownInv, signalVars, dogVars
<1>1. CASE StartWorker
  <2>1. waiter = "none" /\ (~shutting \/ handler = "signal")
    BY <1>1 DEF StartWorker, TypeOK
  <2> QED
    BY <1>1, <2>1 DEF StartWorker
<1>2. CASE StartFails
  BY <1>2 DEF StartFails, Alive
<1>3. CASE Assign
  BY <1>3 DEF Assign, Alive
<1>4. CASE WaitReturns
  BY <1>4 DEF WaitReturns, Alive
<1>5. CASE ClearWorker
  BY <1>5 DEF ClearWorker, Alive
<1>6. CASE CheckShutdown
  BY <1>6 DEF CheckShutdown, Alive
<1>7. CASE RestartDelay
  BY <1>7 DEF RestartDelay, Alive
<1> QED
  BY <1>1, <1>2, <1>3, <1>4, <1>5, <1>6, <1>7 DEF Loop

\* The two ends of the wait: the worker is dead, and it was the only one.
LEMMA HandlerShutdown ==
  ASSUME TypeOK, LoopInv, ShutdownInv, Shutdown \/ Waiter
  PROVE  ShutdownInv'
<1> USE WorkersAssumption DEF TypeOK, ShutdownInv, HandlerGoto, mainVars, dogVars
<1>1. CASE ReceiveTerm
  BY <1>1 DEF ReceiveTerm, Alive
<1>2. CASE TestWorker
  BY <1>2 DEF TestWorker, Alive
<1>3. CASE TestProcess
  BY <1>3, PanicShutdown DEF TestProcess, Alive
<1>4. CASE LogForward \/ StoreShutdown
  <2>1. CASE LogForward
    BY <2>1, PanicShutdown DEF LogForward, Alive
  <2>2. CASE StoreShutdown
    BY <2>2 DEF StoreShutdown, Alive
  <2> QED
    BY <1>4, <2>1, <2>2
<1>5. CASE ForwardTerm
  <2>1. CASE current = Nil /\ Panic
    BY <2>1, PanicShutdown
  <2>2. CASE current # Nil /\ ~(current = Nil /\ Panic)
    <3>1. /\ handler = "signal" /\ handler' = "select" /\ waiter' = "call"
          /\ UNCHANGED <<dog, main, cmd, shutting>>
      BY <2>2, <1>5 DEF ForwardTerm
    <3>2. main \in {"wait", "clear"}
      BY <2>2 DEF LoopInv
    <3> QED
      BY <3>1, <3>2
  <2> QED
    BY <2>1, <2>2, <1>5 DEF ForwardTerm
<1>6. CASE WorkerExited
  BY <1>6 DEF WorkerExited, Alive
<1>7. CASE ForceKill
  <2>1. CASE current = Nil /\ Panic
    BY <2>1, PanicShutdown
  <2>2. CASE current # Nil /\ ~(current = Nil /\ Panic)
    <3>1. current = cmd /\ cmd \in Workers
      BY <2>2 DEF LoopInv
    <3>2. worker' = [worker EXCEPT ![cmd] = "dead"]
      BY <2>2, <3>1, <1>7 DEF ForceKill
    <3>3. Alive' = {}
      BY <3>1, <3>2 DEF LoopInv, Alive
    <3>4. /\ handler = "select" /\ handler' = "remove"
          /\ UNCHANGED <<dog, main, cmd, waiter, shutting>>
      BY <2>2, <1>7 DEF ForceKill
    <3> QED
      BY <3>3, <3>4
  <2> QED
    BY <2>1, <2>2, <1>7 DEF ForceKill
<1>8. CASE RemovePID
  BY <1>8 DEF RemovePID, Alive
<1>9. CASE Exit
  BY <1>9 DEF Exit, Alive, signalVars
<1>10. CASE WaiterCalls
  <2>1. CASE current = Nil /\ Panic
    BY <2>1, PanicShutdown
  <2>2. CASE current # Nil /\ ~(current = Nil /\ Panic)
    <3>1. /\ waiter = "call" /\ waiter' = current /\ current = cmd
          /\ UNCHANGED <<dog, main, cmd, handler, shutting, worker>>
      BY <2>2, <1>10 DEF WaiterCalls, LoopInv
    <3> QED
      BY <3>1 DEF Alive
  <2> QED
    BY <2>1, <2>2, <1>10 DEF WaiterCalls
<1>11. CASE WaiterDone
  <2>1. Alive = {}
    BY <1>11 DEF WaiterDone, LoopInv, Alive
  <2> QED
    BY <2>1, <1>11 DEF WaiterDone, Alive
<1> QED
  BY <1>1, <1>2, <1>3, <1>4, <1>5, <1>6, <1>7, <1>8, <1>9, <1>10, <1>11
     DEF Shutdown, Waiter

LEMMA NextShutdown == TypeOK /\ LoopInv /\ ShutdownInv /\ [Next]_vars => ShutdownInv'
<1> SUFFICES ASSUME TypeOK, LoopInv, ShutdownInv, [Next]_vars PROVE ShutdownInv'
  OBVIOUS
<1>1. CASE Loop
  BY <1>1, LoopShutdown
<1>2. CASE Shutdown \/ Waiter
  BY <1>2, HandlerShutdown
<1>3. CASE ForwardHup
  <2>1. CASE current = Nil /\ Panic
    BY <2>1, PanicShutdown
  <2>2. CASE current # Nil /\ ~(current = Nil /\ Panic)
    <3>1. worker[current] \in WorkerStates
      BY <2>2 DEF TypeOK
    <3>2. /\ worker' = [worker EXCEPT ![current] = HangUp(worker[current])]
          /\ UNCHANGED <<dogVars, mainVars, signalVars>>
      BY <2>2, <1>3 DEF ForwardHup, ForwardGoto
    <3>3. Alive' \subseteq Alive
      BY <2>2, <3>1, <3>2, SignalStates, SignalsKeepDead
    <3> QED
      BY <3>2, <3>3, ShutdownStays DEF dogVars, mainVars, signalVars
  <2> QED
    BY <2>1, <2>2, <1>3 DEF ForwardHup
<1>4. CASE TestHupProcess
  BY <1>4, PanicShutdown, ShutdownStays
     DEF TestHupProcess, ForwardGoto, Alive, dogVars, mainVars, signalVars
<1>5. CASE ReceiveHup \/ TestHup
  BY <1>5, ShutdownStays
     DEF ReceiveHup, TestHup, ForwardGoto, Alive, dogVars, mainVars, signalVars
<1>6. CASE ConfirmStart \/ WritePID \/ SendTerm \/ SendHup \/ CleanUp
  BY <1>6, ShutdownStays
     DEF ConfirmStart, WritePID, SendTerm, SendHup, CleanUp, Alive, dogVars,
         mainVars, signalVars
<1>7. ASSUME NEW w \in Workers, Serve(w) \/ TakeHup(w) \/ Stopped(w) \/ Crash(w)
      PROVE  ShutdownInv'
  BY <1>7, WorkerSteps, ShutdownStays DEF dogVars, mainVars, signalVars
<1>8. CASE UNCHANGED vars
  BY <1>8, ShutdownStays DEF vars, Alive, dogVars, mainVars, signalVars
<1> QED
  BY <1>1, <1>2, <1>3, <1>4, <1>5, <1>6, <1>7, <1>8 DEF Next, Forward

-----------------------------------------------------------------------------
(* The PID file. *)

LEMMA InitPidFile == Init => RunningHasPidFile
  BY DEF Init, RunningHasPidFile

\* No step brings back a watchdog that has ended, or a handler that is about to
\* end it, and only that handler and the commands that find it ended remove the file.
LEMMA NextPidFile == TypeOK /\ RunningHasPidFile /\ [Next]_vars => RunningHasPidFile'
<1> SUFFICES ASSUME TypeOK, RunningHasPidFile, [Next]_vars PROVE RunningHasPidFile'
  OBVIOUS
<1> USE DEF RunningHasPidFile, Up, dogVars, signalVars
<1>1. CASE ConfirmStart \/ WritePID \/ SendTerm \/ SendHup \/ CleanUp
  BY <1>1 DEF ConfirmStart, WritePID, SendTerm, SendHup, CleanUp
<1>2. CASE Loop
  BY <1>2 DEF Loop, StartWorker, StartFails, Assign, WaitReturns, ClearWorker,
              CheckShutdown, RestartDelay
<1>3. CASE Shutdown
  BY <1>3 DEF Shutdown, ReceiveTerm, TestWorker, TestProcess, LogForward, StoreShutdown, ForwardTerm,
              WorkerExited, ForceKill, RemovePID, Exit, HandlerGoto, Panic
<1>4. CASE Waiter \/ Forward
  BY <1>4 DEF Waiter, WaiterCalls, WaiterDone, Forward, ReceiveHup, TestHup,
              TestHupProcess, ForwardHup, ForwardGoto, Panic
<1>5. ASSUME NEW w \in Workers, Serve(w) \/ TakeHup(w) \/ Stopped(w) \/ Crash(w)
      PROVE  RunningHasPidFile'
  BY <1>5, WorkerSteps
<1>6. CASE UNCHANGED vars
  BY <1>6 DEF vars
<1> QED
  BY <1>1, <1>2, <1>3, <1>4, <1>5, <1>6 DEF Next

-----------------------------------------------------------------------------
(* Theorems. *)

\* The inductive invariant of the watchdog's goroutines, commands and workers.
THEOREM WatchdogInvariant == Spec => []IInv
<1>1. Init => IInv
  BY InitType, InitLoop, InitShutdown, InitPidFile DEF IInv
<1>2. IInv /\ [Next]_vars => IInv'
  BY NextType, NextLoop, NextShutdown, NextPidFile DEF IInv
<1> QED
  BY <1>1, <1>2, PTL DEF Spec

\* The types of the variables of runWatchdog, its signal goroutines and workers.
THEOREM WatchdogTypeCorrect == Spec => []TypeOK
  BY WatchdogInvariant, PTL DEF IInv

\* runWatchdog starts a worker only when the one before has ended: two never
\* run at a time, whatever signals, crashes and kills come in between.
THEOREM WatchdogOneWorker == Spec => []OneWorker
<1>1. IInv => OneWorker
  <2> SUFFICES ASSUME IInv PROVE OneWorker
    OBVIOUS
  <2>1. Alive \subseteq {cmd}
    BY DEF IInv, LoopInv
  <2>2. IsFiniteSet({cmd}) /\ Cardinality({cmd}) = 1
    BY FS_Singleton
  <2>3. Cardinality(Alive) <= Cardinality({cmd})
    BY <2>1, <2>2, FS_Subset
  <2> QED
    BY <2>2, <2>3 DEF OneWorker
<1> QED
  BY <1>1, WatchdogInvariant, PTL

\* A watchdog that forwarded SIGTERM (setupGracefulShutdown) and exits leaves no
\* worker behind, although currentWorker is read again and again without a lock.
THEOREM WatchdogLeavesNoWorker == Spec => []ForwardedStopLeavesNoWorker
<1>1. IInv => ForwardedStopLeavesNoWorker
  BY DEF IInv, ShutdownInv, ForwardedStopLeavesNoWorker
<1> QED
  BY <1>1, WatchdogInvariant, PTL

\* While the watchdog runs, handleStop and handleWatchStart find its PID file.
THEOREM WatchdogHasPidFile == Spec => []RunningHasPidFile
  BY WatchdogInvariant, PTL DEF IInv
=============================================================================
