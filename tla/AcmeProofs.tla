----------------------------- MODULE AcmeProofs -----------------------------
(***************************************************************************)
(* Proofs about HttpChallenge, for any number of overlapping windows, and  *)
(* about Acme, for any number of failures and restarts: what is proved of  *)
(* the challenge server holds of the manager's use of it, challenges are   *)
(* cleared, and no issuance begins within a saved backoff window.          *)
(***************************************************************************)
EXTENDS Acme, FiniteSetTheorems, TLAPS

(* HttpChallenge. *)

\* Each window that holds a reference is counted, and a token is registered from
\* add to remove.
ServedInv ==
  /\ opened \subseteq Between /\ Cardinality(opened) <= refs
  /\ \A w \in Windows : w \in tokens <=> window[w] \in {"open", "active"}

ChInv == ChTypeOK /\ ListenerBounded /\ PortExclusive /\ ServedInv

\* The windows that are open form a finite set.
LEMMA BetweenFinite ==
  ChTypeOK => IsFiniteSet(Between) /\ Cardinality(Between) \in Nat
<1> SUFFICES ASSUME ChTypeOK
             PROVE  IsFiniteSet(Between) /\ Cardinality(Between) \in Nat
  OBVIOUS
<1>1. Between \subseteq Windows
  BY DEF Between
<1>2. IsFiniteSet(Between)
  BY <1>1, FS_Subset, WindowsAssumption
<1> QED
  BY <1>2, FS_CardinalityType

\* So do those that hold a reference.
LEMMA OpenedFinite ==
  ChTypeOK => IsFiniteSet(opened) /\ Cardinality(opened) \in Nat
<1> SUFFICES ASSUME ChTypeOK
             PROVE  IsFiniteSet(opened) /\ Cardinality(opened) \in Nat
  OBVIOUS
<1>1. IsFiniteSet(opened)
  BY FS_Subset, WindowsAssumption DEF ChTypeOK
<1> QED
  BY <1>1, FS_CardinalityType

\* The initial states satisfy the invariant.
LEMMA InitChInv == ChInit => ChInv
<1> SUFFICES ASSUME ChInit PROVE ChInv
  OBVIOUS
<1>1. ChTypeOK
  BY DEF ChInit, ChTypeOK
<1>2. Between = {}
  BY DEF ChInit, Between
<1>3. Cardinality(Between) = 0
  BY <1>2, FS_EmptySet
<1>4. ServedInv
  BY <1>2, <1>3 DEF ChInit, ServedInv
<1> QED
  BY <1>1, <1>3, <1>4 DEF ChInit, ChInv, ListenerBounded, PortExclusive

\* Registering or clearing a token leaves the port and the count alone.
LEMMA TokenChInv ==
  ASSUME ChInv, (\E w \in Windows : Add(w) \/ Remove(w)) \/ OtherProcess
  PROVE  ChInv'
<1>1. ChTypeOK'
  BY DEF ChInv, ChTypeOK, Add, Remove, OtherProcess
<1>2. Between' = Between /\ UNCHANGED <<refs, listener, opened>>
  BY DEF ChInv, ChTypeOK, Between, Add, Remove, OtherProcess
<1>3. ListenerBounded'
  BY <1>2 DEF ChInv, ListenerBounded
<1>4. PortExclusive'
  BY <1>2 DEF ChInv, PortExclusive, Add, Remove, OtherProcess
<1>5. ServedInv'
  BY <1>2 DEF ChInv, ChTypeOK, ServedInv, Add, Remove, OtherProcess
<1> QED
  BY <1>1, <1>3, <1>4, <1>5 DEF ChInv

\* A window that opens adds at most one reference, and itself.
LEMMA OpenChInv ==
  ASSUME ChInv, NEW w \in Windows, OpenPort80(w)
  PROVE  ChInv'
<1> USE DEF ChInv
<1>1. ChTypeOK'
  <2>1. window' \in [Windows -> {"idle", "open", "active", "close"}] /\ refs' \in Nat
    BY DEF ChTypeOK, OpenPort80
  <2>2. listener' \in BOOLEAN /\ busy' \in BOOLEAN
    BY Zenon DEF ChTypeOK, OpenPort80
  <2>3. tokens' \subseteq Windows /\ opened' \subseteq Windows
    BY DEF ChTypeOK, OpenPort80
  <2> QED
    BY <2>1, <2>2, <2>3 DEF ChTypeOK
<1>2. w \notin Between /\ Between' = Between \cup {w}
  BY DEF ChTypeOK, Between, OpenPort80
<1>3. Cardinality(Between') = Cardinality(Between) + 1
  BY <1>2, BetweenFinite, FS_AddElement
<1>4. refs' <= Cardinality(Between')
  BY <1>3, BetweenFinite DEF ChTypeOK, ListenerBounded, OpenPort80
<1>5. listener' <=> refs' > 0
  BY DEF ChTypeOK, ListenerBounded, OpenPort80
<1>6. PortExclusive'
  BY DEF PortExclusive, OpenPort80
<1>7. ServedInv'
  <2>1. opened' \subseteq Between' /\ w \notin opened
    BY <1>2 DEF ServedInv, OpenPort80
  <2>2. Cardinality(opened') <= refs'
    <3>1. CASE ServePort80 /\ (listener \/ ~busy)
      <4>1. Cardinality(opened \cup {w}) = Cardinality(opened) + 1 /\ Cardinality(opened) \in Nat
        BY <2>1, OpenedFinite, FS_AddElement
      <4> QED
        BY <3>1, <4>1 DEF ServedInv, ChTypeOK, OpenPort80
    <3>2. CASE ~(ServePort80 /\ (listener \/ ~busy))
      BY <3>2 DEF ServedInv, OpenPort80
    <3> QED
      BY <3>1, <3>2
  <2>3. \A v \in Windows : v \in tokens' <=> window'[v] \in {"open", "active"}
    BY DEF ServedInv, ChTypeOK, OpenPort80
  <2> QED
    BY <2>1, <2>2, <2>3 DEF ServedInv
<1> QED
  BY <1>1, <1>4, <1>5, <1>6, <1>7 DEF ListenerBounded

\* A window that closes takes away itself and, if there is one, a reference.
LEMMA CloseChInv ==
  ASSUME ChInv, NEW w \in Windows, ClosePort80(w)
  PROVE  ChInv'
<1> USE DEF ChInv
<1>1. ChTypeOK'
  <2>1. window' \in [Windows -> {"idle", "open", "active", "close"}] /\ refs' \in Nat
    BY DEF ChTypeOK, ClosePort80
  <2>2. listener' \in BOOLEAN /\ busy' \in BOOLEAN
    BY Zenon DEF ChTypeOK, ClosePort80
  <2>3. tokens' \subseteq Windows /\ opened' \subseteq Windows
    BY DEF ChTypeOK, ClosePort80
  <2> QED
    BY <2>1, <2>2, <2>3 DEF ChTypeOK
<1>2. w \in Between /\ Between' = Between \ {w}
  BY DEF ChTypeOK, Between, ClosePort80
<1>3. Cardinality(Between') = Cardinality(Between) - 1
  BY <1>2, BetweenFinite, FS_RemoveElement
<1>4. ServePort80 \/ refs = 0
  BY DEF PortExclusive, ListenerBounded, ChTypeOK
<1>5. refs' <= Cardinality(Between')
  <2>1. Cardinality(Between') \in Nat
    BY <1>2, BetweenFinite, FS_RemoveElement, FS_CardinalityType
  <2>2. Cardinality(Between) \in Nat /\ refs \in Nat
        /\ refs <= Cardinality(Between)
    BY BetweenFinite DEF ListenerBounded, ChTypeOK
  <2>3. refs' = 0 \/ refs' = refs - 1
    BY <1>4, <2>2 DEF ClosePort80
  <2> QED
    BY <1>3, <2>1, <2>2, <2>3
<1>6. listener' <=> refs' > 0
  <2>1. CASE ServePort80
    <3>1. refs' = (IF refs > 0 THEN refs - 1 ELSE 0) /\ refs \in Nat
      BY <2>1 DEF ClosePort80, ChTypeOK
    <3>2. listener' <=> (listener /\ refs' # 0)
      BY <2>1, Zenon DEF ClosePort80
    <3>3. listener <=> refs > 0
      BY DEF ListenerBounded
    <3> QED
      BY <3>1, <3>2, <3>3
  <2>2. CASE ~ServePort80
    BY <2>2 DEF ClosePort80, ListenerBounded
  <2> QED
    BY <2>1, <2>2
<1>7. PortExclusive'
  BY DEF PortExclusive, ClosePort80
<1>8. ServedInv'
  <2>1. opened' \subseteq Between'
    BY <1>2 DEF ServedInv, ClosePort80
  <2>2. Cardinality(opened') <= refs'
    <3>1. CASE w \in opened
      <4>1. /\ Cardinality(opened \ {w}) = Cardinality(opened) - 1
            /\ Cardinality(opened) \in Nat /\ Cardinality(opened \ {w}) \in Nat
        BY <3>1, OpenedFinite, FS_RemoveElement, FS_CardinalityType
      <4>2. refs \in Nat /\ Cardinality(opened) <= refs
        BY DEF ServedInv, ChTypeOK
      <4>3. refs' = refs - 1
        BY <1>4, <4>1, <4>2 DEF ClosePort80
      <4> QED
        BY <3>1, <4>1, <4>2, <4>3 DEF ClosePort80
    <3>2. CASE w \notin opened
      <4>1. opened' = {} /\ refs' \in Nat
        BY <1>1, <3>2 DEF ClosePort80, ChTypeOK
      <4> QED
        BY <4>1, FS_EmptySet
    <3> QED
      BY <3>1, <3>2
  <2>3. \A v \in Windows : v \in tokens' <=> window'[v] \in {"open", "active"}
    BY DEF ServedInv, ChTypeOK, ClosePort80
  <2> QED
    BY <2>1, <2>2, <2>3 DEF ServedInv
<1> QED
  BY <1>1, <1>5, <1>6, <1>7, <1>8 DEF ListenerBounded

\* A restart forgets every window and every reference.
LEMMA RestartChInv == ASSUME ChInv, ChRestart PROVE ChInv'
<1>1. ChTypeOK'
  BY DEF ChInv, ChTypeOK, ChRestart
<1>2. Between' = {}
  BY DEF ChRestart, Between
<1>3. Cardinality(Between') = 0
  BY <1>2, FS_EmptySet
<1>4. ServedInv'
  BY <1>2, <1>3 DEF ChRestart, ServedInv
<1> QED
  BY <1>1, <1>3, <1>4 DEF ChRestart, ChInv, ListenerBounded, PortExclusive

\* The invariant holds in every reachable state.
THEOREM ChallengeInvariant == ChSpec => []ChInv
<1>1. ChInv /\ [ChNext]_chVars => ChInv'
  <2> SUFFICES ASSUME ChInv, [ChNext]_chVars PROVE ChInv'
    OBVIOUS
  <2>1. CASE UNCHANGED chVars
    BY <2>1 DEF chVars, ChInv, ChTypeOK, ListenerBounded, PortExclusive, ServedInv, Between
  <2> QED
    BY <2>1, TokenChInv, OpenChInv, CloseChInv, RestartChInv DEF ChNext
<1> QED
  BY <1>1, InitChInv, PTL DEF ChSpec

\* The temporary listener never outlives the challenge windows.
THEOREM ChallengeListenerBounded == ChSpec => []ListenerBounded
<1>1. ChInv => ListenerBounded
  BY DEF ChInv
<1> QED
  BY <1>1, ChallengeInvariant, PTL

\* A window that has opened port 80 is served until it closes, for any number of
\* windows, as long as nobody gives back a reference he does not have.
LEMMA ChInvServes == ChInv => OpenWindowsServed
<1> SUFFICES ASSUME ChInv, NEW w \in opened
             PROVE  listener /\ (window[w] = "active" => w \in tokens)
  BY DEF OpenWindowsServed
<1>1. Cardinality(opened) # 0
  BY OpenedFinite, FS_EmptySet DEF ChInv
<1>2. refs > 0
  BY <1>1, OpenedFinite DEF ChInv, ServedInv, ChTypeOK
<1>3. w \in Windows
  BY DEF ChInv, ChTypeOK
<1> QED
  BY <1>2, <1>3 DEF ChInv, ListenerBounded, ServedInv

THEOREM ChallengeOpenWindowsServed == ChSpec => []OpenWindowsServed
  BY ChInvServes, ChallengeInvariant, PTL

-----------------------------------------------------------------------------
(* Acme. *)

\* Every step of the manager is a step of the challenge server or leaves it
\* alone.
LEMMA StepsOfChallengeServer == [Next]_vars => [ChNext]_chVars
<1> SUFFICES ASSUME [Next]_vars PROVE ChNext \/ UNCHANGED chVars
  OBVIOUS
<1>1. CASE UNCHANGED vars
  BY <1>1 DEF vars
<1>2. CASE Wake \/ Check \/ Forget \/ Age \/ ReloadCerts \/ ReloadInstalls \/ Stop
  BY <1>2 DEF Wake, Check, Forget, Age, ReloadCerts, ReloadInstalls, Stop
<1>3. CASE Restart \/ PortTaken
  BY <1>3 DEF Restart, PortTaken, ChNext
<1>4. CASE \E n \in Backoffs : Elapse(n)
  BY <1>4 DEF Elapse
<1>5. ASSUME NEW w \in Windows, Work(w) \/ NetworkError(w) \/ FileError(w)
      PROVE  ChNext \/ UNCHANGED chVars
  <2>1. CASE Attempt(w) \/ RetryOnce(w) \/ GiveUp(w)
    BY <2>1 DEF Attempt, RetryOnce, GiveUp
  <2>2. CASE EnsureAccount(w) \/ Register(w) \/ SaveMeta(w)
    BY <2>2 DEF EnsureAccount, Register, SaveMeta
  <2>3. CASE DiscardKey(w) \/ DiscardMeta(w) \/ FileError(w)
    BY <2>3 DEF DiscardKey, DiscardMeta, FileError
  <2>4. CASE Prepare(w) \/ PrepareOpen(w)
    BY <2>4 DEF Prepare, PrepareOpen, ChNext
  <2>5. CASE Validate(w) \/ NetworkError(w)
    BY <2>5 DEF Validate, NetworkError, Answered, ChNext
  <2>6. CASE Cleanup(w)
    BY <2>6 DEF Cleanup, ChNext
  <2>7. CASE WriteCert(w) \/ WriteKey(w) \/ Load(w) \/ Install(w)
    BY <2>7 DEF WriteCert, WriteKey, Load, Install
  <2> QED
    BY <1>5, <2>1, <2>2, <2>3, <2>4, <2>5, <2>6, <2>7 DEF Work
<1> QED
  BY <1>1, <1>2, <1>3, <1>4, <1>5 DEF Next

\* So what holds of the challenge server, however it is used, holds of it here.
LEMMA AcmeKeepsChInv == Spec => []ChInv
<1>1. Init => ChInit
  BY DEF Init
<1> QED
  BY <1>1, StepsOfChallengeServer, ChallengeInvariant, PTL DEF Spec, ChSpec

\* The port-80 listener never outlives the challenge windows of the manager.
THEOREM AcmeListenerBounded == Spec => []ListenerBounded
<1>1. ChInv => ListenerBounded
  BY DEF ChInv
<1> QED
  BY <1>1, AcmeKeepsChInv, PTL

\* The challenge of a goroutine that has opened port 80, or found it open, is
\* served until that goroutine ends it, whatever becomes of the other one's.
THEOREM AcmeOpenWindowsServed == Spec => []OpenWindowsServed
  BY ChInvServes, AcmeKeepsChInv, PTL

\* The manager never holds port 80 together with another process.
THEOREM AcmePortExclusive == Spec => []PortExclusive
<1>1. ChInv => PortExclusive
  BY DEF ChInv
<1> QED
  BY <1>1, AcmeKeepsChInv, PTL

-----------------------------------------------------------------------------

\* What the history variable guard says is in the memory of the manager and
\* in issue-state.json, which is what a restart reads.
BackoffInv ==
  /\ {entry, saved, guard} \subseteq Backoffs \cup {0}
  /\ guard # 0 => entry = guard /\ saved = guard

\* Two windows at most are in use, so that there is a number for a new one.
LEMMA BackoffLeft ==
  ASSUME BackoffInv
  PROVE  \E m \in Backoffs : m \notin {entry, saved, guard}
<1>1. \A x \in Backoffs \cup {0}, y \in Backoffs \cup {0} :
        \E m \in Backoffs : m # x /\ m # y
  BY DEF Backoffs
<1>2. PICK m \in Backoffs : m # entry /\ m # saved
  BY <1>1 DEF BackoffInv
<1>3. m # guard
  BY <1>2 DEF BackoffInv, Backoffs
<1> QED
  BY <1>2, <1>3

\* Success clears the backoff, whether or not that could be saved.
LEMMA SuccessBackoff == ASSUME BackoffInv, RecordSuccess PROVE BackoffInv'
  BY DEF BackoffInv, RecordSuccess, SaveLocked

\* A failure begins a window that guard has if it could be saved.
LEMMA FailureBackoff == ASSUME BackoffInv, RecordFailure PROVE BackoffInv'
<1> DEFINE n == CHOOSE m \in Backoffs : m \notin {entry, saved, guard}
<1>1. n \in Backoffs
  BY BackoffLeft
<1> HIDE DEF n
<1>2. entry' = n /\ SaveLocked(n) /\ guard' = (IF saved' = n THEN n ELSE 0)
  BY DEF RecordFailure, n
<1> QED
  BY <1>1, <1>2 DEF BackoffInv, SaveLocked

\* Every step keeps the backoff in memory and on disk in step with guard.
LEMMA NextBackoff == ASSUME BackoffInv, [Next]_vars PROVE BackoffInv'
<1>1. CASE UNCHANGED retryVars
  BY <1>1 DEF BackoffInv, retryVars
<1>2. ASSUME NEW w \in Windows, GiveUp(w) PROVE BackoffInv'
  BY <1>2, FailureBackoff DEF GiveUp
<1>3. ASSUME NEW w \in Windows, Install(w) PROVE BackoffInv'
  BY <1>3, SuccessBackoff DEF Install
<1>4. CASE Restart
  BY <1>4 DEF Restart, LoadState, BackoffInv
<1>5. ASSUME NEW n \in Backoffs, Elapse(n) PROVE BackoffInv'
  BY <1>5 DEF Elapse, BackoffInv
<1>6. CASE \/ UNCHANGED vars \/ Wake \/ Check \/ Forget \/ Age
           \/ ReloadCerts \/ ReloadInstalls \/ Stop \/ PortTaken
  BY <1>6, <1>1
     DEF vars, Wake, Check, Forget, Age, ReloadCerts, ReloadInstalls, Stop, PortTaken
<1>7. ASSUME NEW w \in Windows, Work(w) \/ NetworkError(w) \/ FileError(w),
             ~GiveUp(w), ~Install(w)
      PROVE  BackoffInv'
  <2>1. UNCHANGED retryVars
    BY <1>7 DEF Work, Attempt, RetryOnce, EnsureAccount, Register, SaveMeta,
       DiscardKey, DiscardMeta, Prepare, PrepareOpen, Validate, Answered,
       Cleanup, WriteCert, WriteKey, Load, NetworkError, FileError
  <2> QED
    BY <2>1, <1>1
<1> QED
  BY <1>2, <1>3, <1>4, <1>5, <1>6, <1>7 DEF Next

-----------------------------------------------------------------------------

\* Where a step leads and what it keeps of its goroutine.
LEMMA StepType ==
  ASSUME LocalTypeOK, NEW w \in Windows, NEW from, NEW to \in Labels,
         Step(w, from, to)
  PROVE  /\ LocalTypeOK'
         /\ pc[w] = from /\ pc'[w] = to
         /\ \A v \in Windows \ {w} : pc'[v] = pc[v]
  BY DEF LocalTypeOK, Step, At, GoTo

\* issueAndStore returns to a label of its goroutine.
LEMMA ReturnType ==
  ASSUME LocalTypeOK, NEW w \in Windows, Return(w)
  PROVE  /\ LocalTypeOK' /\ pc'[w] # "account"
         /\ \A v \in Windows \ {w} : pc'[v] = pc[v]
  BY DEF LocalTypeOK, Return, Rest, GoTo, Labels

\* A goroutine goes from "attempt" to "account" only when there is no entry.
Goes == \A w \in Windows : pc[w] = "attempt" /\ pc'[w] = "account" => entry = 0

\* Every step of a goroutine keeps the types of the labels, and goes to work
\* only when there is no entry.
LEMMA WorkLocal ==
  ASSUME LocalTypeOK, NEW w \in Windows, Work(w) \/ NetworkError(w) \/ FileError(w)
  PROVE  LocalTypeOK' /\ Goes
<1>1. CASE Attempt(w)
  <2> DEFINE to == IF entry = 0 THEN "account" ELSE Rest(w)
  <2>1. Step(w, "attempt", to) /\ to \in Labels
    BY <1>1 DEF Attempt, Rest, Labels
  <2>2. entry # 0 => to # "account"
    BY DEF Rest
  <2> HIDE DEF to
  <2> QED
    BY <2>1, <2>2, StepType DEF Goes
<1>2. CASE RetryOnce(w)
  <2>1. CASE Return(w)
    BY <2>1, ReturnType DEF Goes
  <2>2. CASE ~Return(w)
    BY <1>2, <2>2 DEF RetryOnce, Goes, LocalTypeOK, At, GoTo, Labels
  <2> QED
    BY <2>1, <2>2
<1>3. CASE GiveUp(w)
  BY <1>3, ReturnType DEF GiveUp, Goes
<1>4. CASE EnsureAccount(w)
  BY <1>4 DEF EnsureAccount, Order, Goes, LocalTypeOK, At, GoTo, Labels
<1>5. CASE SaveMeta(w)
  BY <1>5 DEF SaveMeta, Order, Goes, LocalTypeOK, At, GoTo, Labels
<1>6. CASE DiscardMeta(w)
  BY <1>6 DEF DiscardMeta, Goes, LocalTypeOK, At, GoTo, Labels
<1>7. CASE Register(w) \/ DiscardKey(w) \/ Prepare(w) \/ WriteCert(w) \/ WriteKey(w)
  BY <1>7, StepType DEF Register, DiscardKey, Prepare, WriteCert, WriteKey, Goes, Labels
<1>8. CASE PrepareOpen(w)
  BY <1>8 DEF PrepareOpen, localVars, LocalTypeOK, Goes
<1>9. ASSUME NEW to \in {"won", "lost"}, Answered(w, to) PROVE LocalTypeOK' /\ Goes
  BY <1>9, StepType DEF Answered, Goes, Labels
<1>10. CASE Validate(w)
  <2>1. CASE Reached(w)
    BY <1>10, <2>1, <1>9 DEF Validate
  <2>2. CASE ~Reached(w)
    BY <1>10, <2>2, <1>9 DEF Validate
  <2> QED
    BY <2>1, <2>2
<1>11. CASE Cleanup(w)
  BY <1>11, StepType DEF Cleanup, Goes, Labels
<1>12. CASE Load(w) \/ Install(w)
  BY <1>12, StepType, ReturnType DEF Load, Install, Goes, Labels
<1>13. CASE NetworkError(w)
  BY <1>13, <1>9, StepType DEF NetworkError, Goes, Labels
<1>14. CASE FileError(w)
  BY <1>14, StepType DEF FileError, Goes, Labels
<1> QED
  BY <1>1, <1>2, <1>3, <1>4, <1>5, <1>6, <1>7, <1>8, <1>10, <1>11, <1>12, <1>13,
     <1>14 DEF Work

\* Every step does.
LEMMA NextLocal == ASSUME LocalTypeOK, [Next]_vars PROVE LocalTypeOK' /\ Goes
<1>1. CASE UNCHANGED localVars
  BY <1>1 DEF localVars, LocalTypeOK, Goes
<1>2. CASE UNCHANGED vars \/ Forget \/ Age \/ ReloadCerts \/ ReloadInstalls \/ Stop \/ PortTaken
  BY <1>2, <1>1 DEF vars, Forget, Age, ReloadCerts, ReloadInstalls, Stop, PortTaken
<1>3. ASSUME NEW n \in Backoffs, Elapse(n) PROVE LocalTypeOK' /\ Goes
  BY <1>3, <1>1 DEF Elapse
<1>4. CASE Wake
  BY <1>4, StepType, AcmeAssumption DEF Wake, Goes, Labels
<1>5. CASE Check
  BY <1>5, StepType, AcmeAssumption DEF Check, Goes, Labels
<1>6. CASE Restart
  BY <1>6 DEF Restart, Started, LocalTypeOK, Goes, Labels
<1> QED
  BY <1>2, <1>3, <1>4, <1>5, <1>6, WorkLocal DEF Next

\* No issuance begins within the backoff window of the last failure that was
\* saved, whichever goroutine failed and however often the process restarted.
THEOREM AcmeBackoffRespected == Spec => BackoffRespected
<1> DEFINE I == LocalTypeOK /\ BackoffInv
<1>1. Init => I
  BY DEF Init, BackoffInv, LocalTypeOK, Started, Labels
<1>2. I /\ [Next]_vars => I'
  BY NextBackoff, NextLocal
<1>3. I /\ [Next]_vars =>
        [\A w \in Windows : pc[w] = "attempt" /\ pc'[w] = "account" => guard = 0]_vars
  BY NextLocal DEF Goes, BackoffInv
<1> QED
  BY <1>1, <1>2, <1>3, PTL DEF Spec, BackoffRespected

-----------------------------------------------------------------------------

\* A goroutine between the set-up and the clean-up of a challenge.
InWindow == {"answer", "won", "lost"}

\* Where a goroutine is, where its window is and what it has registered agree.
WindowInv ==
  /\ \A w \in Windows :
       IF mode = "http-01"
         THEN /\ pc[w] = "answer" <=> window[w] \in {"open", "active"}
              /\ pc[w] \in {"won", "lost"} <=> window[w] = "close"
         ELSE window[w] = "idle"
  /\ \A w \in tokens : window[w] \in {"open", "active"}
  /\ slot \in Windows => pc[slot] \in InWindow
  /\ slot \in Windows \cup {"none"}
  /\ mode = "http-01" => slot = "none"

\* The goroutines stay where they are or move outside challenge windows.
MovesOutside ==
  \A v \in Windows : pc'[v] = pc[v] \/ (pc[v] \notin InWindow /\ pc'[v] \notin InWindow)

\* A step outside challenge windows that leaves the challenges alone.
LEMMA OutsideWindow ==
  ASSUME WindowInv, MovesOutside, UNCHANGED <<chVars, slot, mode>>
  PROVE  WindowInv'
<1>1. \A w \in Windows :
        /\ pc'[w] = "answer" <=> pc[w] = "answer"
        /\ pc'[w] \in {"won", "lost"} <=> pc[w] \in {"won", "lost"}
        /\ pc'[w] \in InWindow <=> pc[w] \in InWindow
  BY DEF MovesOutside, InWindow
<1>2. /\ window' = window /\ tokens' = tokens /\ slot' = slot /\ mode' = mode
  BY DEF chVars
<1> QED
  BY <1>1, <1>2 DEF WindowInv

\* A step between two labels outside challenge windows.
LEMMA StepOutside ==
  ASSUME LocalTypeOK, NEW w \in Windows, NEW from, NEW to \in Labels \ InWindow,
         from \notin InWindow, Step(w, from, to)
  PROVE  MovesOutside
  BY StepType DEF MovesOutside

\* The issuance returns from outside a window to outside one.
LEMMA ReturnOutside ==
  ASSUME LocalTypeOK, NEW w \in Windows, pc[w] \notin InWindow, Return(w)
  PROVE  MovesOutside
  BY DEF MovesOutside, LocalTypeOK, Return, Rest, GoTo, InWindow

\* The challenge is set up, and port 80 opened for it.
LEMMA PrepareWindow ==
  ASSUME WindowInv, LocalTypeOK, ChTypeOK, NEW w \in Windows, Prepare(w) \/ PrepareOpen(w)
  PROVE  WindowInv'
<1>1. CASE Prepare(w)
  <2>1. /\ pc[w] = "challenge" /\ pc'[w] = "answer" /\ mode' = mode
        /\ \A v \in Windows \ {w} : pc'[v] = pc[v]
    BY <1>1, StepType DEF Prepare, Labels, envVars
  <2>2. CASE mode = "http-01"
    BY <1>1, <2>1, <2>2 DEF Prepare, Add, WindowInv, ChTypeOK, InWindow
  <2>3. CASE mode # "http-01"
    BY <1>1, <2>1, <2>3 DEF Prepare, chVars, WindowInv, ChTypeOK, InWindow
  <2> QED
    BY <2>2, <2>3
<1>2. CASE PrepareOpen(w)
  BY <1>2 DEF PrepareOpen, OpenPort80, localVars, envVars, WindowInv, ChTypeOK, At, InWindow
<1> QED
  BY <1>1, <1>2

\* The CA has answered: the token is removed, the challenge certificate not yet.
LEMMA AnsweredWindow ==
  ASSUME WindowInv, LocalTypeOK, ChTypeOK, NEW w \in Windows,
         NEW to \in {"won", "lost"}, Answered(w, to), mode' = mode
  PROVE  WindowInv'
<1>1. /\ pc[w] = "answer" /\ pc'[w] = to /\ slot' = slot
      /\ \A v \in Windows \ {w} : pc'[v] = pc[v]
  BY StepType DEF Answered, Labels
<1>2. CASE mode = "http-01"
  BY <1>1, <1>2 DEF Answered, Remove, WindowInv, ChTypeOK, InWindow
<1>3. CASE mode # "http-01"
  BY <1>1, <1>3 DEF Answered, chVars, WindowInv, ChTypeOK, InWindow
<1> QED
  BY <1>2, <1>3

\* The clean-up leaves the window and takes the challenge away.
LEMMA CleanupWindow ==
  ASSUME WindowInv, LocalTypeOK, ChTypeOK, NEW w \in Windows, Cleanup(w)
  PROVE  WindowInv'
<1>1. /\ pc[w] \in {"won", "lost"} /\ pc'[w] \notin InWindow /\ mode' = mode
      /\ \A v \in Windows \ {w} : pc'[v] = pc[v]
  BY StepType DEF Cleanup, Labels, envVars, InWindow
<1>2. CASE mode = "http-01"
  <2>1. /\ window[w] = "close" /\ window' = [window EXCEPT ![w] = "idle"]
        /\ tokens' = tokens /\ slot' = slot
    BY <1>2 DEF Cleanup, ClosePort80
  <2>2. slot' = "none" /\ "none" \notin Windows /\ w \notin tokens
    BY <1>2, <2>1, AcmeAssumption DEF WindowInv
  <2>3. window'[w] = "idle" /\ \A v \in Windows \ {w} : window'[v] = window[v]
    BY <2>1 DEF ChTypeOK
  <2>4. \A v \in tokens' : window'[v] \in {"open", "active"}
    BY <2>1, <2>2, <2>3 DEF WindowInv, ChTypeOK
  <2> QED
    BY <1>1, <1>2, <2>2, <2>3, <2>4 DEF WindowInv, InWindow
<1>3. CASE mode # "http-01"
  BY <1>1, <1>3, AcmeAssumption DEF Cleanup, chVars, WindowInv, ChTypeOK, InWindow
<1> QED
  BY <1>2, <1>3

\* Every step of a goroutine keeps challenges and windows in step.
LEMMA WorkWindow ==
  ASSUME WindowInv, LocalTypeOK, ChTypeOK, NEW w \in Windows,
         Work(w) \/ NetworkError(w) \/ FileError(w)
  PROVE  WindowInv'
<1>1. CASE Attempt(w)
  <2> DEFINE to == IF entry = 0 THEN "account" ELSE Rest(w)
  <2>1. Step(w, "attempt", to) /\ to \in Labels \ InWindow
    BY <1>1 DEF Attempt, Rest, Labels, InWindow
  <2> HIDE DEF to
  <2>2. MovesOutside
    BY <2>1, StepOutside DEF InWindow
  <2> QED
    BY <1>1, <2>2, OutsideWindow DEF Attempt, envVars
<1>2. CASE RetryOnce(w)
  <2>1. MovesOutside
    <3>1. pc[w] \notin InWindow
      BY <1>2 DEF RetryOnce, At, InWindow
    <3>2. CASE Return(w)
      BY <3>1, <3>2, ReturnOutside
    <3>3. CASE ~Return(w)
      BY <1>2, <3>1, <3>3 DEF RetryOnce, MovesOutside, LocalTypeOK, GoTo, InWindow
    <3> QED
      BY <3>2, <3>3
  <2> QED
    BY <1>2, <2>1, OutsideWindow DEF RetryOnce, envVars
<1>3. CASE GiveUp(w)
  <2>1. pc[w] \notin InWindow
    BY <1>3 DEF GiveUp, At, InWindow
  <2> QED
    BY <1>3, <2>1, ReturnOutside, OutsideWindow DEF GiveUp
<1>4. CASE EnsureAccount(w)
  <2>1. MovesOutside
    BY <1>4 DEF EnsureAccount, Order, MovesOutside, LocalTypeOK, At, GoTo, InWindow
  <2> QED
    BY <1>4, <2>1, OutsideWindow DEF EnsureAccount, envVars
<1>5. CASE SaveMeta(w)
  <2>1. MovesOutside
    BY <1>5 DEF SaveMeta, Order, MovesOutside, LocalTypeOK, At, GoTo, InWindow
  <2> QED
    BY <1>5, <2>1, OutsideWindow DEF SaveMeta, envVars
<1>6. CASE DiscardMeta(w)
  <2>1. MovesOutside
    BY <1>6 DEF DiscardMeta, MovesOutside, LocalTypeOK, At, GoTo, InWindow
  <2> QED
    BY <1>6, <2>1, OutsideWindow DEF DiscardMeta, envVars
<1>7. CASE Register(w) \/ DiscardKey(w) \/ WriteCert(w) \/ WriteKey(w)
  <2>1. MovesOutside
    BY <1>7, StepOutside DEF Register, DiscardKey, WriteCert, WriteKey, Labels, InWindow
  <2> QED
    BY <1>7, <2>1, OutsideWindow DEF Register, DiscardKey, WriteCert, WriteKey, envVars
<1>8. CASE Validate(w)
  <2>1. CASE Reached(w)
    BY <1>8, <2>1, AnsweredWindow DEF Validate, envVars
  <2>2. CASE ~Reached(w)
    BY <1>8, <2>2, AnsweredWindow DEF Validate, envVars
  <2> QED
    BY <2>1, <2>2
<1>9. CASE Load(w) \/ Install(w)
  <2>1. MovesOutside
    <3>1. CASE Load(w)
      BY <3>1, StepOutside DEF Load, Labels, InWindow
    <3>2. CASE Install(w)
      <4>1. pc[w] \notin InWindow
        BY <3>2 DEF Install, At, InWindow
      <4> QED
        BY <3>2, <4>1, ReturnOutside DEF Install
    <3> QED
      BY <1>9, <3>1, <3>2
  <2> QED
    BY <1>9, <2>1, OutsideWindow DEF Load, Install, envVars
<1>10. CASE NetworkError(w)
  <2>1. CASE Answered(w, "lost")
    BY <1>10, <2>1, AnsweredWindow DEF NetworkError
  <2>2. CASE ~Answered(w, "lost")
    <3>1. MovesOutside
      BY <1>10, <2>2, StepOutside DEF NetworkError, Labels, InWindow
    <3> QED
      BY <1>10, <2>2, <3>1, OutsideWindow DEF NetworkError
  <2> QED
    BY <2>1, <2>2
<1>11. CASE FileError(w)
  <2>1. MovesOutside
    BY <1>11, StepOutside DEF FileError, Labels, InWindow
  <2> QED
    BY <1>11, <2>1, OutsideWindow DEF FileError
<1> QED
  BY <1>1, <1>2, <1>3, <1>4, <1>5, <1>6, <1>7, <1>8, <1>9, <1>10, <1>11,
     PrepareWindow, CleanupWindow DEF Work

\* Every step does.
LEMMA NextWindow ==
  ASSUME WindowInv, LocalTypeOK, ChTypeOK, [Next]_vars PROVE WindowInv'
<1>1. CASE UNCHANGED vars \/ Forget \/ Age \/ ReloadCerts \/ ReloadInstalls \/ Stop
  <2>1. UNCHANGED <<chVars, pc, slot, mode>>
    BY <1>1 DEF vars, localVars, envVars, Forget, Age, ReloadCerts, ReloadInstalls, Stop
  <2> QED
    BY <2>1, OutsideWindow DEF MovesOutside
<1>2. ASSUME NEW n \in Backoffs, Elapse(n) PROVE WindowInv'
  BY <1>2, OutsideWindow DEF Elapse, MovesOutside, localVars, envVars
<1>3. CASE Wake
  <2>1. MovesOutside
    BY <1>3, StepOutside, AcmeAssumption DEF Wake, Labels, InWindow
  <2> QED
    BY <1>3, <2>1, OutsideWindow DEF Wake, envVars
<1>4. CASE Check
  <2>1. MovesOutside
    BY <1>4, StepOutside, AcmeAssumption DEF Check, Labels, InWindow
  <2> QED
    BY <1>4, <2>1, OutsideWindow DEF Check, envVars
<1>5. CASE PortTaken
  BY <1>5 DEF PortTaken, OtherProcess, localVars, envVars, WindowInv
<1>6. CASE Restart
  <2>1. \A w \in Windows : pc'[w] \notin InWindow
    BY <1>6 DEF Restart, Started, InWindow
  <2> QED
    BY <1>6, <2>1, AcmeAssumption DEF Restart, ChRestart, WindowInv, InWindow
<1> QED
  BY <1>1, <1>2, <1>3, <1>4, <1>5, <1>6, WorkWindow DEF Next

\* Outside challenge windows nothing of a challenge is left, whichever way
\* the windows ended: success, failure of the CA, Stop or a restart.
THEOREM AcmeChallengesCleared == Spec => []ChallengesCleared
<1> DEFINE I == LocalTypeOK /\ WindowInv
<1>1. Init => I
  BY AcmeAssumption DEF Init, ChInit, WindowInv, LocalTypeOK, Started, Labels, InWindow
<1>2. I /\ ChInv /\ [Next]_vars => I'
  BY NextWindow, NextLocal DEF ChInv
<1>3. I /\ ChInv => ChallengesCleared
  <2> SUFFICES ASSUME LocalTypeOK, WindowInv, ChInv,
                      \A w \in Windows : pc[w] \notin InWindow
               PROVE  tokens = {} /\ ~listener /\ slot = "none"
    BY DEF ChallengesCleared, InWindow
  <2>1. \A w \in Windows : window[w] = "idle"
    BY DEF WindowInv, ChInv, ChTypeOK, InWindow
  <2>2. tokens = {} /\ Between = {}
    BY <2>1 DEF WindowInv, ChInv, ChTypeOK, Between
  <2>3. ~listener
    BY <2>2, FS_EmptySet DEF ChInv, ChTypeOK, ListenerBounded
  <2>4. slot = "none"
    BY DEF WindowInv
  <2> QED
    BY <2>2, <2>3, <2>4
<1> QED
  BY <1>1, <1>2, <1>3, AcmeKeepsChInv, PTL DEF Spec

-----------------------------------------------------------------------------

\* What is on disk, what the CA knows, and the rest of the process.
RestTypeOK == FileTypeOK /\ AccountTypeOK /\ EnvTypeOK

LEMMA InitRest == Init => RestTypeOK
<1> SUFFICES ASSUME Init PROVE RestTypeOK
  OBVIOUS
<1>1. paired \in BOOLEAN /\ accKey \in BOOLEAN /\ accMeta \in BOOLEAN
      /\ accPaired \in BOOLEAN /\ stopped \in BOOLEAN
  BY Zenon DEF Init
<1>2. /\ certFile = "none" /\ writer = "none" /\ installed = "none"
      /\ loaded = [r \in Readers |-> "none"]
      /\ accWriter = "none" /\ known = {} /\ slot = "none"
      /\ mode \in {"http-01", "tls-alpn-01"} /\ mishaps = 0 /\ restarts = 0
  BY DEF Init
<1> QED
  BY <1>1, <1>2, AcmeAssumption DEF RestTypeOK, FileTypeOK, AccountTypeOK, EnvTypeOK, Pairs

\* A step that leaves the three groups alone.
LEMMA RestKept ==
  RestTypeOK /\ UNCHANGED <<fileVars, accountVars, slot, envVars>> => RestTypeOK'
BY DEF RestTypeOK, FileTypeOK, AccountTypeOK, EnvTypeOK, fileVars, accountVars, envVars

\* A mishap is counted only below the bound.
LEMMA Mishap ==
  ASSUME EnvTypeOK, mishaps < MaxMishaps, mishaps' = mishaps + 1
  PROVE  mishaps' \in 0 .. MaxMishaps
BY AcmeAssumption DEF EnvTypeOK

\* The steps of a goroutine.
LEMMA WorkRest ==
  ASSUME RestTypeOK, NEW w \in Windows, Work(w) \/ NetworkError(w) \/ FileError(w)
  PROVE  RestTypeOK'
<1> USE DEF RestTypeOK
<1>1. CASE \/ Attempt(w) \/ RetryOnce(w) \/ EnsureAccount(w) \/ PrepareOpen(w)
           \/ Validate(w)
  BY <1>1, RestKept
     DEF Attempt, RetryOnce, EnsureAccount, PrepareOpen, Validate, Answered
<1>2. CASE GiveUp(w) \/ Install(w) \/ NetworkError(w) \/ FileError(w)
  <2>1. UNCHANGED <<accountVars, slot, mode, stopped, restarts>>
    BY <1>2 DEF GiveUp, Install, NetworkError, FileError, Answered
  <2>2. UNCHANGED mishaps \/ (mishaps < MaxMishaps /\ mishaps' = mishaps + 1)
    BY <1>2 DEF GiveUp, Install, NetworkError, FileError, RecordFailure,
       RecordSuccess, SaveLocked
  <2>3. AccountTypeOK'
    BY <2>1 DEF AccountTypeOK, accountVars
  <2>4. EnvTypeOK'
    BY <2>1, <2>2, Mishap DEF EnvTypeOK
  <2>5. FileTypeOK'
    BY <1>2 DEF FileTypeOK, GiveUp, Install, NetworkError, FileError, Answered, fileVars,
                Pairs, Readers
  <2> QED
    BY <2>3, <2>4, <2>5
<1>3. CASE Register(w) \/ SaveMeta(w) \/ DiscardKey(w) \/ DiscardMeta(w)
  <2>1. UNCHANGED <<fileVars, slot, envVars>>
    BY <1>3 DEF Register, SaveMeta, DiscardKey, DiscardMeta
  <2>2. FileTypeOK' /\ EnvTypeOK'
    BY <2>1 DEF FileTypeOK, EnvTypeOK, fileVars, envVars
  <2>3. accKey' \in BOOLEAN /\ accMeta' \in BOOLEAN /\ accPaired' \in BOOLEAN
    BY <1>3, Zenon DEF AccountTypeOK, Register, SaveMeta, DiscardKey, DiscardMeta
  <2>4. accWriter' \in Windows \cup {"none"} /\ known' \subseteq Windows \cup {"file"}
    BY <1>3 DEF AccountTypeOK, Register, SaveMeta, DiscardKey, DiscardMeta
  <2> QED
    BY <2>2, <2>3, <2>4 DEF AccountTypeOK
<1>4. CASE Prepare(w) \/ Cleanup(w)
  <2>1. UNCHANGED <<fileVars, accountVars, envVars>> /\ slot' \in Windows \cup {"none"}
    BY <1>4 DEF Prepare, Cleanup, EnvTypeOK
  <2> QED
    BY <2>1 DEF FileTypeOK, AccountTypeOK, EnvTypeOK, fileVars, accountVars, envVars
<1>5. CASE WriteCert(w) \/ WriteKey(w) \/ Load(w)
  <2>1. UNCHANGED <<accountVars, slot, envVars>>
    BY <1>5 DEF WriteCert, WriteKey, Load
  <2>2. AccountTypeOK' /\ EnvTypeOK'
    BY <2>1 DEF AccountTypeOK, EnvTypeOK, accountVars, envVars
  <2>3. paired' \in BOOLEAN
    BY <1>5, Zenon DEF WriteCert, WriteKey, Load, FileTypeOK
  <2>4. /\ certFile' \in {"none", "valid", "due"} /\ writer' \in Windows \cup {"none"}
        /\ installed' \in Pairs /\ loaded' \in [Readers -> Pairs]
    BY <1>5 DEF FileTypeOK, WriteCert, WriteKey, Load, Pairs, Outdated
  <2> QED
    BY <2>2, <2>3, <2>4 DEF FileTypeOK
<1> QED
  BY <1>1, <1>2, <1>3, <1>4, <1>5 DEF Work

\* Every step.
LEMMA NextRest == ASSUME RestTypeOK, [Next]_vars PROVE RestTypeOK'
<1> USE DEF RestTypeOK
<1>1. CASE UNCHANGED vars \/ Wake \/ Check \/ PortTaken
  BY <1>1, RestKept DEF vars, Wake, Check, PortTaken
<1>2. ASSUME NEW n \in Backoffs, Elapse(n) PROVE RestTypeOK'
  BY <1>2, RestKept DEF Elapse
<1>3. CASE Forget
  <2>1. AccountTypeOK'
    BY <1>3 DEF Forget, AccountTypeOK
  <2>2. FileTypeOK'
    BY <1>3 DEF Forget, FileTypeOK, fileVars
  <2>3. EnvTypeOK'
    BY <1>3, Mishap DEF Forget, EnvTypeOK
  <2> QED
    BY <2>1, <2>2, <2>3
<1>4. CASE Age \/ ReloadCerts \/ ReloadInstalls
  BY <1>4 DEF Age, ReloadCerts, ReloadInstalls, Readers, Pairs, FileTypeOK, AccountTypeOK, EnvTypeOK, accountVars, envVars
<1>5. CASE Stop
  <2>1. stopped' \in BOOLEAN
    BY <1>5, Zenon DEF Stop
  <2>2. EnvTypeOK'
    BY <1>5, <2>1, Mishap DEF Stop, EnvTypeOK
  <2> QED
    BY <1>5, <2>2 DEF Stop, FileTypeOK, AccountTypeOK, fileVars, accountVars
<1>6. CASE Restart
  <2>1. stopped' \in BOOLEAN
    BY <1>6, Zenon DEF Restart
  <2>2. restarts' \in 0 .. MaxRestarts
    BY <1>6, AcmeAssumption DEF Restart, EnvTypeOK
  <2>3. EnvTypeOK'
    BY <1>6, <2>1, <2>2 DEF Restart, EnvTypeOK
  <2>4. FileTypeOK' /\ AccountTypeOK'
    BY <1>6 DEF Restart, FileTypeOK, AccountTypeOK, Pairs
  <2> QED
    BY <2>3, <2>4
<1> QED
  BY <1>1, <1>2, <1>3, <1>4, <1>5, <1>6, WorkRest DEF Next

\* The types of the manager, the challenge server, the files and the account.
THEOREM AcmeTypeCorrect == Spec => []TypeOK
<1> DEFINE I == LocalTypeOK /\ RestTypeOK /\ BackoffInv
<1>1. Init => I
  BY InitRest DEF Init, BackoffInv, LocalTypeOK, Started, Labels
<1>2. I /\ [Next]_vars => I'
  BY NextBackoff, NextLocal, NextRest
<1>3. ChInv /\ I => TypeOK
  BY DEF ChInv, RestTypeOK, BackoffInv, TypeOK
<1> QED
  BY <1>1, <1>2, <1>3, AcmeKeepsChInv, PTL DEF Spec
=============================================================================
