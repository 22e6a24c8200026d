-------------------------------- MODULE Acme --------------------------------
(***************************************************************************)
(* The ACME manager (acme/manager.go, issue.go, renew.go, retry.go,        *)
(* account.go, certstore.go): how the certificate of one vhost is issued,  *)
(* written, installed and renewed, with the failures of the CA and of the  *)
(* disk, and with crashes and restarts of the process.                     *)
(*                                                                         *)
(* Two goroutines issue for the vhost: "initial", which Start launches     *)
(* when there is no usable certificate, and "renew", the loop that wakes a *)
(* minute after the start and then every 12 hours.  Nothing keeps them     *)
(* apart.  Each solved authorization is a window of HttpChallenge, or in   *)
(* TLS-ALPN-01 mode a use of the one challenge certificate of the domain.  *)
(*                                                                         *)
(* A step is one change of what the goroutines share, with the calls to    *)
(* the CA before it, which change only the CA and local variables.  Two    *)
(* files that are written are written in two steps; two that are read one  *)
(* after the other are read in one (a torn read is an error like any       *)
(* other).  The CA opens an order of its own for every request.  Of two    *)
(* files that belong together the model keeps whether they match; backoff  *)
(* windows are numbered and the numbers used again.                        *)
(***************************************************************************)
EXTENDS HttpChallenge

CONSTANTS
  MaxMishaps,   \* bound: how many calls fail, how often the CA forgets its
                \* accounts and Stop is called
  MaxRestarts   \* bound: how often the process is started again

ASSUME AcmeAssumption ==
  /\ Windows = {"initial", "renew"}
  /\ MaxMishaps \in Nat /\ MaxRestarts \in Nat

VARIABLES
  pc,          \* where each goroutine is in issueAndStore
  try,         \* its first or its second doIssue
  again,       \* this doIssue has discarded the account and registered again
  certFile,    \* the certificate file: none, a valid certificate or one due
  writer,      \* whose certificate it is, while its key is to be written
  paired,      \* the key file holds the key of that certificate
  installed,   \* what the SNI store serves: none, certFile or an older one
  loaded,      \* the pair a goroutine has read from the files and not yet
               \* installed, in the same terms
  accKey,      \* account.key is there
  accMeta,     \* account.json is there
  accPaired,   \* they are of the same account
  accWriter,   \* whose key it is, while the metadata is to be written
  known,       \* the accounts the CA knows: "file" is that of account.json,
               \* and a goroutine's the one it has registered and not saved
  entry,       \* the entry of issueState: the backoff window that is running
  saved,       \* the same in issue-state.json
  guard,       \* history: the window of the last failure, if it was saved
  slot,        \* whose TLS-ALPN-01 certificate the store has for the domain
  mode,        \* the challenge mode
  stopped,     \* Stop has been called
  mishaps, restarts

localVars == <<pc, try, again>>
fileVars == <<certFile, writer, paired, installed, loaded>>
accountVars == <<accKey, accMeta, accPaired, accWriter, known>>
retryVars == <<entry, saved, guard>>
envVars == <<mode, stopped, mishaps, restarts>>
vars == <<chVars, localVars, fileVars, accountVars, retryVars, slot, envVars>>

Backoffs == 1 .. 3

Labels == {"done", "sleep", "check", "attempt", "account", "register",
           "savemeta", "discardkey", "discardmeta", "challenge", "answer",
           "won", "lost", "finalize", "writekey", "load", "install", "failed",
           "rejected"}

\* Who reads the files: the goroutines, and a reload of the configuration.
Readers == Windows \cup {"reload"}
Pairs == {"none", "older", "current"}

LocalTypeOK ==
  /\ pc \in [Windows -> Labels]
  /\ try \in [Windows -> {1, 2}] /\ again \in [Windows -> BOOLEAN]

FileTypeOK ==
  /\ certFile \in {"none", "valid", "due"} /\ writer \in Windows \cup {"none"}
  /\ paired \in BOOLEAN /\ installed \in Pairs /\ loaded \in [Readers -> Pairs]

AccountTypeOK ==
  /\ accKey \in BOOLEAN /\ accMeta \in BOOLEAN /\ accPaired \in BOOLEAN
  /\ accWriter \in Windows \cup {"none"} /\ known \subseteq Windows \cup {"file"}

EnvTypeOK ==
  /\ slot \in Windows \cup {"none"} /\ mode \in {"http-01", "tls-alpn-01"}
  /\ stopped \in BOOLEAN
  /\ mishaps \in 0 .. MaxMishaps /\ restarts \in 0 .. MaxRestarts

TypeOK ==
  /\ ChTypeOK /\ LocalTypeOK /\ FileTypeOK /\ AccountTypeOK /\ EnvTypeOK
  /\ {entry, saved, guard} \subseteq Backoffs \cup {0}

\* loadCertPair: both files are there and belong together.
Loadable == certFile # "none" /\ paired

\* Where the goroutines are after Start: the initial one exists only when the
\* vhost's certificate could not be loaded.
Started(usable) == [w \in Windows |->
  IF w = "renew" THEN "sleep" ELSE IF usable THEN "done" ELSE "attempt"]

Init ==
  /\ ChInit
  /\ pc = Started(FALSE)
  /\ try = [w \in Windows |-> 1] /\ again = [w \in Windows |-> FALSE]
  /\ certFile = "none" /\ writer = "none" /\ paired = FALSE /\ installed = "none"
  /\ loaded = [r \in Readers |-> "none"]
  /\ accKey = FALSE /\ accMeta = FALSE /\ accPaired = FALSE /\ accWriter = "none"
  /\ known = {} /\ entry = 0 /\ saved = 0 /\ guard = 0
  /\ slot = "none" /\ mode \in {"http-01", "tls-alpn-01"}
  /\ mode = "tls-alpn-01" => busy = FALSE   \* port 80 is not used
  /\ stopped = FALSE /\ mishaps = 0 /\ restarts = 0

At(w, label) == pc[w] = label
GoTo(w, label) == pc' = [pc EXCEPT ![w] = label]

\* The goroutine moves on and changes nothing else of its own.
Step(w, from, to) ==
  /\ At(w, from) /\ GoTo(w, to)
  /\ UNCHANGED <<try, again>>

-----------------------------------------------------------------------------
(* The renewal loop and the backoff. *)

\* renewLoop: the timer fires, unless the context has ended.
Wake ==
  /\ ~stopped
  /\ Step("renew", "sleep", "check")
  /\ UNCHANGED <<chVars, fileVars, accountVars, retryVars, slot, envVars>>

\* Seeded fault of Wanted: a certificate that cannot be read is passed by.
WantedWhenDue == certFile = "due"

\* Seeded fault of Wanted: the renewal time is not looked at.
WantedWhenMissing == certFile = "none"

\* renewalDue: the certificate file cannot be read, or its certificate is due.
\* The key file is not looked at.
Wanted == certFile \in {"none", "due"}

\* checkRenewals.
Check ==
  /\ Step("renew", "check", IF ~stopped /\ Wanted THEN "attempt" ELSE "sleep")
  /\ UNCHANGED <<chVars, fileVars, accountVars, retryVars, slot, envVars>>

\* Where a goroutine is when issueAndStore has returned.
Rest(w) == IF w = "initial" THEN "done" ELSE "sleep"

\* shouldAttempt and recordAttempt, at the start of issueAndStore.  The time
\* recordAttempt keeps is never read.
Attempt(w) ==
  /\ Step(w, "attempt", IF entry = 0 THEN "account" ELSE Rest(w))
  /\ UNCHANGED <<chVars, fileVars, accountVars, retryVars, slot, envVars>>

Return(w) ==
  /\ GoTo(w, Rest(w))
  /\ try' = [try EXCEPT ![w] = 1] /\ again' = [again EXCEPT ![w] = FALSE]

\* saveLocked: a failed save is ignored.
SaveLocked(n) ==
  \/ saved' = n /\ UNCHANGED mishaps
  \/ mishaps < MaxMishaps /\ mishaps' = mishaps + 1 /\ UNCHANGED saved

\* recordSuccess: the entry is deleted.
RecordSuccess ==
  /\ entry' = 0 /\ guard' = 0
  /\ SaveLocked(0)

\* recordFailure: a new backoff window begins.
RecordFailure ==
  LET n == CHOOSE m \in Backoffs : m \notin {entry, saved, guard} IN
  /\ entry' = n
  /\ SaveLocked(n)
  /\ guard' = IF saved' = n THEN n ELSE 0

\* The 2 seconds after a first failure have passed; once Stop was called
\* issueAndStore may return instead, and records nothing.
RetryOnce(w) ==
  /\ At(w, "failed") /\ try[w] = 1
  /\ \/ /\ GoTo(w, "account")
        /\ try' = [try EXCEPT ![w] = 2] /\ again' = [again EXCEPT ![w] = FALSE]
     \/ stopped /\ Return(w)
  /\ UNCHANGED <<chVars, fileVars, accountVars, retryVars, slot, envVars>>

\* issueAndStore fails: the second doIssue did, or the error is permanent.
GiveUp(w) ==
  /\ At(w, "rejected") \/ (At(w, "failed") /\ try[w] = 2)
  /\ Return(w)
  /\ RecordFailure
  /\ UNCHANGED <<chVars, fileVars, accountVars, slot, mode, stopped, restarts>>

-----------------------------------------------------------------------------
(* doIssue: the account. *)

\* AuthorizeOrder with an account: the CA does not know it (then it is
\* discarded, once), or the key is not the account's, or the order is opened;
\* its authorization is to be solved or still valid.
Order(w, account, fits) ==
  \/ account \notin known /\ GoTo(w, IF again[w] THEN "failed" ELSE "discardkey")
  \/ account \in known /\ ~fits /\ (GoTo(w, "failed") \/ GoTo(w, "rejected"))
  \/ account \in known /\ fits /\ (GoTo(w, "challenge") \/ GoTo(w, "finalize"))

\* ensureAccount: an account whose two files are there is used.
EnsureAccount(w) ==
  /\ At(w, "account")
  /\ IF accKey /\ accMeta THEN Order(w, "file", accPaired) ELSE GoTo(w, "register")
  /\ UNCHANGED <<chVars, try, again, fileVars, accountVars, retryVars, slot, envVars>>

\* client.Register with a new key; accountStore.save writes the key ...
Register(w) ==
  /\ Step(w, "register", "savemeta")
  /\ accKey' = TRUE /\ accPaired' = FALSE /\ accWriter' = w
  /\ known' = known \cup {w}
  /\ UNCHANGED <<chVars, fileVars, accMeta, retryVars, slot, envVars>>

\* ... and then the metadata, which fit unless the other goroutine has written
\* its key meanwhile or discarded this one.
SaveMeta(w) ==
  /\ At(w, "savemeta") /\ Order(w, w, TRUE)
  /\ accMeta' = TRUE /\ accPaired' = (accWriter = w)
  /\ accWriter' = IF accWriter = w THEN "none" ELSE accWriter
  /\ known' = IF w \in known THEN (known \ {w}) \cup {"file"} ELSE known \ {"file"}
  /\ UNCHANGED <<chVars, try, again, fileVars, accKey, retryVars, slot, envVars>>

\* discardAccount: the key, then the metadata; then ensureAccount again.
DiscardKey(w) ==
  /\ Step(w, "discardkey", "discardmeta")
  /\ accKey' = FALSE /\ accPaired' = FALSE /\ accWriter' = "none"
  /\ UNCHANGED <<chVars, fileVars, accMeta, known, retryVars, slot, envVars>>

DiscardMeta(w) ==
  /\ At(w, "discardmeta") /\ GoTo(w, "account")
  /\ accMeta' = FALSE /\ accPaired' = FALSE
  /\ again' = [again EXCEPT ![w] = TRUE]
  /\ known' = known \ {"file"}
  /\ UNCHANGED <<chVars, try, fileVars, accKey, accWriter, retryVars, slot, envVars>>

-----------------------------------------------------------------------------
(* doIssue: the challenge, the certificate, the files. *)

\* prepareChallenge: a token, and then port 80, or the challenge certificate
\* of the domain, whoever's was there.
Prepare(w) ==
  /\ Step(w, "challenge", "answer")
  /\ IF mode = "http-01"
       THEN Add(w) /\ UNCHANGED slot
       ELSE slot' = w /\ UNCHANGED chVars
  /\ UNCHANGED <<fileVars, accountVars, retryVars, envVars>>

PrepareOpen(w) ==
  /\ At(w, "answer")
  /\ OpenPort80(w)
  /\ UNCHANGED <<localVars, fileVars, accountVars, retryVars, slot, envVars>>

\* The challenge is set up.
Answering(w) ==
  At(w, "answer") /\ (mode = "http-01" => window[w] = "active")

\* Accept and WaitAuthorization have returned: the deferred remove begins, for
\* HTTP-01 with the token.
Answered(w, to) ==
  /\ Answering(w) /\ Step(w, "answer", to)
  /\ IF mode = "http-01" THEN Remove(w) ELSE UNCHANGED chVars
  /\ UNCHANGED <<fileVars, accountVars, retryVars, slot>>

\* The CA finds the answer of this order: the token, over the temporary
\* listener or whatever else holds port 80, or the challenge certificate.
Reached(w) ==
  \/ w \in tokens /\ (listener \/ busy \/ ~ServePort80)
  \/ slot = w

\* The order is validated.
Validate(w) ==
  /\ Answered(w, IF Reached(w) THEN "won" ELSE "lost")
  /\ UNCHANGED envVars

\* Seeded fault of Cleanup: the challenge is left after a failure.
CleanupOnSuccess(w) ==
  /\ IF At(w, "lost") THEN UNCHANGED <<chVars, slot>>
     ELSE IF mode = "http-01" THEN ClosePort80(w) /\ UNCHANGED slot
                              ELSE slot' = "none" /\ UNCHANGED chVars
  /\ \/ Step(w, "won", "finalize")
     \/ \E to \in {"failed", "rejected"} : Step(w, "lost", to)
  /\ UNCHANGED <<fileVars, accountVars, retryVars, envVars>>

\* The rest of the cleanup, after which solveAuthorization returns: whichever
\* challenge certificate the domain has is removed.
Cleanup(w) ==
  /\ IF mode = "http-01" THEN ClosePort80(w) /\ UNCHANGED slot
                         ELSE slot' = "none" /\ UNCHANGED chVars
  /\ \/ Step(w, "won", "finalize")
     \/ \E to \in {"failed", "rejected"} : Step(w, "lost", to)
  /\ UNCHANGED <<fileVars, accountVars, retryVars, envVars>>

\* A pair, once another certificate has been written.
Outdated(pair) == IF pair = "none" THEN "none" ELSE "older"

\* The order is finalized with a new key, the certificate fetched and written:
\* a new one, not due.
WriteCert(w) ==
  /\ Step(w, "finalize", "writekey")
  /\ certFile' = "valid" /\ writer' = w /\ paired' = FALSE
  /\ installed' = Outdated(installed)
  /\ loaded' = [r \in Readers |-> Outdated(loaded[r])]
  /\ UNCHANGED <<chVars, accountVars, retryVars, slot, envVars>>

\* writeFileAtomic of the key: it fits unless the other goroutine has written
\* its certificate meanwhile.
WriteKey(w) ==
  /\ Step(w, "writekey", "load")
  /\ paired' = (writer = w)
  /\ writer' = IF writer = w THEN "none" ELSE writer
  /\ UNCHANGED <<chVars, certFile, installed, loaded, accountVars, retryVars, slot, envVars>>

\* loadCertPair: the pair is read back, with what the other goroutine has
\* written meanwhile.
Load(w) ==
  /\ IF Loadable
       THEN Step(w, "load", "install") /\ loaded' = [loaded EXCEPT ![w] = "current"]
       ELSE Step(w, "load", "failed") /\ UNCHANGED loaded
  /\ UNCHANGED <<chVars, certFile, writer, paired, installed, accountVars, retryVars,
                 slot, envVars>>

\* setCert: what was read is installed, which is the success of doIssue.
Install(w) ==
  /\ At(w, "install") /\ Return(w)
  /\ installed' = loaded[w] /\ loaded' = [loaded EXCEPT ![w] = "none"]
  /\ RecordSuccess
  /\ UNCHANGED <<chVars, certFile, writer, paired, accountVars, slot, mode, stopped, restarts>>

-----------------------------------------------------------------------------
(* What goes wrong, and the rest of the process. *)

\* A call to the CA fails, or the DNS check before the first one; after Stop
\* because its context has ended.
NetworkError(w) ==
  /\ \/ stopped /\ UNCHANGED mishaps
     \/ ~stopped /\ mishaps < MaxMishaps /\ mishaps' = mishaps + 1
  /\ \/ /\ \E from \in {"account", "register", "challenge", "finalize"},
             to \in {"failed", "rejected"} : Step(w, from, to)
        /\ UNCHANGED <<chVars, fileVars, accountVars, retryVars, slot>>
     \/ Answered(w, "lost")
  /\ UNCHANGED <<mode, stopped, restarts>>

\* A file cannot be written or read.
FileError(w) ==
  /\ mishaps < MaxMishaps /\ mishaps' = mishaps + 1
  /\ \E from \in {"register", "savemeta", "discardkey", "discardmeta",
                  "finalize", "writekey", "load"} : Step(w, from, "failed")
  /\ UNCHANGED <<chVars, fileVars, accountVars, retryVars, slot, mode, stopped, restarts>>

\* The CA forgets its accounts.  An order that is open is completed.
Forget ==
  /\ ~stopped
  /\ known # {} /\ mishaps < MaxMishaps
  /\ known' = {} /\ mishaps' = mishaps + 1
  /\ UNCHANGED <<chVars, localVars, fileVars, accKey, accMeta, accPaired,
                 accWriter, retryVars, slot, mode, stopped, restarts>>

\* Weeks pass, and the certificate on disk becomes due: no issuance takes
\* that long.
Age ==
  /\ ~stopped
  /\ \A w \in Windows : At(w, Rest(w))
  /\ loaded["reload"] = "none"
  /\ certFile = "valid" /\ certFile' = "due"
  /\ UNCHANGED <<chVars, localVars, writer, paired, installed, loaded, accountVars,
                 retryVars, slot, envVars>>

\* The end of a backoff passes: shouldAttempt and load then do with an entry
\* what they do without one.  Only shouldAttempt notices, so it is enough to
\* let it happen before one.
Elapse(n) ==
  /\ ~stopped
  /\ \E w \in Windows : At(w, "attempt")
  /\ n \in {entry, saved, guard}
  /\ entry' = IF entry = n THEN 0 ELSE entry
  /\ saved' = IF saved = n THEN 0 ELSE saved
  /\ guard' = IF guard = n THEN 0 ELSE guard
  /\ UNCHANGED <<chVars, localVars, fileVars, accountVars, slot, envVars>>

\* ReloadCerts, called by a configuration reload: a pair that cannot be read is
\* passed by, ...
ReloadCerts ==
  /\ ~stopped
  /\ loaded["reload"] = "none" /\ Loadable
  /\ loaded' = [loaded EXCEPT !["reload"] = "current"]
  /\ UNCHANGED <<chVars, localVars, certFile, writer, paired, installed, accountVars,
                 retryVars, slot, envVars>>

\* ... what was read is installed, also over what a goroutine has installed since.
ReloadInstalls ==
  /\ loaded["reload"] # "none"
  /\ installed' = loaded["reload"]
  /\ loaded' = [loaded EXCEPT !["reload"] = "none"]
  /\ UNCHANGED <<chVars, localVars, certFile, writer, paired, accountVars,
                 retryVars, slot, envVars>>

\* Stop, at the end of the process.  What needs time does not happen after it.
Stop ==
  /\ ~stopped /\ stopped' = TRUE
  /\ mishaps < MaxMishaps /\ mishaps' = mishaps + 1
  /\ UNCHANGED <<chVars, localVars, fileVars, accountVars, retryVars, slot,
                 mode, restarts>>

\* Seeded fault of LoadState: the saved state is not read.
LoadStateNot == entry' = 0

\* issueState.load.
LoadState == entry' = saved

\* The process ends at any point, NewManager loads the saved backoff, Start
\* loads the pair if it can.
Restart ==
  /\ restarts < MaxRestarts /\ restarts' = restarts + 1
  /\ ChRestart
  /\ pc' = Started(Loadable)
  /\ try' = [w \in Windows |-> 1] /\ again' = [w \in Windows |-> FALSE]
  /\ installed' = IF Loadable THEN "current" ELSE "none"
  /\ loaded' = [r \in Readers |-> "none"]
  /\ LoadState
  /\ stopped' = FALSE /\ slot' = "none" /\ writer' = "none" /\ accWriter' = "none"
  /\ known' = known \cap {"file"}
  /\ UNCHANGED <<certFile, paired, accKey, accMeta, accPaired, saved, guard,
                 mode, mishaps>>

\* Another process takes or frees port 80, before an openPort80: one that lets
\* go of it while the CA relies on it is not considered.
PortTaken ==
  /\ ~stopped
  /\ \E w \in Windows : window[w] = "open"
  /\ OtherProcess
  /\ UNCHANGED <<localVars, fileVars, accountVars, retryVars, slot, envVars>>

Work(w) ==
  \/ Attempt(w) \/ RetryOnce(w) \/ GiveUp(w)
  \/ EnsureAccount(w) \/ Register(w) \/ SaveMeta(w) \/ DiscardKey(w) \/ DiscardMeta(w)
  \/ Prepare(w) \/ PrepareOpen(w) \/ Validate(w) \/ Cleanup(w)
  \/ WriteCert(w) \/ WriteKey(w) \/ Load(w) \/ Install(w)

Next ==
  \/ Wake \/ Check \/ \E w \in Windows : Work(w) \/ NetworkError(w) \/ FileError(w)
  \/ Forget \/ Age \/ ReloadCerts \/ ReloadInstalls \/ Stop \/ Restart \/ PortTaken
  \/ \E n \in Backoffs : Elapse(n)

Spec == Init /\ [][Next]_vars

\* Goroutines run, the timer of the loop fires, calls to the CA end, a reload
\* that has read a pair installs it; time passes between two rounds of the loop
\* (strong fairness: its actions are enabled only between certain steps).
\* Nobody owes a failure, a reload or a restart.
FairSpec ==
  /\ Spec
  /\ WF_vars(Work("initial")) /\ WF_vars(Wake \/ Check \/ Work("renew"))
  /\ WF_vars(ReloadInstalls)
  /\ SF_vars(Age) /\ SF_vars(\E n \in Backoffs : Elapse(n))

-----------------------------------------------------------------------------
(* Properties. *)

\* Outside a challenge window no token, port-80 listener or challenge
\* certificate is left behind, whichever way the window ended.
ChallengesCleared ==
  (\A w \in Windows : pc[w] \notin {"answer", "won", "lost"}) =>
    tokens = {} /\ ~listener /\ slot = "none"

\* No issuance begins within the backoff window of the last failure, not
\* after a restart either, if issue-state.json could be written.
BackoffRespected ==
  [][\A w \in Windows :
       pc[w] = "attempt" /\ pc'[w] = "account" => guard = 0]_vars

\* The account files hold the key of one account and the URI of another: the
\* CA, which knows that account, rejects every request and nothing discards
\* the files.
LockedOut == accKey /\ accMeta /\ ~accPaired /\ "file" \in known

\* A vhost without a certificate gets one in the end, unless the manager is
\* stopped or locked out for good: over the overlap of the two goroutines, a failure, a
\* crash, forgotten accounts and backoffs.
CertificateArrives ==
  (installed = "none" ~> installed # "none" \/ stopped) \/ <>[]LockedOut

\* A certificate that is due is replaced on disk and in the store, and the store
\* does not stay behind the disk for good, though a goroutine or a reload that
\* has read a pair may install it over a newer one: at the latest the next
\* renewal mends that.
RenewalArrives ==
  (certFile = "due" \/ installed = "older"
     ~> ((certFile = "valid" /\ installed = "current") \/ stopped))
    \/ <>[]LockedOut

\* acme/manager.go:135: "per-vhost issuance failures are logged and retried by
\* the loop": once the initial issuance is over, the loop does not pass by a
\* vhost without a certificate.
LoopRetriesFailures ==
  [][Check /\ pc["initial"] = "done" /\ installed = "none" /\ ~stopped
       => pc'["renew"] = "attempt"]_vars
=============================================================================
