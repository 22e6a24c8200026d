# A TLA+ verification of RouteMUX

RouteMUX is a reverse proxy in Go: one process that routes HTTP requests by host
and path, with hot reload of its configuration, automatic certificates (ACME),
IP filters that refresh themselves, JWT verification and a daemon mode with a
watchdog. This directory models the parts of it that share state between
goroutines, processes or the file system, the way of a request through the server
and the way a configuration is put together, checks the models with TLC and proves
the most important results with TLAPS.

All paths below are relative to the root of the repository.

## 1. Inventory

| Part | State it keeps | Operations | Interacts with |
|---|---|---|---|
| Hot reload (`server.go` `scheduledReload`, `Reload`; `acme_bridge.go`) | `state` (atomic), `reloadTimer`, `reloadMu`, `globalCert` | debounce, try-lock, parse, revert, load lists, swap, stop/start refresh, re-read certificates | watcher, signals, CIDR lists, ACME manager, every request |
| Watcher and signals (`server.go` `run`, `server_unix.go`) | `lastMtime`, a signal channel of capacity 1 | stat every 2 s, SIGHUP, SIGTERM | hot reload |
| CIDR lists (`ipfilter.go`) | networks per source, refresh goroutines, cache files | load, refresh once or periodically, stop, decide on an address | hot reload, request path |
| JWKS cache (`jwtverify/jwkscache.go`) | keys per endpoint with a time to live | `getKey`: fast path, locked re-check, fetch | JWT verification |
| HTTP-01 challenge server (`acme/httpchallenge.go`) | tokens, listener on port 80 with a reference count | add, remove, open, close | ACME issuance |
| Upstream picker (`server.go` `upstreamPicker`) | counter, lock, weighted pool | pick | request path |
| Watchdog daemon (`daemon/daemon_unix.go`) | PID file, `currentWorker`, `watchdogShuttingDown` | watch-start, stop, reload, status, restart of workers | worker processes, their signal handling |
| ACME manager (`acme/manager.go`, `issue.go`, `renew.go`, `retry.go`, `certstore.go`, `account.go`) | SNI store, retry state and account on disk, certificate files | issue, renew, back off, reload, discard an account | challenge server, hot reload |
| Routing and virtual hosts (`server.go` `handler`, `compileVHosts`, `buildMux`, `buildRouteHandler`) | the compiled muxes of a configuration | match host and path, authenticate, serve or proxy | lists, picker, JWT verification |
| Headers (`headers.go`, the Director in `server.go`) | the chain and values of one request | X-Forwarded headers, `${trusted_xff}`, delete, add | trusted proxies, `ReverseProxy` |
| JWT verification (`jwtverify/jwtverify.go`) | none of its own | find the key, test signature and claims | JWKS cache, routing |
| Command line and configuration (`cli.go`, `config.go`) | the virtual host and route being built | load the file, one flag after the other, flush, validate | start, hot reload |

What is hard here: a reload spans seconds and meets edits, signals, timers and
other reloads; lists of several configurations have goroutines and cache files
in common; locks are given back between a test and its use (JWKS, IP filter);
a request reads the lists again and again while they are refreshed, and waits for
keys and upstreams that may never come; counts must survive partial failure (port 80); the watchdog reads a pointer
without a lock while another goroutine clears it; files are written in two steps
and processes end in between. `PROJECT.json` lists each of these places as a
hazard with the properties that would notice it going wrong.

## 2. Modules

| Module | Models | Composition |
|---|---|---|
| `ConfigData` | a configuration as far as a reload tells contents apart; `Revert`, `AcmeConfigChanged`, `RevertVHostTLS` | extended by the next two |
| `ConfigService` | abstract: versions of the file are installed in order, what is fixed at start is carried over | implemented by `Reload` |
| `Reload` | the administrator, watcher, signal goroutine, debounce timers and `Reload` itself | instantiates `ConfigService` |
| `CIDRList` | the lists of consecutive configurations, their goroutines, origins and cache files | the list part of a reload in detail |
| `JwksCache` | `getKey` of concurrent requests | extended by `JwtVerify` |
| `JwtVerify` | `Verify`: key, signature and claims, by concurrent callers | composes with `JwksCache` |
| `Routing` | virtual hosts, muxes, paths and authentication, as operators | extended by `RequestPath` |
| `Forwarding` | the headers on their way to the upstream and `evalTrustedXFF`, as operators | extended by `RequestPath` |
| `RequestPath` | one request from its arrival to its answer, with refreshes of lists, reloads and timeouts between its steps | extends `Routing` and `Forwarding` |
| `CommandLine` | `parseAll`: the file, the flags one by one, the flushes, `validate` | |
| `HttpChallenge` | overlapping challenge windows and port 80 | extended by `Acme` |
| `Acme` | issuance and renewal of a vhost's certificate by two goroutines, the account, the files, the backoff, crashes | composes with `HttpChallenge` |
| `UpstreamPicker` | picks of concurrent requests | |
| `Watchdog` | the watchdog's loop and signal goroutines, the commands, the workers | |
| `ReloadProofs`, `CIDRListProofs`, `UpstreamPickerProofs`, `WatchdogProofs`, `CommandLineProofs` | theorems about the module of that name | each extends it |
| `JwtVerifyProofs` | theorems about `JwksCache` and `JwtVerify` | extends `JwtVerify` |
| `AcmeProofs` | theorems about `HttpChallenge` and `Acme` | extends `Acme` |
| `RequestPathProofs` | theorems about `RequestPath`, and the lemmas that what the operators of `Routing` compute is what README's tables say | extends `RequestPath` |
| `MC...` | instances for TLC | |

Definitions named `...Stops`, `...Unlocked`, `...KeepsLock` and so on, each with the
comment "Seeded fault of", are variants of an action with a plausible mistake.
They are not part of any specification; each property is shown to notice one.

### How state and actions correspond to the code

**Reload.** `disk` is the sequence of versions the file has had; its length is the
mtime. A version's `verdict` says which step of loading ends it: `parseAll`
(missing, parse), `validate` (invalid), `compileVHosts` (compile), or that
`buildMux` panics on it (panic), which ends the process: `CompilePanics`. `timer` is
`reloadTimer`, `armed` the timers that will fire; a timer that fired and was
`Reset` before its callback ran is armed again and may be forgotten by that
callback, as in the code. The callback goroutine `g` goes through
`ClearTimer`, `Begin` or `Drop` (the try-lock), `NoConfig`, `Reject` or `Parse`,
`Swap`, `StopOld`, `StartNew` and `ReloadCert`. Critical sections under `timerMu`
are one step. `certFile` is 0 while the certificate and key on disk do not match.
`hasConfig` distinguishes a server that was started without a file. `pending`
and `readMtime` are history variables. `Exit` may follow a SIGTERM at any time:
`Serve` returns as soon as `Shutdown` has closed the listeners and `run` does not
wait for `Shutdown`.

**CIDRList.** List `l` belongs to the l-th configuration. `dynamic[l][s]` is the
version of origin `s` the list holds, 0 for none loaded. A version is whatever `parseCIDRLines`
makes of that file or page without an error, which may be no networks at all, since lines that
are none are skipped. `Torn` is what a cache file holds that was not written whole:
`WriteCacheFile` writes the networks, or leaves such a file, or leaves the old one. `work[l]["once"]` and
`work[l]["loop"]` are the goroutines that `AsyncRefresh` starts, which fetch,
write the cache file and call `setDynamic` in separate steps. `entry` ranges over
the forms `parseFilterEntry` accepts.

**JwksCache.** `Read` takes the entry under the read lock, `FastPath` tests it
afterwards; `Lock`, `Recheck` and `FetchOk`/`FetchFails` are the slow path, with
`writer` the owner of the write lock, held during the fetch.

**JwtVerify.** `Verify` takes a request and, unless a secret is configured, starts a
`GetKey` of `JwksCache` for the kid of its token; the steps of that module follow. The
answers `DecideStatic`, `NoIssuer`, `NoKey` and `Decide` are the rest of `Verify`, at the
time it has become by then. A key is named by its kid and a signature by its key; all
errors refuse a request alike, as the server does.

**RequestPath.** Requests share nothing but the configuration that is served and its
lists, so one is followed at a time, and another after it (`Arrive`). A step ends where the code
reads shared state: `LoadState` is the one `s.state.Load`, `ReadAllowedLen` ...
`ReadBlocked` the four questions `Allow` puts under separate locks, `Direct` the Director's
lookup of the client, `EvalHop` one round of `evalTrustedXFF`. `Refresh` is `setDynamic` of any list,
`Swap` the store of a reload. The Director leaves in `Connection` what `ConnectionNames` says, and
`ReverseProxyHeaders` takes away the headers named there before it appends the address. `Dispatch`, `Authenticate`, `ServeStatus`, `ServeFile` and `ServeDir`
are the mux and the handlers; `Forward` is the rest of the Director, `ReverseProxy` (external)
and `xffRoundTripper`; `DialFails` and `ProxyFails` are the error handler; `TimeOut` answers the client
while the proxy below goes on. A path is a sequence of segments, with an empty one last
for a trailing slash; a host has no letter case and no port; a header value says where it comes from.
`since` and `seen` are history variables.

**CommandLine.** One action per flag, flags that are handled alike as one action with
the flag as its parameter. `curDomains`, `curTLS`, `curRoutes`, `curPath` and `curRoute` are
the local variables of `applyCLI`; `FlushedRoutes` and `FlushedVHosts` are `flushRoute` and
`flushVHost`, part of the actions that call them. `globals` has every global setting and the three lists, set by
`GlobalFlag` and `ListFlag` over those of the file. A header value is a constant or
has a variable of one of three kinds, and what the syntax of a value rejects is `"bad"`.

**HttpChallenge.** A window is one `add` ... `remove`; token and listener are
separate steps, since they are under different locks. `busy` is a process that
is not RouteMUX and holds port 80; while it does, `Listen` fails. `opened` is a history variable: the
windows that hold a reference of their own. A window that gives one back without having one
takes away those of all.

**Acme.** One vhost and the two goroutines that may issue for it: `"initial"`, started
by `Start` when the certificate cannot be loaded, and `"renew"`, the loop. `pc[w]` is
where a goroutine is in `issueAndStore`; a step is one change of what is shared (a file,
the SNI store, the retry state, a challenge) together with the calls to the CA before
it. Files that belong together are written in two steps: `WriteCert` and `WriteKey`,
`Register` (the account key) and `SaveMeta`, `DiscardKey` and `DiscardMeta`. A pair is read and put
into the store in two steps, by a goroutine (`Load` and `Install`) and by a reload of the
configuration (`ReloadCerts` and `ReloadInstalls`), so that an older pair may go over a newer one:
`loaded` is what was read and not yet installed. Of such a pair the
model keeps whether it matches (`paired`, `accPaired`) and who has written only its first half
(`writer`, `accWriter`). `entry` is the backoff in memory, `saved` the one in
`issue-state.json`; a backoff is a window with a number, and `Elapse` its end. `NetworkError`
and `FileError` are the error returns of `doIssue`, `"failed"` an error that is retried once,
`"rejected"` a permanent one. In HTTP-01 mode a challenge is a window of `HttpChallenge`:
the actions of that module are conjuncts of `Prepare`, `PrepareOpen`, `Answered`, `Cleanup` and
`Restart`; in TLS-ALPN-01 mode `slot` is the one challenge certificate of the domain. The CA is
external: it opens an order of its own for each request, completes an order
that is open, and finds a token as long as something answers on port 80. Other
simplifications: two files that are read one after the other are read in one step;
an issuance has one authorization to solve, or none; certificates age only while no issuance
and no reload of the pair runs, and what takes weeks or hours does not
happen after `Stop`, which ends the process.

**UpstreamPicker.** `Pool` and `Walk` are the pool of `newUpstreamPicker` and the
cumulative walk of `pick`. `counter` is an int of finite width: `IntMax` is its
largest value and it wraps to `-IntMax - 1`.

**Watchdog.** Every read of `currentWorker` is a step of its own, also the one for the log line
(`LogForward`), after which `StoreShutdown` sets `watchdogShuttingDown`. Where the code
calls a method on a nil worker the model panics: the watchdog ends and nothing is
cleaned up. A worker is `starting` until `setupSignals` has run and dies of any
signal until then; `signalled` has a SIGHUP in its channel, which has room for one
signal, so that a SIGTERM is dropped. `Crash` may end a worker at any time.

## 3. Runs

| Run | Bounds | What it shows |
|---|---|---|
| `reload` | 5 contents (one that changes every setting, one invalid, one missing, one that panics), 2 edits, 1 rotation, 1 signal, 2 goroutines, 2 timers | `NoTriggerLost`, `RefreshersMatchServed`, `LiveCertUsable`, `ImplementsConfigService` (what is served moves forward, what is fixed at start is kept); with fairness `TriggerReachesReload`, `ReloadFinishes` |
| `cidrlist` | each kind of entry, 2 configurations, 2 versions of the origin, sources that fail and cache files that are cut short at any time | `KeepsPreviousList`, `RefreshedUrlConverges`, `RefreshedFileConverges`, `StoppedListsEnd` |
| `jwt` | 2 callers, 1 endpoint, 2 kids, max-age 1, 2 ticks, 5 requests: by url, by issuer, by secret, with a wrong signer, with an unknown issuer | `FetchOnlyWhenStale`, `MissingIsCurrent`, `AcceptedIsGenuine`; with fairness `VerifyReturns` |
| `acme` | 2 goroutines, both challenge modes, 1 mishap (a failed call or write, forgotten accounts, `Stop`), 1 crash and restart, another process on port 80, any number of rounds of the loop and of reloads | `ListenerBounded`, `OpenWindowsServed`, `ChallengesCleared`, `BackoffRespected`; with fairness `CertificateArrives`, `RenewalArrives` |
| `picker` | all weights 0..2 of 1 or 2 upstreams, 2 requests in flight, 7 picks, a counter up to 3 | `PicksAreWeighted` (both modes), `PicksReturnUnlessPanic` |
| `watchdog` | 2 worker identities, used again | `OneWorker`, `ForwardedStopLeavesNoWorker`, `RunningHasPidFile`, `StopEnds`, `WorkerIsRestarted` |
| `request` | 6 scenarios: filter, hosts, logins, trusted proxies, user headers, slow upstreams and files; 2 addresses, 2 sets of headers that `Connection` names, 3 refreshes, 1 reload, any number of requests | `FilterDecisionStands`, `AnsweredAsConfigured`, `ForwardedAsTrusted`, `TrustedHops`, each against the tables of README.md; with fairness `RequestsAnswered` |
| `config` | 10 files (5 of them faulty, one with global settings) and every command line of up to 6 arguments about virtual hosts and routes, 5 about the settings of a route, 4 about global settings | `BuiltAsSaid`, `DerivedFlagsCover` |

Most also check their module's type invariant. The remaining runs refute a sentence of the
documentation or a comment:

| Run | Sentence | What the code does |
|---|---|---|
| `reload_dropped` | README.md:307, a reload is triggered on a change | a change noticed while another reload has already read the file is dropped and never read |
| `reload_panic` | README.md:307, on an error the previous configuration stays | routes `/x` and `/x/` in one virtual host make `mux.Handle` panic, on a timer's goroutine: the server ends |
| `cidrlist_failed` | README.md:307, on an error the previous configuration stays | a list that cannot be loaded is no error; an empty list replaces a working one |
| `acme_retry` | acme/manager.go:135, failed issuances are retried by the loop | after a crash between the certificate and its key, and a failed issuance at the next start, the loop finds a certificate that is not due and passes by |

**Disagreements that show in the models without a run of their own.** The properties state
what holds in spite of them.

- ipfilter.go:123: with `cache=` and without `refresh=` the cached list is never fetched again;
  README.md:1049 says the URL is refreshed in the background (`CIDRList`, `AsyncRefresh`).
- server.go:1049: on a 32-bit build the counter wraps after 2^31 picks; the index is negative, the
  panic leaves the lock taken. `PicksReturnUnlessPanic` excepts it.
- ipfilter.go:463: errors of writing the temporary cache file are ignored; on a full disk a file that is
  cut short takes the place of the cache, and a later configuration starts with what is left of it.
  `KeepsPreviousList` says that a refresh never does (`WriteCacheFile`).
- ipfilter.go:418-452: a page of junk is no error and gives no networks, which take the place of a
  working list. `KeepsPreviousList` is about errors that are reported.
- README.md:1173-1175 says what an upstream gets in the `X-Forwarded-` headers. A header that the
  request's `Connection` header names is lost, also one that a route adds, unless the route deletes
  or sets `Connection`: `ReverseProxy` takes away what the Director has set, and of `X-Forwarded-For` it
  leaves one appended address, which `xffRoundTripper` takes off. `ForwardedAsTrusted` says which headers.
- acme/httpchallenge.go:102: a window that failed to bind gives its reference back at once and
  again when it closes, and can shut the listener under another; :116 says it is shut with the last one.
  `OpenWindowsServed` says what is left: a listener stays as long as no window gives back a reference it does not have.
- acme/manager.go:339-344: between reading a pair and installing it the other goroutine may install a
  newer one, which is then replaced by the older. `RenewalArrives` says that a later round mends it.
- cli.go:240: a `--vhost` without routes is dropped without a message and its TLS flags
  fall to the next one. `TlsAsSaid` states it as it is.
- cli.go:18 says that the command line takes precedence; a `--vhost` for a domain of the file is
  appended after the file's and never matched (`VHostFor` takes the first).
- cli.go:591: `${trusted_xff}` in a `--client-add-header` does not set `ClientNeedsTrustedXFF`,
  which config.go:572 does for a file. The client is shown the connecting address;
  `TrustedHops` excepts routes of the command line.
- headers.go:84: on a Unix listener there is no client address and `ReverseProxy` appends nothing,
  so `xffRoundTripper` takes off a real hop. `ForwardedAsTrusted` excepts such requests.
- README.md:1096 says that a filtered connection is closed without a response; over HTTP/2
  the client gets a 400 (`CloseConnection`).
- server.go `isCatchAll`: a virtual host with the domain `""` is a catch-all only when it is the
  only one; `matchHost` knows `"*"` alone.
- ipfilter.go:244: an allow list that is emptied while `Allow` looks at it turns an address away that
  neither the old nor the new lists forbid. `FilterDecisionStands` says when.
- jwtverify/README.md:117 says that tokens signed with an old key go on working from the
  cache; the fetch for a new kid replaces the whole set (`FetchOk`).
- README.md:284 calls reload graceful, but `ForwardHup` ends a worker that is still starting,
  since it has not called `setupSignals` yet. The watchdog restarts it (`WorkerIsRestarted`).
- acme/account.go:72 says "atomically", but two registrations at a time can leave the key of one
  account beside the metadata of another, and the CA's answer to that is not the one after
  which the account is discarded. `CertificateArrives` and `RenewalArrives` except that state,
  `LockedOut`, which the code never leaves.

**Why the bounds are enough.** The races of the debounce need a timer that is reset
after it fired and a second one that is made meanwhile: two timers. Those of
`Reload` need a running reload and one that comes after it or is dropped: two
goroutines, two edits; a revert needs a content that differs in every setting. A
list is replaced by one other list at a time, and an older result over a newer one
needs two versions. The JWKS races are between two callers; more callers, kids and
endpoints are covered by the proof. One tick separates a fresh entry from a stale one and
a valid token from an expired one, before, during and after a fetch. In `RequestPath` each scenario varies one
part of the configuration, because the others do not look at it: two refreshes can change both lists
between the four questions of `Allow`, a third changes one back; one reload is enough to mix
two configurations, of which a request could load only these. The command lines are long
enough for two virtual hosts with routes and a TLS flag for each, and for a route that is taken up again. The port-80 count goes wrong with one window that failed and
one that succeeded; four leave room for both and for others, and the proof covers
any number. Two goroutines are all that issue for a vhost; one mishap together with
one crash reaches every error path and every half-written pair, and the proofs
cover any number of both. `Stop` counts as a mishap, to keep the run small; after it calls fail at no cost. A full cycle of the largest pool takes 4 picks, 7 contain every offset
of it, and the counter wraps in between. At most one worker lives and one dead one
may still be waited for. Edits, rotations, signals, ticks and picks are bounded in
guards by the constants `Max...`.

**Fairness.** Only what the Go runtime and the code guarantee: goroutines that can
run do, timers expire, tickers tick, mutexes do not starve their waiters (strong
fairness of `Serve` in `JwksCache` and `Pick` in `UpstreamPicker`), network calls have
timeouts (12 s for lists, 10 s for JWKS, `dial-timeout` for an upstream), and `select` picks at random among ready cases,
so a cancelled loop is seen in the end (strong fairness of `EndLoop`). The start of a
worker that is tried for ever succeeds sometime. In `Acme` calls to the CA end (the
client has a timeout), the timer of the loop fires, a reload that has read a pair installs it, and time passes: certificates become
due and backoffs end (strong fairness of `Age` and `Elapse`, which are enabled only
between certain steps). Weak
fairness of `Progress` in `RequestPath` is that a handler runs on and `http.TimeoutHandler` fires;
nothing makes an upstream answer. Administrators, origins,
endpoints, upstreams, workers and other processes owe nothing.
`CHECK_DEADLOCK FALSE` is set where the system may stop: when the watchdog or the
process has ended, when a server started without a file has handled its signals,
when the bound on configurations or picks is reached, when the ACME manager was stopped,
and when a command line has been read.

## 4. Proofs

Proved for every value of the constants, from the assumptions named in the modules
(`ContentsAssumption`: contents are configurations; `NoneAssumption`, `BoundsAssumption`,
`EntriesAssumption`: entries as `parseFilterEntry` accepts them; `JwksAssumption`,
`NilAssumption`, `RequestsAssumption`, `WindowsAssumption`, `AcmeAssumption`, `WorkersAssumption`;
`FilesAssumption`: the virtual hosts of a file are a sequence; `GlobalsAssumption`: a file sets each global
setting or leaves it unset, and its lists are sequences; `ArgsAssumption`: a `--vhost` names
a domain, as `strings.Split` never returns an empty list, and `--route ""` is left out (section 5); for `RequestPath`
`ReloadsAssumption`: a reload brings one of the configurations, `InputsAssumption`: what a request may
hold, `ListsAssumption`: there is a list of proxies when one is configured, `PathsAssumption`:
paths are sequences of segments and a route's path has its slash, if any, at the end, and
`ServedAssumption`: a configuration that is served has passed `buildMux`). TLC evaluates all of
them on the instances of the runs. One theorem, `RequestAnsweredAsConfigured`, has a
hypothesis of its own, `NoEmptyDomains`: no virtual host has the domain `""`. Of such a virtual
host the code says two things (section 3, `isCatchAll`) and the tables of README nothing, and without
the hypothesis the theorem is false. Where a theorem is about
a property that no run lists by itself (`ServedMovesForward`, `StartSettingsKept`, `PortExclusive`,
`OnlyServedRefreshes`), the proof takes the place of the run.

- **`ReloadProofs`**: `ReloadTypeCorrect`, `ReloadNoTriggerLost`, `ReloadRefreshersMatch`,
  `ReloadServedMovesForward`, `ReloadStartSettingsKept`, and
  `ReloadImplementsConfigService` (refinement). The inductive invariant is
  `TypeOK /\ LockInv /\ LocalInv /\ ServedInv /\ RefreshInv /\ NoTriggerLost`.
  `RefreshersMatchServed` and the action properties are not inductive: they depend on
  what a goroutine in the middle of a reload carries in its local variables.
  `LockInv` says that the owner of `reloadMu` is the one goroutine inside `Reload`;
  `LocalInv` that until the swap `oldState` is what is served, and that `newCfg` is the
  revert of a loadable version at least as new; `RefreshInv` which loops run at each
  point. With these a swap is an `Install` of `ConfigService`.
  `ReloadLiveCertUsable` adds `CertInv`: the certificate in use is no newer than the files, and
  while certificate and key do not match, the next version of both will be newer than it.
- **`CIDRListProofs`**: `ListTypeCorrect`, `ListKeepsPrevious`, `ListOnlyServedRefreshes`.
  `KeepsPreviousList` does not follow from the types: that a goroutine never installs
  nothing or a torn cache depends on what it read some steps ago, and that `loadSource` takes nothing away on
  nothing being there yet. `LoadInv` says that nothing is known of a source, and nothing works for it,
  before its list has loaded it; `VersionInv` that whoever is about to write holds a version
  its origin published; `StageInv` that the lists before the served one are stopped and the
  one after it is loaded only once that one runs.
- **`JwtVerifyProofs`**, about `JwksCache`: `JwksFetchOnlyWhenStale`, `JwksMissingIsCurrent`. The
  strengthening is `WriterInv` (the write lock and the program counters agree) and `SnapInv`: as
  long as the entry a caller took is fresh it is still the cached one, because only
  a stale entry is replaced and stale entries do not become fresh. That is why
  testing it after the lock was given back is safe.
  About `JwtVerify`: `VerifyTypeCorrect`; `VerifyUsesCache` (the composition implements `JwksCache`), from which
  `VerifyFetchOnlyWhenStale` and `VerifyMissingIsCurrent` follow; `VerifyAcceptedIsGenuine`. The strengthening is
  `PublishedInv` (what the cache holds, and what a caller took out of it, was published by the
  endpoint) and `OwnKeyInv` (a call looks up the kid of its own token at its own endpoint).
- **`RequestPathProofs`**: `RequestTypeCorrect`; `RequestFilterDecisionStands`, by `InAllowInv` and `AnswersInv`: inside `Allow` the lists
  as they are now are among those that were seen, and each answer it remembers was true of one of
  them. `RequestTrustedHops`, by `ChainInv` (the chain ends with the client's address) and `WalkInv`: every hop the walk
  has passed is an address and was in the list when it was looked up. Both hold for any
  number of addresses, refreshes and reloads, and for chains of any length; that the leftmost valid
  hop exists needs a least element, which comes from the well-foundedness of `<` on the natural numbers.
  `RequestAnsweredAsConfigured`, by `AnswerInv`: what has been decided at each place of the handler
  (`StageInv`), what an upstream has got (`UpInv`) and what is answered (`DecisionInv`) follow from the
  one configuration `cfg` that the handler loaded, whatever is served by then. That `Routing`'s virtual
  host, pattern, redirect and path are those of the tables are the lemmas at the start of the module
  (`VHostIsDoc`, `RouteIsDoc`, `RedirectIsDoc`, `PathIsDoc`, `AdmittedIsDoc`): that
  the code registers two patterns for a route does not change which route is the longest that covers a
  path, and the path is cut and joined where the table says.
  `RequestForwardedAsTrusted`, by `HeaderInv`: what the Director found the client to be is kept until the upstream
  has got it, and `RoundTrip` undoes exactly what `ReverseProxy` appended, also where `Connection` has named
  the header and nothing but that is left.
- **`AcmeProofs`**, about `HttpChallenge`: `ChallengeListenerBounded`, `ChallengeOpenWindowsServed`, with
  `PortExclusive`, the type invariant and `ServedInv` as the inductive invariant, `ChInv`: the windows in
  `opened` are between their open and their close and no more than there are references, and a token
  is registered from `add` to `remove`. The step of
  `closePort80` uses the cardinalities of these sets.
  About `Acme`: `AcmeTypeCorrect`, put together from the types of the goroutines, of the files and
  the account, of the retry state (`BackoffInv`) and of the windows (`ChInv`). The steps of the manager
  keep `ChInv` (`AcmeKeepsChInv`), from which `AcmeListenerBounded`, `AcmeOpenWindowsServed` and
  `AcmePortExclusive` follow; `AcmeChallengesCleared`, by `WindowInv`, which ties the place of a
  goroutine to the place of its window and to what it has registered, for both modes;
  `AcmeBackoffRespected`, by `BackoffInv`: a backoff that was saved is the one in memory
  and the one in the file, so that a restart finds it.
- **`UpstreamPickerProofs`**: `PickerPicksAreWeighted`, `PickerPanicsOnlyWrapped` and `PickerPanicIsFinal`, for any
  weights, any number of requests and an int of any width; the last two are properties that no run lists. The inductive
  invariant is `PickerInv`: `LockInv` (`p.mu` has one holder, who balances round-robin or has
  panicked) and `CycleInv` (the picks so far go through the pool in order, over and over, and the
  counter is their number until it wraps). What makes that proportional is a fact about the pool
  alone: the slots of an upstream are those between two sums of weights (`PoolOwner`), `Walk` finds the same one for the
  same number (`WalkOwner`), and any window of as many positions as the pool has slots holds each slot once (`ShareIsWeight`).
  When the counter has wrapped, the first pick goes on only if the pool's length divides
  `IntMax + 1`, and then with the right upstream; the second would need it to divide `IntMax` as well, and panics.
- **`WatchdogProofs`**: `WatchdogTypeCorrect`, `WatchdogOneWorker`, `WatchdogLeavesNoWorker`,
  `WatchdogHasPidFile`, by `LoopInv` and `ShutdownInv`. `LoopInv`: who lives is the `cmd` of the loop, which
  is about to be assigned or waited for, and `currentWorker` is `cmd` from the assignment to the
  reset. `ShutdownInv`: once `watchdogShuttingDown` is set and the signal forwarded the loop never comes back to the start of a worker
  (between the two it may still start one; then that one gets the signal, or the watchdog panics),
  the waiter waits for the last one, and when it is done none lives. That is why reading `currentWorker`
  again and again without a lock leaves no worker behind, except where the handler found nil, which
  the property leaves out.
- **`CommandLineProofs`**: `CommandLineFlagsCover`, for files and command lines of any length. The
  invariant says of the route and of the routes under construction (`CurInv`) and of those of every
  virtual host (`AreVHosts`) that the derived settings cover the headers and patterns. The command line does
  not set `ClientNeedsTrustedXFF`; that a route without `--dest` has it nevertheless holds because
  such a route is from a file, or leads nowhere (`Idle`) and is then rejected by `validate` (`StatusInv`).
  `CommandLineBuiltAsSaid`, for files and command lines of any length: what was built flag by flag is what the whole
  command line says. `BuiltAsSaid` speaks of the end only; the inductive invariant, `BuiltInv`, says what holds after each
  argument (`Progress`). The blocks that are over are in the configuration as the arguments so far have them
  (`HostsAsSaid` of `OverBlocks`), and the local variables hold the last block (`CurSaid`): the routes that were
  flushed say and lead where they should, the route in hand says what it should (`Taken`) and leads where its `--dest` led at
  its last flush, if it had one (`Led`), and `curVHostTLS` has the flags that fall to the block. One group of lemmas shows what one more
  argument changes of blocks, paths, the values of a flag and the TLS flags of a block (`BlockMore` to
  `SaidMore`, `TlsMore`); another that an action does just that (`TakenDest` to `TakenFlushed`,
  `CurOther` to `CurVHostFlag`), and that a flush puts the last block where the property expects it (`HostsAppend`, `HostsJoin`).
  The global settings do not depend on blocks: `GlobalsInv` says after each argument that they are those
  of the file with those of the arguments so far.

Only model-checked are the liveness properties: fairness and ENABLED are outside the prover's reach.
Every invariant and every action property of the runs is proved. Facts about sums, cardinalities and
positions in a sequence that need an induction (`CumulativeDef`, `PoolOwner`, `NthExists`, the longest path of
`RouteIsDoc`) are proved from the least counterexample: the library's induction theorems take an operator as a
parameter, which the provers cannot instantiate, but that every nonempty set of natural numbers has
a least element follows from the well-foundedness of `<` (`SmallestExists`, `LeastExists`).

## 5. Not modelled

TLS, the ACME protocol, cryptography, the YAML decoder, the expansion of environment
variables and the text of header values are library calls or sequential code that the
repository's tests cover; so are content types, the tunnel after an upgrade, response headers
other than `${trusted_xff}`, the hop-by-hop headers that `ReverseProxy` removes whatever `Connection` names, host patterns and path cleaning of `http.ServeMux`, `--route ""`
and the self-upgrade. The effect of an open request on a stop, the plain (watchdog-less) daemon,
`restart`, two start commands that race, and the Windows variants are left out. An edit that falls
between the parse at start and the watcher's first look is possible in `Reload`
(`WatchStart` comes after it) and is never noticed by the code; no property is stated about
it. Of the ACME manager the count of failures, several vhosts in one loop, an order with several authorizations
(issue.go:47-51 solves one after the other, each with a window of its own), unreadable
account files and an order that two goroutines share (issue.go:77 then fetches a
certificate for another key) are left out.

## 6. Plan

Done: all modules above, with the proofs of section 4. Next, in this order:

1. **Proofs** about what is modelled: of `Acme`, which goroutine may be inside a pair of files. The proofs of what is
   added below.
2. **`Watchdog`**: the PID file shared by several start, stop and restart commands; the plain
   daemon.
3. **`Acme`**: the length of a backoff and the count of failures that a restart drops;
   several vhosts in one loop. Abstract specification: a certificate service that installs
   ever newer matching pairs.
