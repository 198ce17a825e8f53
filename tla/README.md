# Verification of the OpenCode free gateway

The gateway forwards `/v1/*` requests of its clients to an upstream service. It
holds several upstream accounts ("workers"), picks one for every attempt, takes
failing ones out for a while, and retries. An administrator changes workers,
proxies and keys while requests run. This directory holds TLA+ modules that
model the program, TLC configurations that check them on small instances, and
proofs for TLAPS. Line numbers refer to `src/` at the commit it holds.

## 1. The system

| component | source | state | operations |
|---|---|---|---|
| worker rotator | `internal/rotator/rotator.go` | ordered list of workers (cooldown, ban, failure counter, last error), cursor; one mutex | `Sync`, `Pick`, `PickExcluding`, `MarkSuccess`, `MarkCooldown`, `MarkBan`, `MarkError`, read-only `Snapshots`, `ReadyCount` |
| relay client | `internal/relayproxy/relay.go` | none of its own; per request: attempt counter, tried ids, last result, last error | `Forward`, `attemptOne`, body and URL transformation, `CopyResponse` |
| outbound headers | `internal/relayproxy/headers.go` | none | header selection |
| proxy dialer | `internal/relayproxy/proxydial.go` | cache of transports, no lock | `TransportFor`, SOCKS5 handshake |
| proxy pool | `internal/pool/*.go` | entries by id and their order; a lock that some operations take | `Import`, `Restore`, `Remove`, `Prune`, `SetEnabled`, `SetUsable`, `Probe`, `ProbeAll` |
| settings store | `internal/config/config.go` | `settings.json` | `Load` with environment overrides, `Save` |
| admin API | `internal/server/adminapi.go`, `adminpool.go` | the shared `Settings`, no lock | settings, workers, pool, call keys, statistics reset; pushes the result into rotator, pool, authentication and file |
| v1 handler | `internal/server/server.go` | per request | call-key gate, body, `Forward`, accounting, reply |
| statistics store | `internal/stats/stats.go` | counters per account, signal channel, timer, file | `RecordRequest`, `AddTokens`, `ResetAll`, `Load`, `Close`, persistence goroutine |
| authentication | `internal/auth/auth.go` | admin hash, sessions, call keys; one mutex | login, logout, session check, call-key check |
| admin UI | `internal/adminui` | none | static page |

How they interact: `handleV1` calls `Forward`, which calls the rotator's pick
and mark operations around the upstream call; it then calls the statistics
store. The admin API mutates the shared settings, saves them, and pushes worker
lists into the rotator (`resync`) and keys into authentication (`resyncAuth`).
The relay reads the shared settings for proxy bindings. Every HTTP request is a
goroutine; imports start another one that probes the proxies. Only the rotator,
authentication, the statistics store and parts of the pool are locked.

What is hard, and what makes each component correct:

* rotator: a pick must never return a banned worker, must prefer untried ready
  ones, must not starve any; outages must end when they should, neither by a
  late mark of another request nor through reconfiguration.
* relay: the retry loop must end, must not come back to a failed worker while
  another is ready, and must tell the client the right thing; the marks of one
  attempt are several critical sections between which everything else runs.
* statistics: no change may be forgotten by the debounce, no crash may leave an
  unreadable file or lose saved history, nothing may be counted twice.
* settings, pool, admin API: concurrent calls share unlocked settings and one
  temporary file; memory, file, rotator and pool must agree when calls are done.
* authentication: settings, file and manager each hold the keys and the password;
  they must agree after every call, failed save and restart, and a session must
  not outlive its end.
* proxy dialer: attempts race for one map; the handshake is a conversation over a
  byte stream that may break off anywhere, and the tunnel begins where it ends.
* body and headers: what is sent must be what the upstream accepts, still be what
  the client asked, and not reveal the client when it is to be disguised, while
  the settings change under the request.

## 2. Modules

| module | models | role |
|---|---|---|
| `Rotator` | `rotator.go` | the component: one action per operation, each one critical section |
| `MCRotator` | | instance for TLC |
| `RotatorProofs` | | theorems about `Rotator` |
| `Relay` | `Forward`, `attemptOne` | composition: requests over `Rotator`, which it extends |
| `ForwardContract` | what `Forward` promises | abstract specification |
| `RelayTrace` | | `Relay` with the answers each request heard; refines `ForwardContract` |
| `MCRelay`, `MCRelayTrace` | | instances for TLC |
| `RelayProofs` | | theorems about `Relay`, resting on `RotatorProofs` |
| `Stats` | `stats.go` | the component: callers, persistence goroutine, file, crash and restart |
| `V1Handler` | the accounting of `handleV1`, the statistics reset of the admin API | composition: requests over `Stats`, which it extends |
| `MCV1Handler` | | instances for TLC |
| `StatsProofs` | | theorems about `Stats` and `V1Handler` |
| `SettingsFile` | `Save` and `Load` of `config.go` | the component: concurrent saves of shared settings, call by call |
| `Admin` | pool and worker calls of the admin API, `internal/pool`, `resync` | composition: calls and probes over `SettingsFile`, which it extends |
| `MCAdmin` | | instances for TLC |
| `AdminProofs` | | theorems about `Admin` |
| `Access` | `auth.go`, settings and call-key calls of the admin API, `applyEnvOverrides` | the component: password, requirement, call keys and sessions, with crash and restart |
| `MCAccess` | | instance for TLC |
| `AccessProofs` | | theorems about `Access` |
| `Socks5` | `dialSOCKS5`, `dialSOCKS5Probe` | client and proxy of one handshake over a byte stream |
| `Socks5Proofs` | | theorems about `Socks5` |
| `Egress` | `resolveWorkerProxy`, `TransportFor`, `Probe` | composition: attempts, cache and probes over `Socks5`, which it extends |
| `MCEgress` | | instance for TLC |
| `EgressProofs` | | theorems about `Egress`, resting on `Socks5Proofs` |
| `Outbound` | `transformRequestBody`, `buildUpstreamURL`, `buildOutboundHeaders` | what is sent upstream, attempt by attempt |
| `MCOutbound` | | instance for TLC |
| `OutboundProofs` | | theorems about `Outbound` |

Operators marked *mutant* in the component modules are plausible bugs. They are
used by no specification; replacing the definition that follows each of them
must make the property named in `PROJECT.json` fail.

### Rotator

`workers` and `nextIdx` are the fields of `Rotator`; a worker's record keeps
`cooldownUntil`, `bannedUntil`, `fails` (`ConsecutiveFails`) and whether it has a
`lastError`. `APIKey` and `ProxyID` are carried along by the code and decide
nothing here. Time is a natural number; Go's zero time is 0 and the clock starts
at 1, so a worker that never failed is ready as in the code. Callers evaluate
`time.Now()` before they wait for the mutex: an operation runs with any time
between `now - MaxLag` and `now`.

`pickLocked` is three scans; `FreshOffsets`, `ReadyOffsets` and `Recoverable`
are the sets they search, `Picked` the position returned, `CursorAfter` the
cursor. `DayStarts` is the calendar: the set of local midnights as instants.
`nextMidnight` is the start of the day plus `DayLength` (24 hours), as in the
code; whether that is a midnight depends on the calendar. `Sync` takes the state
of an id from the last worker with that id, and marks go to the first, as the
map and `findLocked` do.

### Relay

A request is a record of `Forward`'s local variables and a `pc`. Steps between
two critical sections of the rotator are one action: `Pick`, `Answer` (the
upstream call, without lock), `ReportError`, `ReportCooldown`, `ReportBan`,
`ReportSuccess`, `Return`. An upstream answer is one of five classes of
responses (`ok` for 2xx and 3xx, `client_error`, `rate_limit` and `free_limit`
for the two kinds of 429, `server_error`), `failed` (no response), or `unbuilt`
(the request cannot be built from the client's path, which marks nobody).
`Abort` is the client leaving: its context makes `Do` fail. `Panic` is the slice
in `outboundRealHeaders` that is out of range for keys of 2 to 4 characters.
`Sync` runs at any time.

### Stats and V1Handler

`dirty` is the channel of capacity one, `timer` the debounce timer, `loop` the
point at which the persistence goroutine is. A save is four steps: wait for the
mutex, truncate the temporary file, finish it, rename; each may fail, and the
process may die between any two. The mutex is held from the second to the last.
A file is whole or torn; the counters of an account are requests, failed
requests and token additions (the other fields are counted by the same calls).
`Crash` forgets memory, `Boot` is `New` followed by `Load`. The program's `main`
is not in the repository; that it calls `Load` before it serves and `Close` at
the end at most once is assumed.

`V1Handler` adds the order in which `handleV1` forwards, counts and reads the
usage. The forwarding itself is `Relay`; here its result is any account with any
class of answer.

### SettingsFile and Admin

`cfg` is the `Settings` object every goroutine shares, reduced to workers and
pool; `file` and `tmp` are `settings.json` and `settings.json.tmp`. A goroutine's
`save` runs through encoding the workers, encoding the pool, opening, writing and
renaming, and each of the last three may fail. The temporary file has one name
for all callers, so `fd` says what a save that has opened it is writing to now:
the temporary file still, the file that another save has renamed to
`settings.json`, or one that has been replaced since.

`items` and `order` are the two fields of the pool's manager, `rot` the worker
list the last `Sync` gave the rotator (what the rotator does with it is
`Rotator`), `call` the local variables of each goroutine. A call is modelled as
its accesses to shared state, with a lock only where the code takes one:
`SetUsable` does, `SetEnabled` and `Remove` do not. Slices are filtered in place
in the code, so a filter is two steps: after the first, the slice still has its
old length and the tail of the old contents. `Probers` are the goroutines that
probe the pool: the one an import starts and the probe calls; they differ in
nothing that matters here and may start at any time. `Crash` forgets memory and
`Boot` is `Load`, `Restore` and the first `Sync`; that `main`, which is not in
the repository, makes these calls before it serves is assumed.

`calls`, `issued`, `loose`, `acked` and `failed` are history variables. `issued`
makes ids unique, as 64 random bits do; `acked` is what the last call that returned
200 left behind. `EditWorker` stores the proxy id of the request whether or not the
pool has it, as the code does; `loose` keeps the ids for which it had not, and
`BindingsResolve` leaves those bindings out. That they do not resolve either is
`stale_binding`.

`AdminSpec` lets everything interleave; `SerialSpec` adds that no goroutine
records or saves results of probes while a call of the administrator or another
such goroutine is between its first and last access. Nothing in the code ensures
that: it is what the code relies on, and what is said under `SerialSpec` says
nothing about the overlaps. What they do is said under `AdminSpec`: the types and
the order of the pool survive them (`AdminTypesHold`), settings.json can be
destroyed (`settings_overlap`), and of the invariants of `admin_calls` neither
`AckedEditsSurvive` nor `NoHiddenEntry` holds under it (see the end of section 3).

### Access

`cfg` is the settings, reduced to what decides who may use the gateway; `file` is
`settings.json`; `callKeys`, `adminHash` and `sessions` are the fields of the
authentication manager. A hash is modelled as the password it was made of, and
the marker that the environment's password is stored as matches none, as
`hashPlain` and `verifyPassword` have it. The settings keep a key's entries as
the list of their flags: the environment's key is appended at every start, and a
save makes the copy permanent, so a key can have several, of which all but the
first are the environment's and enabled (`AccessTypeOK`).

A call is `Begin` (the session is checked), `EditSettings`, `EditKeys` or
`EditBlank` (a call that names no key, and saves all the same), `Save`,
and for keys `SyncKeys`. `SaveOther` stands for every other call that saves the
shared settings, whatever this one has half done. `Boot` is external: `main` is
not in the repository; that it hands password and enabled keys of the loaded
settings to the manager is assumed. Every start may be in another environment.
`promised` is a history variable: the values a key, the password and
the requirement may have after the calls so far. A call that begins adds what it
asks for, since it may fail half-way or be cut off; one that returns 200 leaves
only that; a start adds what its environment asks for. `PromisesKept` compares
file, settings and manager with it. The one 200 that promises nothing is that of
disabling a key with several entries: the code disables the first
(`adminapi.go:466`), so `Decides` leaves the key as it may have been.

`Verify` and `Admit` are the two critical sections of `Login`. A password that is
set between them does not stop the session; `SessionsEnd` bounds it like any other.

### Socks5 and Egress

`client` is the point at which the dialling goroutine is, `stream` the bytes on
their way to it and `inbox` the message on its way to the proxy. Lengths and
codes are kept as numbers, everything else in a message is filler. The proxy is
external: it answers as RFC 1928 and 1929 say with any method and code, or breaks
off after any byte, or closes at any time. `granted` and `first` are history: the
proxy has agreed to connect, and whose bytes net/http read first. `kind` tells
the dialer from the probe, whose copy of the code differs in `ReadReply`.

`Egress` puts before the handshake what attempts share: `cache` is
`Dialer.cache`, without a lock, so `LookUp` and `Store` are two steps, and two
that meet may end the process (`Fatal`, Go's check for concurrent map access). A
transport keeps the proxy it was made with. Handshakes share nothing, so one runs
at a time. That a context ends an attempt earlier is left out: the dial goes on
without it. What net/http does with an HTTP proxy, and connections it keeps, are
left out too.

### Outbound

A body is reduced to the fields the code looks at; a model's name is the list of
its words, an assistant's reasoning absent, blank or text. The value of a header
is the place it comes from: the gateway, the client's header of some name, or
fresh for this attempt. `Build` and `Disguise` are the two reads of the settings
in `buildOutboundHeaders`; `ChangeSettings` happens at any time. `steady` and
`covered` are history: whether a user agent was set from the first read to the end
of an attempt's headers. `ThinkingWords` are the words of a model's name in which
one of `thinkingModelPatterns` finds something, `DeepSeek` and `deepseek2` with
`deepseek`; messages are a list of objects, missing, or malformed, and the code
leaves the last two as they are.

## 3. Runs

| run | what it shows |
|---|---|
| `rotator` | two workers, several worker lists, two days, stale clocks: type invariant, `OutageBounded`, `OutageEndsByClock`, `PickContract`, `RotationProgress` (an invariant over all picks that may come next), `BanLostOnlyAtMidnight` |
| `relay` | one request with three attempts, all answers, changing lists, stale clocks, a panicking worker: `KeepsForwardContract` and `UsesRotator` (refinements), `EveryRequestReturns` (liveness) |
| `relay_pool` | two requests with stale clocks, three workers, one of which makes attempts panic: `RelayTypeOK`, `FailedWorkerBacksOff`, `RetriesElsewhere` |
| `stats_crash` | two requests, resets, failing saves, Close, crashes: `V1TypeOK`, `NoChangeForgotten`, `FileReadable`, `TokensWithinRequests`, `CountedOnce`, `HistoryKept`, `EventuallySaved` (liveness), `UsesStats` (refinement) |
| `admin_calls` | three calls of the administrator, probes between them, failing saves, crashes: `AdminTypeOK`, `NoHiddenEntry`, `FileLoadable`, `AckedEditsSurvive`, `RotatorFollows`, `BindingsResolve` |
| `access` | two calls, two starts in any environments, failing saves, two sessions: `AccessTypeOK`, `PromisesKept`, `AllowListFollows`, `SessionsEnd` |
| `egress` | two attempts, a probe, two proxies at one address: `EgressTypeOK`, `TunnelIsClean`, `HandedOverWhenGranted`, `TransportFitsEndpoint`, `DialEnds` (liveness) |
| `outbound` | bodies, client headers, changing settings: `OutTypeOK`, `BodyFitsUpstream`, `BodyKeepsRequest`, `OneSession`, `IdentityReplaced` |

Runs that show where the code does not do what its comments or documents say
(each is expected to end with a counterexample):

| run | what the counterexample is |
|---|---|
| `relay_abort` | a client that leaves puts a healthy worker into cooldown |
| `settings_overlap` | a call and the goroutine of an import save at the same time: one truncates the temporary file which the other renames |
| `probe_socks` | the probe leaves the bound address of the connect reply in the stream, where TLS finds it: a SOCKS5 proxy that works is marked unusable, and its worker goes out directly |
| `stale_binding` | a worker is bound to a proxy that was removed, and answered with 200 |

Other disagreements met while modelling, not worth a run of their own:

* `nextMidnight` adds 24 hours to the beginning of the day, "the first instant of
  the next calendar day" (`rotator.go:220`) only if the day has as many. On one of
  25 hours a ban ends at 23:00, on one of 23 at 01:00 of the next. The model has
  such days where `EvenDays` is not assumed; what is said of the end of a ban does
  not reach them.
* A 2 to 4 character API key makes the log line of an attempt panic
  (`relay.go:520`), so that its request ends without reply (`Panic`).
* `TestBuildOutboundHeaders` (`relay_test.go:112-146`) sets a user agent and CLI
  synthesis and demands that the client's own `X-OpenCode-Client` and
  `X-OpenCode-Project` are sent, and `headers.go:14` has only missing ones filled.
  The code overwrites both whenever a user agent is set, which is what
  `headers.go:68-72` announces; the model follows the code, `IdentityReplaced` that
  comment, and the test contradicts both.
* Nothing serialises saves: a probe that has encoded the settings before a call
  changes them finishes its save after the call's, and settings.json is the older
  copy although the call was answered with 200. Between the two steps of
  `SetEnabled`, `Remove` and `persistPool` a probe does the same to memory.
* `stats.go:55` speaks of periodic persistence, but every signal starts the timer
  anew (`stats.go:283`): changes that come faster than every 500ms put every save
  off. `EventuallySaved` is about changes that stop coming.
* `config.go:158` has the environment override values "without editing the settings
  file", but the first save after a start writes the overridden values there.
* A login that was checked before a new password is set opens its session after
  (`auth.go:97`), for all of `SessionTTL`.
* The package comment and `README.md:29` promise sticky affinity, `pickLocked`
  rotates (its own comment says so).
* `README.md:31` has a ban last 24 hours; it lasts until the next midnight
  (`rotator.go:9`).
* `relay.go:28` has `ErrNoWorker` mean that no workers are configured; the rotator
  also returns none when all are banned. `relay.go:83` has the last upstream error
  surfaced after the last attempt; if any attempt got a response, the last of those
  is, although later ones failed without (`Surfaced`, `ForwardContract`).
* The last-resort scan picks a disabled worker, and its next failure replaces the
  ten minutes of `rotator.go:26` and `README.md:33` by a backoff.
* At the instant an outage ends a worker is neither ready nor cooling, so a pick
  may return nothing although no worker is banned (`rotator.go:168`;
  `PickContract` states what does hold).
* A 5xx response cools a worker down without a last error (`relay.go:122`,
  `README.md:34`), and a ban whose worker was replaced between `MarkError` and
  `MarkBan` has none either.
* `README.md:68` has `OCFREELAY_ADMIN_PASSWORD` set the first password, but `Load`
  returns the defaults before it applies the environment when there is no file
  (`config.go:124`). Where there is one, the stored marker `plain:` matches no
  password unless `main` replaces the hash function.
* Since every start adds an entry for `OCFREELAY_CALL_KEY` and the next save keeps
  it, disabling that key over the admin API reaches the first entry only
  (`adminapi.go:466`); deleting it reaches all, until the next start.
* Transports are cached without their credentials (`proxydial.go:86`): after the
  password of a proxy changes the old one is used until the process ends.
* After TCP is connected the handshake has no deadline and does not watch the
  request's context (`proxydial.go:141`): `DialEnds` needs a proxy that answers or
  closes. A change of the password leaves the sessions as they are.

### Bounds, and why they are enough

* Workers: two show every interaction of a worker with another; a third, whose key
  makes attempts panic, ends requests half-way in `relay` and `relay_pool`. The theorems,
  `RotationIsFair` among them, hold for any number.
* Failure limit: four in `rotator`, so that the backoff grows, is capped and is
  followed by a disable; two or one elsewhere, where only reaching the limit
  matters. Cap and disable are kept apart (3 and 4, or 2 and 3).
* Time: the clock of `rotator` passes a midnight, before and after which bans begin. Where only the relation of
  requests is asked for, a clock of two steps suffices: outages begin, and some of
  them end.
* Requests: two in `relay_pool`, since its properties speak of one request
  against the others, and each can stand for all others by interleaving; symmetry
  is used there, with safety properties only. `relay` has one: a step of a second
  would be a step of the rotator that the first sees as a change from outside, and
  there `Sync` changes everything those could.
* Attempts: three, the code's value.
* Statistics: one account, since no operation relates two; a debounce of one
  tick, which can be cut short, restarted and ended; counters up to two.
* Admin: two proxies on two ports of one host, so that workers compete for a
  name and an import has a duplicate line; one worker edited by hand, whose name
  is the one an import would take; one prober. Three calls (`MaxCalls`) are enough
  to import, break something, and observe it with another call; the invariants
  relate no more. `Failing` is the write in `admin_calls`: the other two steps end
  a call in the same way, with files that are among those a write can leave.
  `SerialSpec` allows one writer at a time, so a second prober would add nothing.
  A third id belongs to no pool entry, as that of a page that is out of date.
* Access: two passwords, of the client's keys one that an environment may also set
  and one that none does, two calls (an edit and one that meets its remains), and
  two starts, so that the second meets what the first saved in another environment;
  two tokens, of which one lets a call begin while the other's login is under way
  (they are interchangeable, which the run uses). The process
  may stay down, so a run may end there (`CHECK_DEADLOCK FALSE`).
* Egress: two attempts, the fewest that race; a SOCKS5 and an HTTP proxy on one
  host and port, so that only the type separates them; user names that are empty,
  fit and do not fit their length byte (its limit scaled to two); a domain name of
  one byte, since only the sum of length and port matters.
* Outbound: `MCOutbound` has a body for every combination of alias, effort,
  metadata and turns that the functions tell apart, and every set of the client's
  headers that decides a branch; two attempts show a session kept or lost.

### Fairness

`FairTraceSpec` has weak fairness for the request's step. Goroutines are
scheduled and `sync.Mutex` does not starve; for the upstream call it says that
the upstream answers, the connection breaks or the client leaves (the HTTP
client has no overall deadline). Nothing is assumed about the administrator, the
clock or new requests. `StatsFairness` has weak fairness for the persistence
goroutine and the clock, and strong fairness for the two cases of its `select`
that compete with the signal: Go chooses among ready cases at random. Saves may
fail for ever. `FairEgressSpec` has weak fairness for the client's side of a
handshake and for a proxy that has a message: it answers, breaks off or closes.
A proxy that stays silent for ever is a case the code does not handle.

## 4. Proofs

`tlapm` checks every proof in `RotatorProofs`, `RelayProofs`, `StatsProofs`,
`AdminProofs`, `AccessProofs`, `Socks5Proofs`, `EgressProofs` and `OutboundProofs`.
Every invariant and every action property of the runs that pass is a theorem, and
so are the refinements; liveness is what is left to TLC.

The theorems hold for every value of the constants that satisfies the named
assumptions of the modules: the code's constants are positive and the cooldown
cap is not above the disable time (`LimitAssumption`), the shifted base stays
positive below the failure limit (`BackoffAssumption`; five seconds shifted by at
most three), instant 0 starts a day (`CalendarAssumption`), no ban is longer than
`LongestBan`, the clock runs (`ClockAssumption`), and the requests that use the
statistics are finitely many (`HandlersAssumption`). The patterns for thinking models
find the words they name and none of the other words in the table of aliases
(`PatternAssumption`). The other assumptions type the
constants, keep names apart, and say that a settings file that is there at first
was saved by this program (`InstalledAssumption`; only `AccessTypesHold` needs more
of it than its type).

Three theorems speak of what one step does to outages and need more, which
`Rotator` defines and the theorems name as hypotheses; `MCRotator` and `MCRelay` assume them,
so TLC evaluates them on the runs of these properties:

* `NoRepeatedIds`: no worker list has an id twice. Ids are random; only a settings
  file edited by hand can repeat one, and then `Sync` and the marks mean different
  workers.
* `DayBansOnly`: `MarkBan` is called with 24 hours only (`relay.go:233`).
* `EvenDays`: one midnight follows another after 24 hours. On the other two days
  of the year `nextMidnight` is no midnight; the other theorems hold then too.
* `PromptCallers`: nobody waits for the mutex as long as the shortest backoff,
  five seconds. Otherwise the outage a mark begins may be over before it is
  written.

* **Rotator.** The invariant `RotatorInv` is `TypeOK /\ OutageBounded`. The bound
  on outages needs the ranges of the fields, and it speaks of the failure count
  because a cooldown is bounded by the backoff of that count only while failures
  are being counted. Each operation replaces one worker by one that is again
  within the bounds (`FailureBounded`, `BanBounded`, `HarmlessMarks`,
  `ReplaceOne`), `Sync` carries workers over or creates ready ones, and time only
  shortens outages. `PickResult` says which of the three scans decides; from it
  follow `PicksKeepContract` and, with the distance of the cursor to a position,
  `RotationIsFair`. For the properties of steps, `StepShape` says what any step
  may have done to a worker that stays configured: nothing, or one mark
  (`MayBecome`); for `Sync` this rests on the ids being distinct (`UniqueIds`).
  That a later ban does not shorten an earlier one then needs `NightInv`, that
  every ban ends by the next midnight of the clock: callers may be late but not
  early, so a new ban either ends there too or at a midnight that has passed
  (`BansAreKept`). `OutagesRunOut` needs that a mark with a stale clock still
  reaches beyond the present (`FailureTakesOut`, `BanTakesOut`).
* **Relay.** A request's record keeps its type and holds a configured-once worker
  exactly while marks remain (`RelayInv`); then every step of the gateway is a
  step of `RotatorNext` or leaves the rotator alone (`RelayStep`). Hence
  `RelaySpec => RotatorSpec` (`RelayImplementsRotator`), and the theorems about
  the rotator hold of the gateway (`RelayInheritsRotator`). `FailedWorkersBackOff`
  combines that with the two lemmas above, `RequestsRetryElsewhere` is
  `PickResult` seen from a request whose clock reading is up to `MaxLag` old, and
  needs none of the hypotheses above. `ForwardKeepsContract` shows that the steps
  of all requests together implement `ForwardContract` for each: `TraceInv` ties
  the local variables of `Forward` to the answers heard, as the number of
  attempts, the newest result and the last failure that a reply is made from, and
  what a request surfaces is then what the contract reads off the answers
  (`VerdictIsSurfaced`).
* **Statistics.** `NoChangeForgotten` is not inductive: a rename could install
  anything. `StatsInv` adds that the temporary file holds what memory holds when
  the rename is due (the mutex is held meanwhile), and that the file is behind
  memory. `HandlersUseStats` shows that concurrent requests drive the store only
  through its operations. `TokensWithinRequests` and `CountedOnce` charge to the
  counters the requests that still owe their count or their tokens, so that each
  step of a request moves one from the set (`Recording`, `Open`) to the counter;
  what makes them inductive is that no request outlives its process
  (`IdleWhenDown`), and that a rename installs what memory holds (`StatsInv`).
* **Settings.** `FileStaysLoadable` is the atomicity of `Save` under `SerialSpec`.
  `FileInv` adds to `FileLoadable` that a save is under way only in a goroutine
  that waits for it, and that its temporary file is empty before the write and
  whole before the rename. With `Serial`, which is part of the invariant, no other
  save can change that in between (`OneSaver`); without it, it fails. Each group
  of actions has a lemma, most of them instances of three: a step that touches no
  save, one that starts a save, one that returns. `AdminInv` goes on in layers,
  each inductive given those before it, since under `SerialSpec` one goroutine at
  a time is busy. `PoolInv` says that the pool's map and order agree but for the
  one id that a `Remove` between its three steps is taking out; `MirrorInv` that
  the settings' list of proxies mirrors the pool between calls; `BoundInv` that
  workers are bound to proxies that exist, where a removal remembers in its call
  which ids are gone until their workers are too, and `loose` bindings are left
  out (`BindingsAreKept`); `RotInv`
  that what the rotator was given last is what is configured (`RotatorIsInSync`);
  `FilesInv` that what a save has encoded is what the settings say, and that
  loading it gives that back. `AckInv` puts them together: what was promised by a
  200 is what memory and the file promise, which `Boot` restores
  (`AckedEditsAreKept`). `AdminTypesHold` has an invariant of its own, since it
  holds under `AdminSpec`: `OpenInv` says how much of the pool is certain while
  others record, remove and save, namely that the order never lists an id twice and
  lists nothing the map does not have, but for the removal under way, and that what
  a save has encoded at any time is of its type, so that every start finds a file
  whose entries it can restore.
* **Access.** `PromisesKept` says what file and memory may hold, but not what a
  call under way is about to do. `CallInv` adds that: what the call asks for is
  promised as possible, the settings say it when it is saved, where the call decides
  at all, and the file holds the settings when the manager is told. What a start adds
  to the settings it adds to the promise (`StartFacts`, `OverriddenFacts`).
  `FollowInv` extends `AllowListFollows` to settings calls; `EntryInv` is what
  `AccessTypesHold` says of entries. `SessionsDoEnd` needs that a token is issued once and that no
  session is later than its issue plus the TTL.
* **Socks5.** Neither property is inductive: both rest on how many bytes can be
  under way. `SocksInv` says it for each point of the client: the proxy speaks
  only when it was spoken to, so nothing is on its way to the client when a
  message is on its way to the proxy (`BytesInv`); and it never sends more than
  the client reads before it speaks again, which for the connect reply depends on
  the form of the address and on the length of a name (`ReplyFits`). The messages'
  lengths are `AddressFacts` and `ReplyFacts`; one that is broken off is a
  beginning of a message, and `ServerSends` shows that every beginning fits.
  `DialsStayInStep` carries the invariant through the steps of `Egress`, of which
  each runs a step of `Socks5`, ends the dial or leaves it alone.
* **Egress.** A transport in the cache is stored under its own key, and an attempt
  holds the proxy it resolved until it ends; two stores under one key are of
  proxies that agree in type and address. `EgressTypesHold` says that a dial runs
  exactly while one attempt or a probe waits for it, and `DialsLeaveNothingOpen`
  that a connection stays open only while the handshake runs or when it was handed
  over.
* **Outbound.** A corrected name is no alias, because no base is, so correcting a
  body again finds nothing to do; the correction replaces turns one by one and
  keeps their number, role and text (`BodiesFit`, `BodiesKeepRequests`). Headers
  are treated name by name: the session is put in after the client's headers are
  copied and the disguise does not touch it (`SessionIsKept`), while every name
  that identifies the client is overwritten if a user agent is configured at both
  reads of the settings, and all or none of them are when it is configured at the
  second (`IdentityIsReplaced`).

Only model-checked: the liveness properties `EveryRequestReturns`,
`EventuallySaved` and `DialEnds`, since they rest on fairness and so on `ENABLED`,
which is out of the prover's reach. No module uses a recursive operator. The
four runs that end with a counterexample need no proof.

## 5. Not modelled, and the plan

Not modelled: wording of log lines and replies, the static page, JSON plumbing;
none has state. Streaming of a response (`CopyResponse`) and the window in which
its usage is searched are abstracted to whether a usage is found. The parsing of
proxy lines is a choice among entries. Scalar settings that only one function
reads (port, base URL, models filter) have nothing to disagree with. Only one
administrator is modelled: that two at once can lose edits follows from the same
unlocked accesses. `main` is not in the repository; what is assumed of it is said
where it is used. What is planned, in this order:

1. Two administrators at once over the unlocked settings, as a composition of
   `Admin` and `Access`.
2. The usage window of an event stream whose chunks are cut anywhere; `ParseBatch`
   and its deduplication.
3. Proofs for what these add.
