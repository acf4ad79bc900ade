# A TLA+ model of xai-oauth

xai-oauth signs in to xAI with an OAuth device login, keeps the tokens in the
memory of a daemon, and serves access tokens to local programs over a Unix
socket. The refresh token is single use: the identity provider (IdP) replaces
it with every refresh, and it is stored nowhere. Losing it, or using it twice,
costs the user a login. The models here are about that: who holds the token,
when, and what happens when calls, logouts, takeovers, timeouts and crashes
meet.

## The system

| Component | State | Operations | Talks to |
|---|---|---|---|
| session (`internal/session`) | tokens, expiry, state, last error; `mu`, `opMu` | `NewFromLogin`, `GetAccessToken`, `Handoff`, `RestoreHandoff`, `Clear`, `Ready`, `Status` | the IdP, through `protocol.Refresh` |
| singleflight (same file) | the call in flight, its WaitGroup | `Do` | runs `refreshIfNeeded` |
| refresh call (`internal/protocol/refresh.go`) | none | `Refresh` | the IdP's token endpoint |
| HTTP handlers (`internal/server/server.go`) | none of their own | `/token`, `/logout`, `/handoff`, `/ready`, `/status`, `/health` | the session; `OnLogout` |
| daemon (`runServer` in `cmd/xai-oauth/serve.go`) | `shutdownCh`, the listener | serve, shut down, remove the socket | handlers, signals |
| serve and takeover (`serve.go`, `takeover.go`) | a login in memory, the secret, `replaceDead` | probe, handoff, login, replace, spawn, wait | other daemons at the path, the child |
| socket listener (`internal/server/listen.go`) | the socket file | `ListenUnix`, `RemoveUnixSocket` | the file system |
| device login (`internal/protocol/device.go`) | poll interval, deadline | `DeviceLogin`, `RequestDeviceCode`, `PollDeviceToken` | the IdP |
| discovery (`discovery.go`), URL pinning (`pin.go`, `httpclient.go`) | none | `Discover`, `IsXAIHost`, `ValidateXAIURL`, `checkIDPRedirect` | the IdP |
| token expiry (`jwt.go`, `takeover.go`, `session.go`) | the believed end of the token | `ExpiresAtFromToken`, `parseHandoffResponse` | login, session, successor |
| client SDK (`client`) | none | `Get`, `Ready`, `WaitReady`, `Logout` | the daemon |
| commands (`remote.go`, `main.go`, `flags.go`) | none | `status`, `token`, `logout` | the SDK |

What is hard in it:

* every request is a goroutine, and the session has two locks: `opMu` is held
  across the IdP call, `mu` only for single sections, and a logout takes just
  the second one, so that it runs in the middle of refreshes and handoffs;
* the IdP may rotate a token and the answer may not arrive;
* a handoff empties the session before it knows that anybody received it;
* several serves, each with a child process, race for one file name, in steps
  (look, probe, remove, bind) that the operating system does not join;
* what was true when a serve looked (no daemon, a dead daemon) may be false
  when it acts, up to half an hour later;
* the login depends on URLs and numbers the IdP chooses, and on timers of the
  program's own; the expiry of a token is converted between instants and
  seconds in several places, each a little later than the one before.

## Modules

| Module | Models | Uses |
|---|---|---|
| `Custody` | abstract specification: what may happen to one single-use refresh token | |
| `Session` | the session, the singleflight, the refresh call, the IdP | `Custody` (refinement) |
| `SessionInv` | the inductive invariant | `Session` |
| `SessionProofs` | theorems about the session | `SessionInv` |
| `Daemon` | abstract specification: one daemon as others see it | |
| `Server` | the handlers and the shutdown of the daemon, around `Session`; what the SDK makes of an answer | `Session`, `Daemon` (refinement) |
| `ServerProofs` | theorems about the daemon | `Server`, `SessionProofs` |
| `Baton` | abstract specification: the way of one login from process to process | |
| `Takeover` | several serves, their daemons and the socket file | `Daemon` (refinement, once per daemon), `Baton` (once per login) |
| `TakeoverInv` | its inductive invariant | `Takeover` |
| `TakeoverProofs` | theorems about takeovers | `TakeoverInv` |
| `Pin` | the URL predicates and the redirect policy | |
| `DeviceLogin` | discovery, device code, poll loop, HTTP timeouts | `Pin` |
| `Expiry` | the expiry of the access token, from the login through refreshes and takeovers | `DeviceLogin` |
| `LoginInv` | the inductive invariant of both | `Expiry` |
| `LoginProofs` | theorems about both | `LoginInv` |
| `MCSession`, `MCServer`, `MCTakeover`, `MCLogin` | instances for TLC | |

### Session

A thread is a goroutine that serves one request. A section under `s.mu`, or
under the singleflight's own mutex, is one action; `opMu` is a variable,
because it is held across the IdP call. The action that takes `opMu` also runs
the `mu` section that follows, and the action that ends such a section
releases it: nothing in between can be seen by another goroutine.

| Action | Code |
|---|---|
| `GetAccessToken` | the first section of `GetAccessToken` |
| `LeadFlight`, `JoinFlight`, `JoinFinished`, `FlightDelete` | `singleflight.Do`; the key leaves the map after `wg.Done`, in a step of its own |
| `RefreshSkipped`, `RefreshSend` | `refreshIfNeeded` up to the IdP call |
| `IdPAnswer`, `CallAbandoned`, `IdPLate` | the call: answered; given up (timeout, the leader's client went away, connection lost); read by the IdP after it was given up |
| `RecoverPanic` | the `recover` in `Do` |
| `StoreRefresh`, `DiscardRefresh` | the section after a successful call |
| `RefreshRejected`, `RefreshTransient` | `handleRefreshErr` |
| `CallHandoff`, `Handoff`, `HandoffRefused` | `Handoff` |
| `RestoreHandoff`, `ReleaseSnapshot` | the two ends of a handoff |
| `Clear` | `Clear` |
| `Tick` | time |

Tokens are numbers in the order in which they were installed, 0 is the empty
string. The expiry of the newest access token is its age: unknown, fresh,
within the refresh skew, or expired. The token endpoint is set and wiped with
the refresh token and is left out. The IdP may give any answer to any request,
except that it accepts a refresh token once; it may also let the client keep
it. `consumed` are the tokens the IdP has rotated away, `lost` those whose
answer never became part of the session.

### Server

`Server` extends `Session` with the request of each goroutine, the fate of a
handoff body, and the process. `Write` succeeding means only that net/http has
the body in its buffer, so `HandoffWritten` leaves open whether it arrives.
The process stops serving in the three ways of `runServer`'s select: a message in
`shutdownCh`, a signal, or `httpSrv.Serve` returning an error (`ServeFails`); the
history variable `cause` remembers which. A handler whose connection was accepted
before that may begin, and clear or drain the session, while the process is
closing: `Start` asks only that the process has not ended.
`Exit` may happen with requests still inside: `Shutdown` waits five seconds, and
after a failed `Serve` nobody waits.
Requests with a wrong secret and the three read-only routes change nothing and
are no actions. `TokenAnswer` is the status and the error code of an answer of
`/token`, `MapHTTPError` and `ClientGet` are what the SDK tells its caller about
it; the property `ClientsToldTrue` is about the end of that chain.

### Daemon

`Daemon` is the contract between the two levels: a daemon is absent, starting,
serving, closing or gone, its session is ready, handed off or dead, and it may
have decided to stop. A logout is possible until the process is gone, also in a
closing one. A dead session stays dead; a drained one comes back only
by a rollback, and not once the stop is decided. `Server` implements it
(`IsDaemon`, where the state is computed from goroutines, locks, the channel and
the process), and in `Takeover` every daemon is one of it (`AreDaemons`). So a
coarse session of `Takeover` does nothing that the contract forbids to the
detailed one of `Server`. In `Takeover` a logout and the decision to stop are one
step, in `Server` they are several; `Daemon` allows for both.

### Takeover

A serve is a command-line process and the daemon it starts, in the background
or in the foreground. The session in a daemon is reduced to what `Session`
shows to the outside: ready, handed off or dead. The socket file is the name of
the daemon that bound it; removing is by name, as in the code, so a daemon can
remove the file of another. `ListenUnix` is four actions (`Lstat`,
`SocketAlive`, `RemoveStale`, `Bind`). Closing a listener unlinks the path, and
`Exit` does it once more for the deferred `RemoveUnixSocket`. A request of
a serve (`/handoff`, or the `/logout` of `logoutOldDaemon`) is accepted in one step
and handled in another, by the same daemon, which may have closed its listener in
between; a logout from the command line may also be handled that late. Time is
left out: a timeout may happen whenever the code waits with one. Faults are
counted against `MaxFaults`: a crash, a signal, a listener that fails
(`ServeFails`), a body that is not written or lost, and the three probes that may
take a live daemon for a dead one, the health check before a takeover
(`ProbeTimesOut`), the one after a logout (`StopSeenTooEarly`) and the dial of
`socketAlive` (`DialTimesOut`). A command-line process that
is killed itself is not modelled; a serve that was killed during its handoff is
the same as a lost body.

### Baton

`Baton` is what the takeover protocol promises about one login: it is obtained
once and is in one place at a time; a serve gives it to its own daemon only, a
daemon only into the body of one handoff, the body only to the serve that asked
or back to the daemon; and what is lost stays lost. `Takeover` implements it for
every login at once (`LoginsAreHandedOn`). The places are sets, so that a
second holder anywhere makes the step impossible in `Baton`.

### Pin and DeviceLogin

A host is the sequence of its labels, so that dots in the wrong place are empty
labels; capitals and the root label are there. Labels are ASCII: what
`strings.ToLower` and the resolver do with other letters is not modelled. `InZone`
is a reference definition of "inside x.ai" that does not follow the code's order
of steps.

`DeviceLogin` is sequential: one request at a time, then sleeps and polls.
Time is a counter in units of `time.Duration`. A request has a moment at which
`http.Client.Timeout` ends it, redirects included, a sleep has one at which it
ends, and the clock does not go past that moment before the program has acted:
its own steps take no time. `int` and `time.Duration` wrap around at `Half`. The
IdP may name any of `URLs`, send any of `Numbers`, redirect, refuse, or say
nothing. A context that ends is `Cancelled`, or `RequestFails` during a request.

### Expiry

One credential is followed through the places where its expiry has a different
form: `seconds` in a `loginHandoff`, an instant in a session, a string of whole
seconds in the body of `/handoff`. The true end of the token is the IdP's
secret; it may tell it in `expires_in`, in the token, or not at all. An answer,
and the way from a number of seconds to the instant computed from it, take up to
`MaxDelay` each; `slip` adds up what the belief may have lost since the last
refresh, and bounds the chain of takeovers that is looked at. There is one clock:
a difference between the clocks of the IdP and the program, which matters to the
`exp` claim of a JWT, and a clock that stands still while the machine sleeps are
not modelled.

## Runs

| Run | Instance | Shows |
|---|---|---|
| `session` | 3 goroutines, 1 successful refresh | the safety properties below, `IInv`, `StickyStates`, `CustodyKept` |
| `session_live` | 2 goroutines, 1 refresh, fair | `CallsReturn` |
| `server` | 2 goroutines, 1 refresh | `ServerTypeOK`, `NeverStopsAlive`, `ClientsToldTrue`, `StopIsPending`, `QuietAfterHandoff`, `IsDaemon` |
| `server_live` | 2 goroutines, no successful refresh, fair | `StopsAfterLogout`, `RequestsAnswered` |
| `takeover` | 3 serves, 1 secret or none, 2 faults | `SingleRefresher`, `FailedLeavesNothing`, `SecretScopesLogin`, `DrainedIsWatched`, `TInv`, `AreDaemons`, `LoginsAreHandedOn` |
| `takeover_live` | 2 serves, 1 secret or none, 4 faults, fair | `ServeReturns`, `DrainedGoes`, `ChildSettles` |
| `login` | 9 URLs, numbers {0, 1, 4, 40}, 7-bit durations, 18 units of time, fair | `LoginTypeOK`, `StaysHome`, `LoginEndsInTime`, `KeepsInterval`, `FreshIsValid`, `TakeoverKeepsExpiry`, `LInv`, `LoginEnds` |

The properties:

* `WipedUnlessReady`: a ready session has its newest tokens, any other none.
* `HeldTokenUnspent`: the refresh token that is held, on its way to the IdP, or
  in a snapshot has not been rotated away, unless the answer was lost.
* `LogoutFinal`, `StickyStates`: nothing brings a session back after a logout
  or a terminal refusal.
* `PermanentErrorsAreTrue`: nobody is told to log in again while the session is
  alive. `ClientsToldTrue`: the same of what the SDK reports; the right secret is
  never called wrong, and a 200 has a token in it.
* `LastErrorExplains`: degraded means that a refresh failed.
* `NoStaleToken`: no answer is older than the newest token before the call.
* `OneRefresh`: one refresh at a time.
* `WaitsAreServed`: whoever waits, for a flight or for `opMu`, waits for a
  goroutine that can go on by itself, and a finished call is about to leave the
  map.
* `CustodyKept`: the session implements `Custody`.
* `NeverStopsAlive`: the daemon never decides to stop while its session is ready
  or may still be rolled back. A live session goes down only with a signal or a
  failed listener, which `docs/REFERENCE.md:103` lists as exits too.
* `QuietAfterHandoff`: once a successor may have the session, no request left in
  the old daemon, also while `Shutdown` waits for it, uses the refresh token.
* `StopIsPending`: after a logout or a handoff, the shutdown is still to be
  scheduled by a handler, scheduled, in the channel, or under way; it is never
  dropped.
* `SingleRefresher`: through any takeover, rollback, loss or crash, a login has
  at most one holder among all processes.
* `SecretScopesLogin`: a login stays under the secret it was obtained with.
* `FailedLeavesNothing`: a serve that failed has no daemon left.
* `DrainedIsWatched`: a ready daemon has a login; a drained one that listens is
  about to stop, or its login is in the body of a handoff that is not over.
* `LoginsAreHandedOn`: every login goes its way as `Baton` says.
* `IsDaemon`, `AreDaemons`: `Server`, and every daemon of `Takeover`, implement
  `Daemon`.
* `StaysHome`: through discovery, redirects and the device code, no request and
  no user goes to a host outside x.ai, or off https.
* `LoginEndsInTime`: the whole login is bounded. Redirects do not extend the
  timeout of a request, and the poll loop ends in time (`PollEndsInTime`) also
  when its window overflows.
* `KeepsInterval`: polls are never closer than the interval of the device code,
  and one second further apart for each slow_down, up to the cap.
* `FreshIsValid`: a token that is served without a refresh has not ended, if the
  delays since the last refresh stay within the skew of five minutes.
* `TakeoverKeepsExpiry`: a takeover costs less than two seconds of expiry.
* `CallsReturn`, `RequestsAnswered`, `StopsAfterLogout`, `ServeReturns`,
  `DrainedGoes`, `ChildSettles`, `LoginEnds`: what must eventually happen.
  `RequestsAnswered` says that no request hangs in a process that lives on; one
  that is still inside when the process ends gets no answer.

### Bounds

Three goroutines are enough for a leader, a follower and somebody who logs out
or hands off meanwhile; a fourth would repeat one of these roles. `MaxRefresh`
limits the access tokens that the IdP issues; refused, failed and lost
refreshes are not limited. The theorems have no such bounds. Three serves are
enough for an old daemon, its successor and a third party; two faults may be
placed anywhere, so that for instance a signal meets a rollback. A serve without
a secret generates its own, which is how a second secret comes in. Goroutines
and serves are interchangeable, and the
runs that check no liveness use that as a symmetry where it pays. In `login` a
second has two units, so that a fraction can be cut off; 40 seconds overflow the
width and 4 exceed the window, the interval and the skew; the URLs are three inside
x.ai, five that resemble one, and one without TLS; and the clock runs long
enough for a login, a refresh and two takeovers. `MaxSlip` exceeds `RefreshSkew`,
so that the condition of `FreshIsValid` can fail as well as hold.
Deadlock is checked in `Session`, and not in `Server` and `Takeover`, where
processes end, nor in `Expiry`, where the clock does.

### Fairness

A goroutine or a process that can run does (weak fairness). `opMu` is a Go
`sync.Mutex`, whose starvation mode hands it to a goroutine that has waited for
a millisecond: strong fairness for the actions that take it. The IdP client has
a timeout, so a call ends. `listenWithRetry`, the wait for the child, the
device login and every HTTP call have a deadline, so each of these waits ends
too; the listen loop gives up at its first failed attempt after the deadline,
hence strong fairness for `ListenGivesUp`. Nobody is obliged to send a request,
to start a serve, or to let a token get old, and no fault has to happen. For the
device login, time passes, timers fire and the process runs (weak fairness of
`Tick` and `DeviceStep`); the IdP owes no answer.

## Where the documents and the code differ

Each of these is a run that TLC ends with a counterexample.

* `session_logout`: "Subsequent GetAccessToken fails with reauth"
  (`session.go:197`). A refresh that was in flight during the logout and is
  refused with 403 makes it tier_denied.
* `server_resurrect`: "a logout that raced the handoff must not be resurrected"
  (`session.go:178`). A logout between the drain and the `Write` is answered
  with success, and the successor carries on with the session.
* `takeover_orphan`: "a live daemon is never silently orphaned"
  (`docs/REFERENCE.md:75`). The predecessor closes its listener, the successor
  binds, and then the predecessor's deferred `RemoveUnixSocket` deletes the
  file of the successor.
* `takeover_replace`: "Sticky states already wiped the old daemon's tokens;
  stopping it loses nothing" (`serve.go:124`). During the device login another
  serve may have replaced the dead daemon; its live session is logged out.
* `login_window`: "bounds the total poll window: the IdP-provided expires_in,
  capped at MaxDeviceAuthWindow" (`device.go:164`). The product overflows before
  it is compared with the cap, and the login ends at once with `device_timeout`.

The models show some more behaviour worth knowing that has no run of its own:

* A refresh that is given up after the IdP has rotated the token leaves the
  spent token in the session, and a handoff exports it (`lost` in
  `HeldTokenUnspent` is this case). The program cannot see it.
* A handoff body that is lost after `Write` has returned is not rolled back.
* A handoff that is rolled back clears the last error, and with it the record
  that a refresh had failed.
* A parent may take the daemon of another serve with the same secret for its
  child (`DaemonReady` does not ask whose daemon answers). `ChildSettles` says that
  the child then gets to listen, or goes away, all the same.
* The deadline of a login is looked at only at the head of the loop: who approves
  during the last sleep gets `device_timeout`, although the IdP would say yes.
* An interval above 30 seconds is cut to 30, so that the program polls faster
  than such an IdP asked for.
* After a slow_down the program waits one second longer (`device.go:148`). RFC
  8628, section 3.5, has it ask for five: an IdP that follows the RFC is polled
  faster than it asked for, and `KeepsInterval` does not say otherwise. No
  document of the repository cites the RFC, so there is no run for it.
* A listener that fails ends the process at once, with a live session in it; the
  handlers that are still running lose their clients (`serve.go:254`).
* A live daemon whose backlog is full for 250 ms, or which takes half a second to
  answer `/health`, loses its socket file to the next serve.
* `takeover.go:115` calls the loss of a conversion sub-second; the body drops a
  fraction and the successor another one, so it is below two seconds. The
  delays on the way, which move the belief in the other direction, are what the
  refresh skew is needed for.

## Proofs

`SessionProofs` and `ServerProofs` hold for any set of goroutines and any
`MaxRefresh`; the only assumptions are that `NoThread` is not a goroutine and
that `MaxRefresh` is a natural number.

None of the safety properties is inductive. `LogoutFinal`, for instance, needs
that a rollback finds the session still drained; that nobody refreshes beside a
drain needs the lock; that the lock protects a single call needs the
singleflight. `IInv` adds to the properties:

* `LockInv`: `opMu` is held exactly by the goroutine at the IdP call, which has
  the newest refresh token, and the session is ready or was logged out;
* `FlightInv`: the call in the map has exactly one leader;
* `SnapInv`: there is one snapshot at most, of the newest tokens, and no refresh
  beside it or after its export;
* `SpentInv`: the newest token is spent only in an answer about to be
  installed, in a lost one, or in one that was dropped with the session;
* `StaleInv`: what a finished flight may still answer is new enough;
* `ErrInv`: permanent errors in a finished flight, and the last error, fit the
  state.

One lemma per action shows that it preserves `IInv`, with one step per
conjunct. Type correctness, all safety invariants of the `session` run, the
action property `StickyStates` and the refinement `CustodyKept` follow.
`ServerProofs` uses that every step of the daemon is a step of `Session` or
leaves it alone (the lemma `Uses`, by the shape of the module), so that all of
this holds in the daemon, `QuietAfterHandoff` included; it derives
`ServerTypeOK`; `ClientsToldTrue`, with `AnswerInv` (an outcome is an error or a
token, never neither); and, with the invariant `StopInv` about scheduled
shutdowns, `NeverStopsAlive`. The refinement `IsDaemon` needs both `IInv` (a
rollback is the only way out of a drained session) and `StopInv` (nothing is
scheduled while a snapshot is out, unless the session is dead).

`TakeoverProofs` holds for any number of serves, secrets and faults; it assumes
that `NoOne` and `Unset` are not serves, that `Unset` is not a secret and that
`MaxFaults` is a natural number. `SingleRefresher` and `SecretScopesLogin` say
nothing about where a login may be, and are not inductive alone. `TInv` adds:

* `HoldInv`: a login is in the process the serve's progress says it is in (a
  daemon has one only in a ready session), so that moving it on leaves nothing
  behind;
* `ConnInv`: a request goes to a daemon that was started, and an answer is on
  its way only between serves with the same secret;
* `LoginInv`: nobody holds a login that has not been performed, so that a new
  one has one holder, and a secret is generated before anything depends on it;

and the refinement `AreDaemons` needs `DrainInv`: a handoff body is on its way
from a live daemon only while that daemon is not stopping or its session is dead.

`LoginProofs` holds for any set of URLs, with hosts of any number of labels, any
numbers, any width, any second, timeouts, caps, skew and bounds, as long as they
are natural (and positive where zero makes no sense). `LInv` adds to the
properties:

* `TimeInv`: nothing that is waited for is overdue, and a deadline lies within
  the capped window, which is where the overflow is harmless: `Least` bounds the
  wrapped product, whatever it is;
* `IntervalInv`: the interval is that of the device code plus a second for each
  slow_down, capped;
* `PlaceInv`: a credential exists after the login only, and does not linger;
* `SlipInv`: the believed end is later than the true one by `slip` at most; a
  wrapped product is never larger than the product it stands for;
* `KnownInv`: what is left of the predecessor's expiry on its way.

### What the proofs say of liveness

Liveness is out of the prover's reach. What can go wrong in it is not: a waiter
without anybody to wake it, a shutdown nobody remembers, a drained daemon that
nothing will settle, a timer that is set anew. Each liveness property of that
kind has a safety part that needs no fairness and is proved for any instance:
`WaitsAreServed` for `CallsReturn`, `StopIsPending` for `StopsAfterLogout`,
`DrainedIsWatched` for `DrainedGoes`, `LoginEndsInTime` for `LoginEnds`. With
these, and the fairness above, what is left to TLC is that the steps shown to
be possible are taken.

* `Served` follows from `IInv` and a step lemma: a flight in the map keeps its
  leader (`LeaderStays`) until `wg.Done` has released everybody
  (`EndedFlightServed`).
* `Pending` is inductive with `ServerTypeOK`: the request, the scheduled
  goroutine, the channel and the closing listener pass the obligation on.
* `DrainWatched` needs `FullInv`: a serve past its login has one, an answer on
  its way carries one, and a ready session holds one. `TInv` only says where a
  login may be, and not that it is there.
* `LoginIsBounded` needs `StartInv`: when the requests before the loop are over.

### Logins on their way

`HandedOn` shows step by step that `Takeover` implements `Baton` for each login
`l`. `Placed` turns `TInv` into the fact the abstract actions are written in: the
sets of serves, daemons and bodies that have `l` hold one element altogether, or
none. `NotGained` covers every step after which no set has an element more: such
a step stutters or loses the login. The steps that move a login have one case
per edge of `Baton` (`Moves`). That no edge is missing is the content of the
theorem: a login that was lost is not found again through the answer of a
handoff, a rollback or a child that starts late.

`DaemonKeepsCustody` composes the refinements the other way: the daemon of
`Server`, goroutines and shutdown included, implements `Custody`.

### Operators and their references

* `XAIHostIsZone`: `IsXAIHost` accepts a host exactly when it lies in the zone
  by the reference definition `InZone`, for every sequence of ASCII labels, in
  any case of the letters; the run `login` sees nine hosts.
* `WindowIsExact`: `WindowIsExpiresIn`, which the run `login_window` refutes,
  holds if every `expires_in` fits a `time.Duration`. With `WindowInv` (the loop
  never moves its deadline) this says that the overflow in `device.go:169` is
  the only thing wrong.

Only model-checked: the liveness properties `CallsReturn`, `StopsAfterLogout`,
`RequestsAnswered`, `ServeReturns`, `DrainedGoes`, `ChildSettles` and
`LoginEnds`. All other properties of the runs that pass have a theorem.

## Not modelled

* The characters and the length of URLs and user codes, ports and user names in
  URLs (`pin.go`): what `net/url` makes of them is not the program's own logic,
  and a model on characters would copy the parser. The decoding of a JWT is
  reduced to whether there is a claim.
* In the SDK, `Status`, `Ready` and `Health` only read; the transport that adds
  a token to requests and the search for the socket path have no state.
* Directory and socket permissions, which only the operating system can judge.
* Formatting, logging, sanitising of messages, flags and usage; opening a
  browser.
* A command-line process that is killed, other than during its handoff.

## Plan

1. `Status` and `Ready` as the SDK's `WaitReady` and `cmdStatus` see them while
   the daemon is replaced between two requests.
2. The bearer-injecting transport of the SDK over `Pin`: a token must not follow
   a redirect to another host.
3. A proof that `Takeover`'s login is an abstraction of `DeviceLogin`.
