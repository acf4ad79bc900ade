---------------------------- MODULE DeviceLogin ----------------------------
(***************************************************************************)
(* The device login of internal/protocol/device.go: discovery              *)
(* (discovery.go), the device code, and the poll loop, over the HTTP       *)
(* client of httpclient.go.                                                *)
(*                                                                         *)
(* Time is counted in units of time.Duration; a second has Second of them. *)
(* The clock does not pass the moment at which a request times out or a    *)
(* sleep ends before the program has noticed: its own steps take no time.  *)
(* int and time.Duration hold -Half .. Half - 1.                           *)
(***************************************************************************)
EXTENDS Pin

CONSTANTS
  URLs,                   \* URLs the IdP may name
  Numbers,                \* values of expires_in and interval it may send
  Second,                 \* time.Second
  Half,                   \* 2^63
  IDPRequestTimeout,      \* a duration
  MaxDeviceAuthWindow,    \* a duration
  MaxDevicePollInterval   \* in whole seconds

ASSUME DeviceAssumption ==
  /\ URLs \subseteq [scheme : STRING, host : Seq(STRING)]
  /\ Numbers \subseteq Int
  /\ Second \in Nat \ {0} /\ Half \in Nat \ {0}
  /\ IDPRequestTimeout \in Nat \ {0}
  /\ MaxDeviceAuthWindow \in Nat \ {0}
  /\ MaxDevicePollInterval \in Nat \ {0}

VARIABLES
  now,        \* the clock
  pc,         \* "discover", "code", "poll" (the head of the loop), "ask",
              \* "sleep" or "done"
  req,        \* the request in flight: its URL, and how many were sent so far
  due,        \* when the request times out, or the sleep ends
  endpoint,   \* Discovery.TokenEndpoint
  verify,     \* the URL the user is sent to
  expiresIn,  \* DeviceCodeResponse.ExpiresIn
  asked,      \* DeviceCodeResponse.Interval
  start,      \* when PollDeviceToken was called
  deadline,   \* its deadline
  interval,   \* its currentInterval, in seconds
  slow,       \* history: how often the IdP answered slow_down
  answered,   \* history: when it last said to poll again, or -1
  outcome     \* how DeviceLogin returned: "none" yet, "ok", or the error

pollVars   == <<endpoint, verify, expiresIn, asked, start, deadline, interval,
                slow, answered>>
deviceVars == <<now, pc, req, due, pollVars, outcome>>

Waiting == {"discover", "code", "ask", "sleep"}
InPoll  == {"poll", "ask", "sleep"}

NoReq == [url |-> NoURL, via |-> 0]

DiscoveryURL  == [scheme |-> "https", host |-> <<"auth", "x", "ai">>]
DeviceCodeURL == DiscoveryURL

Least(a, b) == IF a < b THEN a ELSE b

\* Signed arithmetic wraps around.
Wrap(n) == ((n + Half) % (2 * Half)) - Half

\* Mutant: the cap is forgotten.
UncappedWindow(seconds) == Wrap(seconds * Second)

\* deviceAuthWindow
DeviceAuthWindow(seconds) == Least(Wrap(seconds * Second), MaxDeviceAuthWindow)

\* Mutant: slow_down is clamped to the first interval.
ClampToOne(seconds) == 1

\* clampPollInterval
ClampPollInterval(seconds) ==
  IF seconds < 1 THEN 1 ELSE Least(seconds, MaxDevicePollInterval)

-----------------------------------------------------------------------------
\* DeviceLogin is called, and the request for the configuration is sent.
DeviceInit ==
  /\ now = 0
  /\ pc = "discover"
  /\ req = [url |-> DiscoveryURL, via |-> 1]
  /\ due = IDPRequestTimeout
  /\ endpoint = NoURL /\ verify = NoURL
  /\ expiresIn = 0 /\ asked = 0
  /\ start = 0 /\ deadline = 0 /\ interval = 0
  /\ slow = 0 /\ answered = -1
  /\ outcome = "none"

\* A request goes out; its timeout covers every redirect.
Send(u) ==
  /\ req' = [url |-> u, via |-> 1]
  /\ due' = now + IDPRequestTimeout

\* DeviceLogin returns, and its locals are gone.
ReturnWith(result) ==
  /\ pc' = "done" /\ outcome' = result
  /\ req' = NoReq /\ due' = 0
  /\ endpoint' = NoURL /\ verify' = NoURL
  /\ expiresIn' = 0 /\ asked' = 0
  /\ start' = 0 /\ deadline' = 0 /\ interval' = 0
  /\ slow' = 0 /\ answered' = -1
  /\ UNCHANGED now

-----------------------------------------------------------------------------
(***************************************************************************)
(* Any of the three kinds of request.                                      *)
(***************************************************************************)

\* Mutant: every redirect gets a timeout of its own.
TimeoutPerRedirect ==
  /\ req # NoReq
  /\ \E u \in URLs :
       \/ /\ CheckIDPRedirect(u, req.via)
          /\ req' = [url |-> u, via |-> req.via + 1]
          /\ due' = now + IDPRequestTimeout
          /\ UNCHANGED <<now, pc, pollVars, outcome>>
       \/ ~CheckIDPRedirect(u, req.via) /\ ReturnWith("transient")

\* The IdP redirects: the client follows, or gives up.
Redirected ==
  /\ req # NoReq
  /\ \E u \in URLs :
       \/ /\ CheckIDPRedirect(u, req.via)
          /\ req' = [url |-> u, via |-> req.via + 1]
          /\ UNCHANGED <<now, pc, due, pollVars, outcome>>
       \/ ~CheckIDPRedirect(u, req.via) /\ ReturnWith("transient")

\* The connection breaks, the context ends, the status is not 200 (outside the
\* poll) or the body cannot be parsed.
RequestFails ==
  /\ req # NoReq /\ now < due
  /\ ReturnWith("transient")

\* Mutant: only discovery has a timeout.
NoTimeout ==
  /\ pc = "discover" /\ now = due
  /\ ReturnWith("transient")

\* http.Client.Timeout
RequestTimesOut ==
  /\ req # NoReq /\ now = due
  /\ ReturnWith("transient")

\* Discover: both endpoints are pinned, the second one only if it is there.
Discovered ==
  /\ pc = "discover"
  /\ \E ep, az \in URLs \cup {NoURL} :
       \/ /\ ValidateXAIURL(ep) /\ (az = NoURL \/ ValidateXAIURL(az))
          /\ pc' = "code"
          /\ endpoint' = ep
          /\ Send(DeviceCodeURL)
          /\ UNCHANGED <<now, verify, expiresIn, asked, start, deadline,
                         interval, slow, answered, outcome>>
       \/ /\ ~ValidateXAIURL(ep) \/ (az # NoURL /\ ~ValidateXAIURL(az))
          /\ ReturnWith("transient")

\* RequestDeviceCode's checks on the answer, user_code apart.
DeviceCodeOK(uri, complete, expires, every) ==
  /\ expires > 0 /\ every > 0
  /\ ValidateVerificationURI(uri)
  /\ complete = NoURL \/ ValidateVerificationURI(complete)

\* The device code arrives; the user is shown where to go, and polling starts
\* (after another look at the endpoint, which discovery has checked).
CodeReceived ==
  /\ pc = "code"
  /\ \E uri, complete \in URLs \cup {NoURL}, expires, every \in Numbers :
       /\ DeviceCodeOK(uri, complete, expires, every)
       /\ verify' = IF complete = NoURL THEN uri ELSE complete
       /\ expiresIn' = expires
       /\ asked' = every
       /\ start' = now
       /\ deadline' = now + DeviceAuthWindow(expires)
       /\ interval' = ClampPollInterval(every)
  /\ pc' = "poll" /\ req' = NoReq /\ due' = 0
  /\ UNCHANGED <<now, endpoint, slow, answered, outcome>>

\* A field is missing or out of range, or user_code is malformed.
CodeRefused ==
  /\ pc = "code"
  /\ ReturnWith("transient")

-----------------------------------------------------------------------------
(***************************************************************************)
(* PollDeviceToken.                                                        *)
(***************************************************************************)

PollSend ==
  /\ pc = "poll" /\ now < deadline
  /\ pc' = "ask"
  /\ Send(endpoint)
  /\ UNCHANGED <<now, pollVars, outcome>>

PollTimesOut ==
  /\ pc = "poll" /\ now >= deadline
  /\ ReturnWith("device_timeout")

\* sleepCtx
SleepFor(seconds) ==
  /\ pc' = "sleep"
  /\ due' = now + seconds * Second
  /\ req' = NoReq
  /\ answered' = now

AuthorizationPending ==
  /\ pc = "ask"
  /\ SleepFor(interval)
  /\ UNCHANGED <<now, endpoint, verify, expiresIn, asked, start, deadline,
                 interval, slow, outcome>>

SlowDown ==
  /\ pc = "ask"
  /\ interval' = ClampPollInterval(interval + 1)
  /\ slow' = slow + 1
  /\ SleepFor(interval')
  /\ UNCHANGED <<now, endpoint, verify, expiresIn, asked, start, deadline, outcome>>

\* Both tokens arrive.
Granted ==
  /\ pc = "ask"
  /\ ReturnWith("ok")

\* Any other error, or a 200 without one of the tokens.
Denied ==
  /\ pc = "ask"
  /\ ReturnWith("reauth")

Wake ==
  /\ pc = "sleep" /\ now = due
  /\ pc' = "poll" /\ due' = 0
  /\ UNCHANGED <<now, req, pollVars, outcome>>

\* The caller's context ends during a sleep or at the head of the loop.
Cancelled ==
  /\ pc = "sleep" \/ (pc = "poll" /\ now < deadline)
  /\ ReturnWith("canceled")

-----------------------------------------------------------------------------
\* Time passes while the program waits.
Tick ==
  /\ pc \in Waiting /\ now < due
  /\ now' = now + 1
  /\ UNCHANGED <<pc, req, due, pollVars, outcome>>

\* What the program does by itself.
DeviceStep == RequestTimesOut \/ PollSend \/ PollTimesOut \/ Wake

\* Every step but the one that brings the tokens.
DeviceNext ==
  \/ DeviceStep \/ Tick
  \/ Redirected \/ RequestFails \/ Discovered \/ CodeReceived \/ CodeRefused
  \/ AuthorizationPending \/ SlowDown \/ Denied \/ Cancelled

DeviceSpec == DeviceInit /\ [][DeviceNext \/ Granted]_deviceVars

\* Timers fire and the process runs; the IdP owes no answer.
DeviceFairness == WF_deviceVars(DeviceStep) /\ WF_deviceVars(Tick)

-----------------------------------------------------------------------------
(***************************************************************************)
(* Properties.                                                             *)
(***************************************************************************)

\* The types of the variables; a request is in flight exactly while one is
\* waited for.
DeviceTypeOK ==
  /\ now \in Nat /\ due \in Nat /\ start \in Nat /\ slow \in Nat
  /\ pc \in Waiting \cup {"poll", "done"}
  /\ req \in [url : URLs \cup {NoURL, DiscoveryURL}, via : 0 .. 5]
  /\ req = NoReq <=> pc \notin {"discover", "code", "ask"}
  /\ endpoint \in URLs \cup {NoURL} /\ verify \in URLs \cup {NoURL}
  /\ expiresIn \in Numbers \cup {0} /\ asked \in Numbers \cup {0}
  /\ deadline \in Int
  /\ interval \in 0 .. MaxDevicePollInterval
  /\ answered \in Nat \cup {-1}
  /\ outcome \in {"none", "ok", "transient", "reauth", "canceled", "device_timeout"}
  /\ outcome = "none" <=> pc # "done"

\* Through discovery, redirects and the device code, nothing the IdP names takes
\* a device code or the user to a host outside the zone x.ai, or off https.
StaysHome ==
  \A u \in {req.url, endpoint, verify} \ {NoURL} :
    u.scheme = "https" /\ InZone(u.host)

\* The poll loop is over within MaxDeviceAuthWindow, one request and one sleep,
\* whatever expires_in and however often slow_down: also when the window
\* overflows, nothing pins the process in the loop.
PollEndsInTime ==
  pc \in InPoll =>
    now <= start + MaxDeviceAuthWindow + IDPRequestTimeout
             + MaxDevicePollInterval * Second

\* The whole login is over in bounded time: the two requests before the poll
\* loop within one timeout each, which all their redirects share and no answer
\* of the IdP starts again, and then the loop as PollEndsInTime says.
LoginEndsInTime ==
  /\ pc \in {"discover", "code"} => now <= 2 * IDPRequestTimeout
  /\ pc \in InPoll => start <= 2 * IDPRequestTimeout
  /\ PollEndsInTime

\* Polls are never closer than the interval that came with the device code, and
\* each slow_down so far keeps them one second further apart, up to the cap.  The
\* second is the program's own choice (PollDeviceToken): RFC 8628 has a slow_down
\* ask for five, so this is weaker than what an IdP that follows it expects.
KeepsInterval ==
  pc = "poll" /\ answered >= 0 =>
    now >= answered + Least(asked + slow, MaxDevicePollInterval) * Second

\* The login comes to an end even if the IdP never answers.
LoginEnds == <>(pc = "done")

(***************************************************************************)
(* A statement of the repository's documents that the code does not keep.  *)
(***************************************************************************)

\* "the total poll window: the IdP-provided expires_in, capped at
\* MaxDeviceAuthWindow".
WindowIsExpiresIn ==
  pc = "poll" => deadline = start + Least(expiresIn * Second, MaxDeviceAuthWindow)

=============================================================================
