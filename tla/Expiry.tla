------------------------------- MODULE Expiry -------------------------------
(***************************************************************************)
(* What the program believes about the end of its access token: from the   *)
(* device login through loginHandoff to NewFromLogin, through refreshes,   *)
(* and through takeovers, where the expiry becomes a string of whole       *)
(* seconds, then a number of seconds, then an instant again                *)
(* (ExpiresAtFromToken of internal/protocol/jwt.go, parseHandoffResponse   *)
(* of cmd/xai-oauth/takeover.go, session.go and serve.go).                 *)
(*                                                                         *)
(* One credential is followed; `place` is where it is.                     *)
(***************************************************************************)
EXTENDS DeviceLogin

CONSTANTS
  RefreshSkew,  \* a duration
  MaxDelay,     \* bound: an answer's way, and the way from a number of seconds
                \* to the instant computed from it
  MaxSlip,      \* bound: the sum of such delays between two refreshes
  Horizon       \* bound: the clock

ASSUME ExpiryAssumption ==
  /\ RefreshSkew \in Nat /\ MaxDelay \in Nat
  /\ MaxSlip \in Nat /\ Horizon \in Nat

VARIABLES
  place,      \* "none", "seconds" (a loginHandoff), "session" or "body" (the
              \* answer of /handoff)
  since,      \* when it came there
  seconds,    \* loginHandoff.ExpiresIn
  expiresAt,  \* Session.expiresAt, and HandoffData.ExpiresAt
  hasExpiry,  \* Session.hasExpiry, and HandoffData.HasExpiry
  trueEnd,    \* when the IdP really ends the access token
  jwt,        \* the access token is a JWT that says so
  slip,       \* history: delays the belief may have suffered, at most
  was         \* history: the expiry the predecessor knew, or -1

expiryVars == <<place, since, seconds, expiresAt, hasExpiry, trueEnd, jwt, slip, was>>
vars       == <<deviceVars, expiryVars>>

Init ==
  /\ DeviceInit
  /\ place = "none" /\ since = 0
  /\ seconds = 0 /\ expiresAt = 0 /\ hasExpiry = FALSE
  /\ trueEnd = 0 /\ jwt = FALSE
  /\ slip = 0 /\ was = -1

-----------------------------------------------------------------------------
\* JWTExp: the exp claim in whole seconds, 0 without one.
JWTExp == IF jwt THEN trueEnd \div Second ELSE 0

\* ExpiresAtFromToken: expires_in counts from now, or else the claim is used.
ExpiresAtFromToken(secs) ==
  /\ hasExpiry' = (secs > 0 \/ JWTExp' > 0)
  /\ expiresAt' = IF secs > 0 THEN now + Wrap(secs * Second) ELSE JWTExp' * Second

\* accessStillFreshLocked
AccessStillFresh == hasExpiry /\ now < expiresAt - RefreshSkew

\* The IdP issues an access token with a lifetime in seconds, some time before
\* its answer arrives; it may say so in expires_in, in the token, or not at all.
Issue(life, told) ==
  /\ \E lag \in 0 .. MaxDelay : trueEnd' = now - lag + life * Second
  /\ jwt' \in BOOLEAN
  /\ seconds' = IF told THEN life ELSE 0

\* PollDeviceToken succeeds: deviceLoginHandoff fills in a loginHandoff.
Login ==
  /\ Granted
  /\ \E life \in Numbers, told \in BOOLEAN : life > 0 /\ Issue(life, told)
  /\ place' = "seconds" /\ since' = now
  /\ slip' = MaxDelay /\ was' = -1
  /\ UNCHANGED <<expiresAt, hasExpiry>>

\* NewFromLogin, in the foreground or in the child.
NewFromLogin ==
  /\ place = "seconds"
  /\ UNCHANGED <<trueEnd, jwt, was>>
  /\ ExpiresAtFromToken(seconds)
  /\ place' = "session" /\ since' = now
  /\ seconds' = 0
  /\ slip' = slip + MaxDelay
  /\ UNCHANGED deviceVars

\* refreshIfNeeded: a new access token, which may not tell its end.
Refresh ==
  /\ place = "session" /\ ~AccessStillFresh
  /\ \E life \in Numbers, told \in BOOLEAN :
       /\ life > 0
       /\ Issue(life, told)
       /\ ExpiresAtFromToken(seconds')
  /\ since' = now
  /\ slip' = MaxDelay /\ was' = -1
  /\ UNCHANGED <<deviceVars, place>>

\* Handoff: the snapshot goes into the body.
Handoff ==
  /\ place = "session" /\ slip + MaxDelay <= MaxSlip
  /\ place' = "body" /\ since' = now
  /\ was' = IF hasExpiry THEN Least(expiresAt, now + Half - 1) ELSE -1
  /\ UNCHANGED <<deviceVars, seconds, expiresAt, hasExpiry, trueEnd, jwt, slip>>

\* RestoreHandoff
RestoreHandoff ==
  /\ place = "body"
  /\ place' = "session" /\ since' = now
  /\ was' = -1
  /\ UNCHANGED <<deviceVars, seconds, expiresAt, hasExpiry, trueEnd, jwt, slip>>

\* time.Until
Until(t) == Least(t - now, Half - 1)

\* The body's time has no fraction; the time left is cut to whole seconds.
WholeSeconds == Until((expiresAt \div Second) * Second) \div Second

\* Mutant: the seconds are not counted from now.
AbsoluteSeconds == IF hasExpiry /\ expiresAt > 0 THEN expiresAt \div Second ELSE 0

\* Mutant: the expiry does not travel.
ExpiryDropped == 0

\* An expiry that is unknown or reached is left out.
SecondsLeft == IF hasExpiry /\ WholeSeconds > 0 THEN WholeSeconds ELSE 0

\* parseHandoffResponse
ParseHandoffResponse ==
  /\ place = "body"
  /\ seconds' = SecondsLeft
  /\ expiresAt' = 0 /\ hasExpiry' = FALSE
  /\ place' = "seconds" /\ since' = now
  /\ UNCHANGED <<deviceVars, trueEnd, jwt, slip, was>>

\* Time passes for the credential.
Age ==
  /\ pc = "done" /\ now < Horizon
  /\ place = "session" \/ now < since + MaxDelay
  /\ now' = now + 1
  /\ UNCHANGED <<pc, req, due, pollVars, outcome, expiryVars>>

-----------------------------------------------------------------------------
Next ==
  \/ DeviceNext /\ UNCHANGED expiryVars
  \/ Login \/ NewFromLogin \/ Refresh \/ Handoff \/ RestoreHandoff
  \/ ParseHandoffResponse \/ Age

Spec == Init /\ [][Next]_vars

\* The fairness of the login.
FairSpec == Spec /\ DeviceFairness

-----------------------------------------------------------------------------
(***************************************************************************)
(* Properties.                                                             *)
(***************************************************************************)

\* The types of the variables.
ExpiryTypeOK ==
  /\ place \in {"none", "seconds", "session", "body"}
  /\ since \in Nat /\ since <= now
  /\ seconds \in Nat
  /\ expiresAt \in Int /\ trueEnd \in Int
  /\ hasExpiry \in BOOLEAN /\ jwt \in BOOLEAN
  /\ slip \in Nat
  /\ was \in Int

\* The types of the login and of the expiry that comes of it; in particular no
\* request is redirected more than four times, and no number of seconds that a
\* successor is started with is negative.
LoginTypeOK == DeviceTypeOK /\ ExpiryTypeOK

\* A token that the session serves without a refresh has not ended at the IdP,
\* after any number of conversions whose delays add up to less than RefreshSkew,
\* and for any expires_in, also one that overflows.
FreshIsValid ==
  place = "session" /\ slip <= RefreshSkew /\ AccessStillFresh => now < trueEnd

\* A takeover takes less than two seconds off a known expiry, and forgets it only
\* within two seconds of it: a successor does not refresh for nothing.
TakeoverKeepsExpiry ==
  place = "session" /\ was >= 0 =>
    IF hasExpiry THEN expiresAt + 2 * Second > Least(was, trueEnd)
    ELSE now + 2 * Second > was

=============================================================================
