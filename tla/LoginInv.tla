------------------------------ MODULE LoginInv ------------------------------
(***************************************************************************)
(* The inductive invariant behind the theorems of LoginProofs.             *)
(***************************************************************************)
EXTENDS Expiry

PollLimit == MaxDeviceAuthWindow + IDPRequestTimeout + MaxDevicePollInterval * Second

\* What is waited for is never overdue, and ends in time for PollEndsInTime.
TimeInv ==
  /\ pc \in Waiting => now <= due
  /\ pc \in InPoll => deadline <= start + MaxDeviceAuthWindow
  /\ pc = "ask" => due <= start + MaxDeviceAuthWindow + IDPRequestTimeout
  /\ pc = "sleep" => due <= start + PollLimit
  /\ pc = "poll" => now <= start + PollLimit

\* When the requests before the poll loop are over, and so when it starts.
StartInv ==
  /\ pc = "discover" => due <= IDPRequestTimeout
  /\ pc = "code" => due <= 2 * IDPRequestTimeout
  /\ pc \in InPoll => start <= 2 * IDPRequestTimeout

\* The window is what the IdP granted, up to the cap, unless time.Duration
\* cannot hold it.
WindowInv ==
  pc \in InPoll /\ expiresIn * Second < Half =>
    deadline = start + Least(expiresIn * Second, MaxDeviceAuthWindow)

\* The interval is that of the device code and a second for each slow_down, up to
\* the cap, and a sleep lasts as long.
IntervalInv ==
  /\ pc \in {"discover", "code"} => slow = 0 /\ answered = -1
  /\ pc \in InPoll => asked > 0 /\ interval = Least(asked + slow, MaxDevicePollInterval)
  /\ pc = "sleep" => answered >= 0 /\ due = answered + interval * Second

\* A credential exists only after the login, and does not linger on its way.
PlaceInv ==
  /\ pc # "done" => place = "none"
  /\ place \in {"seconds", "body"} => now <= since + MaxDelay

\* The believed end of the token is later than the true one by the slip at most.
SlipInv ==
  /\ place = "seconds" /\ seconds > 0 => since + seconds * Second <= trueEnd + slip
  /\ place \in {"session", "body"} /\ hasExpiry => expiresAt <= trueEnd + slip

\* How much of the predecessor's expiry is left on the way.
KnownInv ==
  /\ place = "body" /\ was >= 0 =>
       hasExpiry /\ was <= expiresAt /\ was <= since + Half - 1
  /\ place = "seconds" /\ was >= 0 =>
       /\ seconds * Second < Half
       /\ since + seconds * Second + 2 * Second > was

\* All of it.
LInv ==
  /\ DeviceTypeOK /\ StaysHome /\ TimeInv /\ IntervalInv /\ KeepsInterval
  /\ ExpiryTypeOK /\ PlaceInv /\ SlipInv /\ KnownInv /\ TakeoverKeepsExpiry

=============================================================================
