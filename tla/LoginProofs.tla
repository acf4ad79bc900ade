---------------------------- MODULE LoginProofs ----------------------------
(***************************************************************************)
(* The theorems about the device login and the expiry it begins, for every *)
(* unit of time, width of integers, delay and cap.                         *)
(***************************************************************************)
EXTENDS LoginInv, SequenceTheorems, TLAPS

-----------------------------------------------------------------------------
(***************************************************************************)
(* Arithmetic.                                                             *)
(***************************************************************************)

\* The remainder of a division by a positive number.
LEMMA Remainder ==
  ASSUME NEW x \in Int, NEW d \in Nat \ {0}
  PROVE  x % d \in 0 .. d - 1
OBVIOUS

\* What \div rounds away is less than the divisor.
LEMMA Division ==
  ASSUME NEW x \in Int, NEW d \in Nat \ {0}
  PROVE  /\ x \div d \in Int
         /\ (x \div d) * d <= x
         /\ x < (x \div d) * d + d
OBVIOUS

\* Multiplication by a natural number is monotone.
LEMMA Monotone ==
  ASSUME NEW a \in Int, NEW b \in Int, a <= b, NEW d \in Nat
  PROVE  a * d <= b * d
OBVIOUS

\* Two bounds add up.
LEMMA AddBounds ==
  ASSUME NEW a \in Int, NEW b \in Int, NEW c \in Int, NEW d \in Nat,
         a <= b, b <= c + d
  PROVE  a <= c + d
OBVIOUS

\* A bound may be raised.
LEMMA RaiseBound ==
  ASSUME NEW a \in Int, NEW b \in Int, NEW d \in Nat, a <= b
  PROVE  a <= b + d
OBVIOUS

\* A product of integers.
LEMMA Product ==
  ASSUME NEW a \in Int, NEW d \in Int
  PROVE  a * d \in Int
OBVIOUS

\* Wrapping a non-negative number never makes it larger.
LEMMA WrapLow ==
  ASSUME NEW n \in Nat
  PROVE  Wrap(n) \in Int /\ Wrap(n) <= n
BY DeviceAssumption DEF Wrap

\* A number that fits is not wrapped.
LEMMA WrapFits ==
  ASSUME NEW n \in Nat, n < Half
  PROVE  Wrap(n) = n
BY DeviceAssumption DEF Wrap

-----------------------------------------------------------------------------
(***************************************************************************)
(* URLs.                                                                   *)
(***************************************************************************)

\* The labels that strings.ToLower takes to x and ai.
LEMMA Lowered ==
  ASSUME NEW l
  PROVE  /\ ToLower(l) = "x" => l \in SpelledX
         /\ ToLower(l) = "ai" => l \in SpelledAi
BY DEF ToLower, SpelledX, SpelledAi

\* And it takes all of these there.
LEMMA Raised ==
  ASSUME NEW l
  PROVE  /\ l \in SpelledX => ToLower(l) = "x"
         /\ l \in SpelledAi => ToLower(l) = "ai"
BY DEF ToLower, SpelledX, SpelledAi

\* Taking the root label off leaves the other labels.
LEMMA Trimmed ==
  ASSUME NEW S, NEW host \in Seq(S)
  PROVE  LET h == TrimRoot(host)
         IN  /\ Len(h) \in Nat /\ Len(host) \in Nat
             /\ Len(h) <= Len(host) /\ Len(host) <= Len(h) + 1
             /\ \A i \in 1 .. Len(h) : h[i] = host[i]
             /\ Len(host) # Len(h) => host[Len(host)] = Empty
<1>0. Len(host) \in Nat
  BY LenProperties
<1>1. CASE Len(host) > 1 /\ host[Len(host)] = Empty
  <2> DEFINE l == Len(host)
             t == SubSeq(host, 1, l - 1)
  <2>1. TrimRoot(host) = t
    BY <1>1 DEF TrimRoot
  <2>2. /\ Len(t) = l - 1
        /\ \A i \in 1 .. l - 1 : t[i] = host[i]
    BY <1>0, <1>1
  <2> QED BY <1>0, <1>1, <2>1, <2>2
<1>2. CASE ~(Len(host) > 1 /\ host[Len(host)] = Empty)
  <2>1. TrimRoot(host) = host
    BY <1>2 DEF TrimRoot
  <2> QED BY <1>0, <2>1
<1> QED BY <1>1, <1>2

\* Labels that are those of a trimmed name spell a name in the zone.
LEMMA Spelled ==
  ASSUME NEW host, NEW h, NEW n \in Nat, NEW l \in Nat, l = Len(host),
         n <= l, l <= n + 1, n >= 2,
         \A i \in 1 .. n : h[i] = host[i],
         \A i \in 1 .. n : h[i] # Empty,
         l # n => host[l] = Empty,
         ToLower(h[n - 1]) = "x", ToLower(h[n]) = "ai"
  PROVE  InZone(host)
<1>1. \A i \in 1 .. l : host[i] = Empty <=> i > n
  OBVIOUS
<1>2. h[n - 1] = host[n - 1] /\ h[n] = host[n]
  OBVIOUS
<1>3. host[n - 1] \in SpelledX /\ host[n] \in SpelledAi
  BY <1>2, Lowered
<1>4. n \in 2 .. l
  OBVIOUS
<1> QED BY <1>1, <1>3, <1>4 DEF InZone

\* A host that IsXAIHost accepts lies in the zone x.ai.
LEMMA XAIHostInZone ==
  ASSUME NEW host \in Seq(STRING), IsXAIHost(host)
  PROVE  InZone(host)
<1>1. PICK h : h = TrimRoot(host)
  OBVIOUS
<1>2. PICK n : n = Len(h)
  OBVIOUS
<1>3. /\ n \in Nat /\ Len(host) \in Nat
      /\ n <= Len(host) /\ Len(host) <= n + 1
      /\ \A i \in 1 .. n : h[i] = host[i]
      /\ Len(host) # n => host[Len(host)] = Empty
  BY <1>1, <1>2, Trimmed
<1>4. /\ n >= 2
      /\ \A i \in 1 .. n : h[i] # Empty
      /\ ToLower(h[n - 1]) = "x" /\ ToLower(h[n]) = "ai"
  BY <1>1, <1>2 DEF IsXAIHost
<1> QED BY <1>3, <1>4, Spelled

\* A name in the zone has the labels that IsXAIHost looks for.
LEMMA InZoneIsXAIHost ==
  ASSUME NEW host \in Seq(STRING), InZone(host)
  PROVE  IsXAIHost(host)
<1>1. PICK n \in 2 .. Len(host) :
        /\ \A i \in 1 .. Len(host) : host[i] = Empty <=> i > n
        /\ Len(host) <= n + 1
        /\ host[n - 1] \in SpelledX /\ host[n] \in SpelledAi
  BY DEF InZone
<1>2. Len(host) \in Nat
  BY LenProperties
<1>3. n \in Nat /\ n >= 2 /\ n <= Len(host)
  BY <1>1, <1>2
<1>4. PICK h : h = TrimRoot(host)
  OBVIOUS
<1>5. PICK m : m = Len(h)
  OBVIOUS
<1>6. /\ m \in Nat /\ m <= Len(host)
      /\ \A i \in 1 .. m : h[i] = host[i]
  BY <1>4, <1>5, Trimmed
<1>7. m = n
  <2>1. CASE Len(host) = n
    <3>1. host[Len(host)] # Empty
      BY <1>1, <1>3, <2>1
    <3>2. h = host
      BY <1>4, <3>1 DEF TrimRoot
    <3> QED BY <1>5, <2>1, <3>2
  <2>2. CASE Len(host) = n + 1
    <3>1. host[Len(host)] = Empty /\ Len(host) > 1
      BY <1>1, <1>2, <1>3, <2>2
    <3>2. h = SubSeq(host, 1, Len(host) - 1)
      BY <1>4, <3>1 DEF TrimRoot
    <3> QED BY <1>2, <1>3, <1>5, <2>2, <3>1, <3>2
  <2> QED BY <1>1, <1>2, <1>3, <2>1, <2>2
<1>8. \A i \in 1 .. m : h[i] # Empty
  BY <1>1, <1>2, <1>3, <1>6, <1>7
<1>9. h[m - 1] = host[n - 1] /\ h[m] = host[n]
  BY <1>3, <1>6, <1>7
<1>10. ToLower(h[m - 1]) = "x" /\ ToLower(h[m]) = "ai"
  BY <1>1, <1>9, Raised
<1> QED BY <1>3, <1>4, <1>5, <1>7, <1>8, <1>10 DEF IsXAIHost

\* For every name of ASCII labels, IsXAIHost answers whether it resolves in the
\* zone x.ai: no other name is accepted, and no name of the zone refused, in any
\* case of the letters and with or without the root's dot.
THEOREM XAIHostIsZone == \A host \in Seq(STRING) : IsXAIHost(host) <=> InZone(host)
BY XAIHostInZone, InZoneIsXAIHost

\* The host of a URL that ValidateXAIURL accepts lies there.
LEMMA ValidIsHome ==
  ASSUME NEW u \in URLs \cup {NoURL}, ValidateXAIURL(u)
  PROVE  u \in URLs /\ u.scheme = "https" /\ InZone(u.host)
<1>1. u # NoURL
  BY DEF ValidateXAIURL, NoURL
<1>2. u.host \in Seq(STRING)
  BY <1>1, DeviceAssumption
<1> QED BY <1>1, <1>2, XAIHostInZone DEF ValidateXAIURL

\* ValidateVerificationURI accepts the same URLs.
LEMMA SameURLs == \A u : ValidateVerificationURI(u) <=> ValidateXAIURL(u)
  BY DEF ValidateVerificationURI, ValidateXAIURL

\* The endpoints that the program itself names are in the zone.
LEMMA DiscoveryIsHome == DiscoveryURL.scheme = "https" /\ InZone(DiscoveryURL.host)
<1>1. /\ DiscoveryURL.host = <<"auth", "x", "ai">>
      /\ DiscoveryURL.scheme = "https"
  BY DEF DiscoveryURL
<1> DEFINE host == <<"auth", "x", "ai">>
<1>2. Len(host) = 3 /\ host[1] = "auth" /\ host[2] = "x" /\ host[3] = "ai"
  OBVIOUS
<1> HIDE DEF host
<1>3. \A i \in 1 .. 3 : host[i] # Empty
  <2> TAKE i \in 1 .. 3
  <2>1. i = 1 \/ i = 2 \/ i = 3
    OBVIOUS
  <2>2. "auth" # Empty /\ "x" # Empty /\ "ai" # Empty
    BY Zenon DEF Empty
  <2> QED BY <1>2, <2>1, <2>2
<1>4. host[3 - 1] = "x"
  BY <1>2
<1>5. InZone(host)
  BY <1>2, <1>3, <1>4 DEF InZone, SpelledX, SpelledAi
<1> QED BY <1>1, <1>5 DEF host

-----------------------------------------------------------------------------
(***************************************************************************)
(* The device login.                                                       *)
(***************************************************************************)

\* The part of the invariant about the login.
DInv == DeviceTypeOK /\ StaysHome /\ TimeInv /\ IntervalInv /\ KeepsInterval

Results == {"ok", "transient", "reauth", "canceled", "device_timeout"}

\* The smaller of two integers.
LEMMA LeastFact ==
  ASSUME NEW a \in Int, NEW b \in Int
  PROVE  Least(a, b) \in Int /\ Least(a, b) <= a /\ Least(a, b) <= b
BY DEF Least

\* clampPollInterval is the least of the number and the cap, for a positive one.
LEMMA ClampFact ==
  ASSUME NEW n \in Int, n > 0
  PROVE  /\ ClampPollInterval(n) = Least(n, MaxDevicePollInterval)
         /\ ClampPollInterval(n) \in 1 .. MaxDevicePollInterval
BY DeviceAssumption DEF ClampPollInterval, Least

\* The window is never longer than the cap, overflow or not.
LEMMA WindowFact ==
  ASSUME NEW n \in Int, n > 0
  PROVE  DeviceAuthWindow(n) \in Int /\ DeviceAuthWindow(n) <= MaxDeviceAuthWindow
<1>1. n * Second \in Nat
  BY Product, Monotone, DeviceAssumption
<1>2. PICK w : w = Wrap(n * Second)
  OBVIOUS
<1>3. w \in Int
  BY <1>1, <1>2, WrapLow
<1>4. DeviceAuthWindow(n) = Least(w, MaxDeviceAuthWindow)
  BY <1>2 DEF DeviceAuthWindow
<1> QED BY <1>3, <1>4, LeastFact, DeviceAssumption

\* A sleep ends in time.
LEMMA SleepFact ==
  ASSUME NEW n \in 0 .. MaxDevicePollInterval
  PROVE  /\ n * Second \in Nat /\ MaxDevicePollInterval * Second \in Nat
         /\ n * Second <= MaxDevicePollInterval * Second
<1>1. n * Second <= MaxDevicePollInterval * Second /\ 0 * Second <= n * Second
  BY Monotone, DeviceAssumption
<1>2. n * Second \in Int /\ MaxDevicePollInterval * Second \in Int
  BY Product, DeviceAssumption
<1> QED BY <1>1, <1>2, DeviceAssumption

\* NoURL is no URL that is used.
LEMMA NoReqFact ==
  /\ NoReq.url = NoURL /\ NoReq.via = 0
  /\ NoURL # DiscoveryURL
  /\ NoReq \in [url : URLs \cup {NoURL, DiscoveryURL}, via : 0 .. 5]
BY DEF NoReq, NoURL, DiscoveryURL

\* The invariant holds at the start.
LEMMA DInvInit == DeviceInit => DInv
<1> SUFFICES ASSUME DeviceInit PROVE DInv
  OBVIOUS
<1>1. DeviceTypeOK
  <2>1. /\ req.url = DiscoveryURL /\ req.via = 1
        /\ req \in [url : URLs \cup {NoURL, DiscoveryURL}, via : 0 .. 5]
    BY DEF DeviceInit
  <2>2. req # NoReq
    BY <2>1, NoReqFact
  <2> QED BY <2>1, <2>2, DeviceAssumption DEF DeviceInit, DeviceTypeOK, Waiting
<1>2. StaysHome
  BY DiscoveryIsHome DEF DeviceInit, StaysHome
<1>3. TimeInv /\ IntervalInv /\ KeepsInterval
  BY DeviceAssumption DEF DeviceInit, TimeInv, IntervalInv, KeepsInterval, Waiting, InPoll
<1> QED BY <1>1, <1>2, <1>3 DEF DInv

\* Returning keeps it.
LEMMA DInvReturn ==
  ASSUME DInv, NEW r \in Results, ReturnWith(r)
  PROVE  DInv'
<1>1. DeviceTypeOK'
  BY NoReqFact, DeviceAssumption DEF DInv, DeviceTypeOK, ReturnWith, Results, Waiting
<1>2. StaysHome'
  BY NoReqFact DEF ReturnWith, StaysHome
<1>3. TimeInv' /\ IntervalInv' /\ KeepsInterval'
  BY DEF ReturnWith, TimeInv, IntervalInv, KeepsInterval, Waiting, InPoll
<1> QED BY <1>1, <1>2, <1>3 DEF DInv

\* Steps that leave the login alone keep it.
LEMMA DInvStutter ==
  ASSUME DInv, UNCHANGED deviceVars
  PROVE  DInv'
BY DEF DInv, DeviceTypeOK, StaysHome, TimeInv, IntervalInv, KeepsInterval, deviceVars,
       pollVars

\* A redirect is followed within the zone, five requests at most.
LEMMA DInvRedirected ==
  ASSUME DInv, Redirected
  PROVE  DInv'
<1>1. PICK u \in URLs :
        \/ /\ CheckIDPRedirect(u, req.via)
           /\ req' = [url |-> u, via |-> req.via + 1]
           /\ UNCHANGED <<now, pc, due, pollVars, outcome>>
        \/ ReturnWith("transient")
  BY DEF Redirected
<1>2. CASE ReturnWith("transient")
  BY <1>2, DInvReturn DEF Results
<1>3. CASE /\ CheckIDPRedirect(u, req.via)
           /\ req' = [url |-> u, via |-> req.via + 1]
           /\ UNCHANGED <<now, pc, due, pollVars, outcome>>
  <2>1. ValidateXAIURL(u) /\ req.via < 5
    BY <1>3 DEF CheckIDPRedirect
  <2>2. u.scheme = "https" /\ InZone(u.host)
    BY <2>1, ValidIsHome
  <2>3. req.via \in 0 .. 5
    BY DEF DInv, DeviceTypeOK
  <2>4. /\ req' \in [url : URLs \cup {NoURL, DiscoveryURL}, via : 0 .. 5]
        /\ req'.url = u /\ req'.via # 0
    BY <1>3, <2>1, <2>3
  <2>5. req' # NoReq
    BY <2>4, NoReqFact
  <2>6. pc \in {"discover", "code", "ask"}
    BY DEF DInv, DeviceTypeOK, Redirected
  <2>7. DeviceTypeOK'
    BY <1>3, <2>4, <2>5, <2>6 DEF DInv, DeviceTypeOK, pollVars
  <2>8. StaysHome'
    BY <1>3, <2>2, <2>4 DEF DInv, StaysHome, pollVars
  <2>9. TimeInv' /\ IntervalInv' /\ KeepsInterval'
    BY <1>3 DEF DInv, TimeInv, IntervalInv, KeepsInterval, pollVars
  <2> QED BY <2>7, <2>8, <2>9 DEF DInv
<1> QED BY <1>1, <1>2, <1>3

\* What is sent goes to its URL.
LEMMA SendFact ==
  ASSUME NEW u \in URLs \cup {NoURL, DiscoveryURL}, Send(u)
  PROVE  /\ req' \in [url : URLs \cup {NoURL, DiscoveryURL}, via : 0 .. 5]
         /\ req'.url = u /\ req' # NoReq
<1>1. /\ req' \in [url : URLs \cup {NoURL, DiscoveryURL}, via : 0 .. 5]
      /\ req'.url = u /\ req'.via = 1
  BY DEF Send
<1> QED BY <1>1, NoReqFact

\* Discovery names endpoints in the zone.
LEMMA DInvDiscovered ==
  ASSUME DInv, Discovered
  PROVE  DInv'
<1>1. PICK ep \in URLs \cup {NoURL} :
        \/ /\ ValidateXAIURL(ep)
           /\ pc' = "code" /\ endpoint' = ep /\ Send(DeviceCodeURL)
           /\ UNCHANGED <<now, verify, expiresIn, asked, start, deadline,
                          interval, slow, answered, outcome>>
        \/ ReturnWith("transient")
  BY DEF Discovered
<1>2. CASE ReturnWith("transient")
  BY <1>2, DInvReturn DEF Results
<1>3. CASE /\ ValidateXAIURL(ep)
           /\ pc' = "code" /\ endpoint' = ep /\ Send(DeviceCodeURL)
           /\ UNCHANGED <<now, verify, expiresIn, asked, start, deadline,
                          interval, slow, answered, outcome>>
  <2>1. ep \in URLs /\ ep.scheme = "https" /\ InZone(ep.host)
    BY <1>3, ValidIsHome
  <2>2. /\ req' \in [url : URLs \cup {NoURL, DiscoveryURL}, via : 0 .. 5]
        /\ req'.url = DiscoveryURL /\ req' # NoReq
    BY <1>3, SendFact DEF DeviceCodeURL
  <2>3. due' \in Nat /\ now <= due'
    BY <1>3, DeviceAssumption DEF Send, DInv, DeviceTypeOK
  <2>4. pc = "discover"
    BY DEF Discovered
  <2>5. DeviceTypeOK'
    BY <1>3, <2>1, <2>2, <2>3, <2>4 DEF DInv, DeviceTypeOK, Waiting
  <2>6. StaysHome'
    BY <1>3, <2>1, <2>2, DiscoveryIsHome DEF DInv, StaysHome
  <2>7. TimeInv' /\ IntervalInv' /\ KeepsInterval'
    BY <1>3, <2>3, <2>4 DEF DInv, TimeInv, IntervalInv, KeepsInterval, Waiting, InPoll
  <2> QED BY <2>5, <2>6, <2>7 DEF DInv
<1> QED BY <1>1, <1>2, <1>3

\* The device code sets the window and the interval.
LEMMA DInvCodeReceived ==
  ASSUME DInv, CodeReceived
  PROVE  DInv'
<1>1. PICK uri \in URLs \cup {NoURL}, complete \in URLs \cup {NoURL},
           expires \in Numbers, every \in Numbers :
        /\ DeviceCodeOK(uri, complete, expires, every)
        /\ verify' = IF complete = NoURL THEN uri ELSE complete
        /\ expiresIn' = expires /\ asked' = every /\ start' = now
        /\ deadline' = now + DeviceAuthWindow(expires)
        /\ interval' = ClampPollInterval(every)
  BY DEF CodeReceived
<1>2. /\ pc = "code" /\ pc' = "poll" /\ req' = NoReq /\ due' = 0
      /\ UNCHANGED <<now, endpoint, slow, answered, outcome>>
  BY DEF CodeReceived
<1>3. expires \in Int /\ expires > 0 /\ every \in Int /\ every > 0
  BY <1>1, DeviceAssumption DEF DeviceCodeOK
<1>4. verify' \in URLs /\ verify'.scheme = "https" /\ InZone(verify'.host)
  BY <1>1, ValidIsHome, SameURLs DEF DeviceCodeOK
<1>5. DeviceAuthWindow(expires) \in Int /\ DeviceAuthWindow(expires) <= MaxDeviceAuthWindow
  BY <1>3, WindowFact
<1>6. /\ interval' = Least(every, MaxDevicePollInterval)
      /\ interval' \in 1 .. MaxDevicePollInterval
  BY <1>1, <1>3, ClampFact
<1>7. now \in Nat
  BY DEF DInv, DeviceTypeOK
<1>8. DeviceTypeOK'
  BY <1>1, <1>2, <1>3, <1>4, <1>5, <1>6, <1>7, NoReqFact, DeviceAssumption
     DEF DInv, DeviceTypeOK, Waiting
<1>9. StaysHome'
  BY <1>2, <1>4, NoReqFact DEF DInv, StaysHome
<1>10. slow = 0 /\ answered = -1
  BY <1>2 DEF DInv, IntervalInv
<1>11. TimeInv'
  <2>1. MaxDevicePollInterval * Second \in Nat
    BY SleepFact, DeviceAssumption
  <2> QED BY <1>1, <1>2, <1>5, <1>7, <2>1, DeviceAssumption
          DEF TimeInv, Waiting, InPoll, PollLimit
<1>12. IntervalInv' /\ KeepsInterval'
  <2>1. every + 0 = every
    BY <1>3
  <2> QED BY <1>1, <1>2, <1>3, <1>6, <1>10, <2>1 DEF IntervalInv, KeepsInterval, InPoll
<1> QED BY <1>8, <1>9, <1>11, <1>12 DEF DInv

\* A poll goes to the endpoint that discovery checked.
LEMMA DInvPollSend ==
  ASSUME DInv, PollSend
  PROVE  DInv'
<1>1. /\ pc = "poll" /\ now < deadline /\ pc' = "ask" /\ Send(endpoint)
      /\ UNCHANGED <<now, endpoint, verify, expiresIn, asked, start, deadline,
                     interval, slow, answered, outcome>>
  BY DEF PollSend, pollVars
<1>2. /\ req' \in [url : URLs \cup {NoURL, DiscoveryURL}, via : 0 .. 5]
      /\ req'.url = endpoint /\ req' # NoReq
  BY <1>1, SendFact DEF DInv, DeviceTypeOK
<1>3. due' \in Nat /\ now \in Nat /\ start \in Nat /\ deadline \in Int
      /\ due' = now + IDPRequestTimeout
  BY <1>1, DeviceAssumption DEF Send, DInv, DeviceTypeOK
<1>4. DeviceTypeOK'
  BY <1>1, <1>2, <1>3 DEF DInv, DeviceTypeOK, Waiting
<1>5. StaysHome'
  BY <1>1, <1>2 DEF DInv, StaysHome
<1>6. TimeInv'
  BY <1>1, <1>3, DeviceAssumption DEF DInv, TimeInv, Waiting, InPoll
<1>7. IntervalInv' /\ KeepsInterval'
  BY <1>1 DEF DInv, IntervalInv, KeepsInterval, InPoll
<1> QED BY <1>4, <1>5, <1>6, <1>7 DEF DInv

\* A sleep of a whole interval starts.
LEMMA DInvSleep ==
  ASSUME DInv, pc = "ask", NEW n \in 1 .. MaxDevicePollInterval,
         interval' = n, SleepFor(n), slow' \in Nat,
         n = Least(asked + slow', MaxDevicePollInterval),
         UNCHANGED <<now, endpoint, verify, expiresIn, asked, start, deadline, outcome>>
  PROVE  DInv'
<1>1. /\ pc' = "sleep" /\ req' = NoReq
      /\ due' = now + n * Second /\ answered' = now
  BY DEF SleepFor
<1>2. /\ n * Second \in Nat /\ MaxDevicePollInterval * Second \in Nat
      /\ n * Second <= MaxDevicePollInterval * Second
  BY SleepFact
<1>3. /\ now \in Nat /\ due \in Nat /\ start \in Nat
      /\ now <= due /\ due <= start + MaxDeviceAuthWindow + IDPRequestTimeout
  BY DEF DInv, DeviceTypeOK, TimeInv, Waiting
<1>4. due' \in Nat
  BY <1>1, <1>2, <1>3
<1>5. DeviceTypeOK'
  BY <1>1, <1>3, <1>4, NoReqFact DEF DInv, DeviceTypeOK, Waiting
<1>6. StaysHome'
  BY <1>1, NoReqFact DEF DInv, StaysHome
<1>7. TimeInv'
  <2>1. due' <= start + PollLimit /\ now <= due'
    BY <1>1, <1>2, <1>3, DeviceAssumption DEF PollLimit
  <2>2. deadline <= start + MaxDeviceAuthWindow
    BY DEF DInv, TimeInv, InPoll
  <2> QED BY <1>1, <2>1, <2>2 DEF TimeInv
<1>8. asked > 0
  BY DEF DInv, IntervalInv, InPoll
<1>9. IntervalInv'
  BY <1>1, <1>3, <1>8 DEF IntervalInv
<1>10. KeepsInterval'
  BY <1>1 DEF KeepsInterval
<1> QED BY <1>5, <1>6, <1>7, <1>9, <1>10 DEF DInv

\* A sleep after a pending answer.
LEMMA DInvPending ==
  ASSUME DInv, AuthorizationPending
  PROVE  DInv'
<1>1. /\ pc = "ask" /\ SleepFor(interval)
      /\ UNCHANGED <<now, endpoint, verify, expiresIn, asked, start, deadline,
                     interval, slow, outcome>>
  BY DEF AuthorizationPending
<1>2. /\ interval = Least(asked + slow, MaxDevicePollInterval)
      /\ asked > 0 /\ asked \in Int /\ slow \in Nat /\ interval \in 0 .. MaxDevicePollInterval
  BY <1>1, DeviceAssumption DEF DInv, IntervalInv, InPoll, DeviceTypeOK
<1>3. interval \in 1 .. MaxDevicePollInterval
  BY <1>2, DeviceAssumption DEF Least
<1>4. interval' = Least(asked + slow', MaxDevicePollInterval) /\ slow' \in Nat
  BY <1>1, <1>2
<1> QED BY <1>1, <1>3, <1>4, DInvSleep

\* And one after slow_down.
LEMMA DInvSlowDown ==
  ASSUME DInv, SlowDown
  PROVE  DInv'
<1>1. /\ pc = "ask" /\ interval' = ClampPollInterval(interval + 1) /\ slow' = slow + 1
      /\ SleepFor(interval')
      /\ UNCHANGED <<now, endpoint, verify, expiresIn, asked, start, deadline, outcome>>
  BY DEF SlowDown
<1>2. /\ interval = Least(asked + slow, MaxDevicePollInterval)
      /\ asked > 0 /\ asked \in Int /\ slow \in Nat /\ interval \in 0 .. MaxDevicePollInterval
  BY <1>1, DeviceAssumption DEF DInv, IntervalInv, InPoll, DeviceTypeOK
<1>3. /\ ClampPollInterval(interval + 1) = Least(interval + 1, MaxDevicePollInterval)
      /\ interval' \in 1 .. MaxDevicePollInterval
  BY <1>1, <1>2, ClampFact
<1>4. interval' = Least(asked + slow', MaxDevicePollInterval) /\ slow' \in Nat
  BY <1>1, <1>2, <1>3, DeviceAssumption DEF Least
<1> QED BY <1>1, <1>3, <1>4, DInvSleep

\* The sleep was as long as it had to be.
LEMMA DInvWake ==
  ASSUME DInv, Wake
  PROVE  DInv'
<1>1. /\ pc = "sleep" /\ now = due /\ pc' = "poll" /\ due' = 0
      /\ UNCHANGED <<now, req, endpoint, verify, expiresIn, asked, start, deadline,
                     interval, slow, answered, outcome>>
  BY DEF Wake, pollVars
<1>2. DeviceTypeOK'
  BY <1>1 DEF DInv, DeviceTypeOK
<1>3. StaysHome'
  BY <1>1 DEF DInv, StaysHome
<1>4. TimeInv'
  BY <1>1 DEF DInv, TimeInv, Waiting, InPoll
<1>5. /\ interval = Least(asked + slow, MaxDevicePollInterval)
      /\ asked > 0 /\ due = answered + interval * Second
  BY <1>1 DEF DInv, IntervalInv, InPoll
<1>6. IntervalInv'
  BY <1>1, <1>5 DEF IntervalInv
<1>7. KeepsInterval'
  <2>1. now = answered + interval * Second /\ now \in Nat
    BY <1>1, <1>5 DEF DInv, DeviceTypeOK
  <2> QED BY <1>1, <1>5, <2>1 DEF KeepsInterval
<1> QED BY <1>2, <1>3, <1>4, <1>6, <1>7 DEF DInv

\* The clock stops at the moment that is waited for.
LEMMA DInvTick ==
  ASSUME DInv, Tick
  PROVE  DInv'
<1>1. /\ pc \in Waiting /\ now < due /\ now' = now + 1
      /\ UNCHANGED <<pc, req, due, endpoint, verify, expiresIn, asked, start,
                     deadline, interval, slow, answered, outcome>>
  BY DEF Tick, pollVars
<1>2. DeviceTypeOK'
  BY <1>1 DEF DInv, DeviceTypeOK
<1>3. StaysHome'
  BY <1>1 DEF DInv, StaysHome
<1>4. TimeInv'
  BY <1>1 DEF DInv, TimeInv, Waiting, InPoll, DeviceTypeOK
<1>5. IntervalInv'
  BY <1>1 DEF DInv, IntervalInv
<1>6. KeepsInterval'
  BY <1>1 DEF KeepsInterval, Waiting
<1> QED BY <1>2, <1>3, <1>4, <1>5, <1>6 DEF DInv

\* Every step of the login keeps the invariant.
LEMMA DInvStep ==
  ASSUME DInv, DeviceNext \/ Granted
  PROVE  DInv'
<1>1. ASSUME NEW r \in Results, ReturnWith(r) PROVE DInv'
  BY <1>1, DInvReturn
<1>2. CASE RequestTimesOut \/ PollTimesOut \/ RequestFails \/ CodeRefused \/ Denied
           \/ Cancelled \/ Granted
  BY <1>1, <1>2 DEF Results, RequestTimesOut, PollTimesOut, RequestFails, CodeRefused,
                   Denied, Cancelled, Granted
<1> QED BY <1>2, DInvRedirected, DInvDiscovered, DInvCodeReceived, DInvPollSend,
          DInvPending, DInvSlowDown, DInvWake, DInvTick DEF DeviceNext, DeviceStep


-----------------------------------------------------------------------------
(***************************************************************************)
(* The expiry.                                                             *)
(***************************************************************************)

\* The part of the invariant about the credential.
EInv == ExpiryTypeOK /\ PlaceInv /\ SlipInv /\ KnownInv /\ TakeoverKeepsExpiry

\* A number of seconds as a duration.
LEMMA SecondsFact ==
  ASSUME NEW n \in Nat
  PROVE  n * Second \in Nat /\ (n > 0 => n * Second >= Second)
<1>1. n * Second \in Int /\ 0 * Second <= n * Second /\ (n > 0 => 1 * Second <= n * Second)
  BY Product, Monotone, DeviceAssumption
<1> QED BY <1>1, DeviceAssumption

\* The claim of a JWT is at most one second early, and never late.
LEMMA ClaimFact ==
  ASSUME trueEnd' \in Int, jwt' \in BOOLEAN
  PROVE  /\ JWTExp' \in Int /\ JWTExp' * Second \in Int
         /\ JWTExp' > 0 => JWTExp' * Second <= trueEnd' /\ trueEnd' < JWTExp' * Second + Second
<1>1. /\ trueEnd' \div Second \in Int
      /\ (trueEnd' \div Second) * Second <= trueEnd'
      /\ trueEnd' < (trueEnd' \div Second) * Second + Second
  BY Division, DeviceAssumption
<1>2. JWTExp' = trueEnd' \div Second \/ JWTExp' = 0
  BY DEF JWTExp
<1>3. JWTExp' \in Int
  BY <1>1, <1>2
<1>4. JWTExp' * Second \in Int
  BY <1>3, Product, DeviceAssumption
<1> QED BY <1>1, <1>2, <1>3, <1>4

\* An instant computed from a number of seconds or from the claim.
LEMMA ExpiresFact ==
  ASSUME NEW n \in Nat, ExpiresAtFromToken(n),
         now \in Nat, trueEnd' \in Int, jwt' \in BOOLEAN
  PROVE  /\ expiresAt' \in Int /\ hasExpiry' \in BOOLEAN
         /\ n > 0 => /\ hasExpiry' /\ expiresAt' <= now + n * Second
                     /\ n * Second < Half => expiresAt' = now + n * Second
         /\ n = 0 /\ hasExpiry' => expiresAt' <= trueEnd' /\ trueEnd' < expiresAt' + Second
<1>1. n * Second \in Nat
  BY SecondsFact
<1>2. /\ Wrap(n * Second) \in Int /\ Wrap(n * Second) <= n * Second
      /\ n * Second < Half => Wrap(n * Second) = n * Second
  BY <1>1, WrapLow, WrapFits
<1>3. /\ JWTExp' \in Int /\ JWTExp' * Second \in Int
      /\ JWTExp' > 0 => JWTExp' * Second <= trueEnd' /\ trueEnd' < JWTExp' * Second + Second
  BY ClaimFact
<1>4. PICK w, c : w = Wrap(n * Second) /\ c = JWTExp'
  OBVIOUS
<1>5. /\ hasExpiry' \in BOOLEAN
      /\ hasExpiry' <=> (n > 0 \/ c > 0)
  BY <1>4, Zenon DEF ExpiresAtFromToken
<1>6. expiresAt' = IF n > 0 THEN now + w ELSE c * Second
  BY <1>4 DEF ExpiresAtFromToken
<1>7. CASE n > 0
  BY <1>1, <1>2, <1>4, <1>5, <1>6, <1>7
<1>8. CASE n = 0
  <2>1. c \in Int /\ c * Second \in Int
    BY <1>3, <1>4
  <2>2. c > 0 => c * Second <= trueEnd' /\ trueEnd' < c * Second + Second
    BY <1>3, <1>4
  <2>3. expiresAt' = c * Second
    BY <1>6, <1>8
  <2> QED BY <1>5, <1>8, <2>1, <2>2, <2>3
<1> QED BY <1>7, <1>8

\* The invariant holds at the start.
LEMMA EInvInit == Init => EInv
<1> SUFFICES ASSUME Init PROVE EInv
  OBVIOUS
<1>1. ExpiryTypeOK
  <2>1. hasExpiry \in BOOLEAN /\ jwt \in BOOLEAN
    BY Zenon DEF Init
  <2> QED BY <2>1 DEF Init, DeviceInit, ExpiryTypeOK
<1>2. PlaceInv /\ SlipInv /\ KnownInv /\ TakeoverKeepsExpiry
  BY DEF Init, PlaceInv, SlipInv, KnownInv, TakeoverKeepsExpiry
<1> QED BY <1>1, <1>2 DEF EInv

\* The login is over once it has returned.
LEMMA DoneIsDone ==
  ASSUME DInv, DeviceNext \/ Granted
  PROVE  pc # "done" /\ now' \in Nat /\ now <= now'
<1>1. pc # "done"
  BY DEF DInv, DeviceTypeOK, DeviceNext, DeviceStep, RequestTimesOut, PollSend, PollTimesOut,
         Wake, Tick, Redirected, RequestFails, Discovered, CodeReceived, CodeRefused,
         AuthorizationPending, SlowDown, Denied, Cancelled, Granted, Waiting
<1>2. now \in Nat
  BY DEF DInv, DeviceTypeOK
<1>3. now' = now \/ now' = now + 1
  BY DEF DeviceNext, DeviceStep, RequestTimesOut, PollSend, PollTimesOut,
         Wake, Tick, Redirected, RequestFails, Discovered, CodeReceived, CodeRefused,
         AuthorizationPending, SlowDown, Denied, Cancelled, Granted, ReturnWith
<1> QED BY <1>1, <1>2, <1>3

\* While the login runs there is no credential.
LEMMA EInvDevice ==
  ASSUME DInv, EInv, DeviceNext, UNCHANGED expiryVars
  PROVE  EInv'
<1>1. pc # "done" /\ now' \in Nat /\ now <= now' /\ now \in Nat
  BY DoneIsDone DEF DInv, DeviceTypeOK
<1>2. place = "none" /\ place' = "none"
  BY <1>1 DEF EInv, PlaceInv, expiryVars
<1>3. ExpiryTypeOK'
  BY <1>1 DEF EInv, ExpiryTypeOK, expiryVars
<1>4. PlaceInv' /\ SlipInv' /\ KnownInv' /\ TakeoverKeepsExpiry'
  BY <1>2 DEF PlaceInv, SlipInv, KnownInv, TakeoverKeepsExpiry
<1> QED BY <1>3, <1>4 DEF EInv

\* What the IdP tells of a new token is late by the way of the answer at most.
LEMMA IssueFact ==
  ASSUME NEW life \in Numbers, life > 0, NEW told \in BOOLEAN, Issue(life, told), now \in Nat
  PROVE  /\ trueEnd' \in Int /\ jwt' \in BOOLEAN /\ seconds' \in Nat
         /\ seconds' > 0 => now + seconds' * Second <= trueEnd' + MaxDelay
<1>1. life \in Nat
  BY DeviceAssumption
<1>2. life * Second \in Nat
  BY <1>1, SecondsFact
<1>3. PICK lag \in 0 .. MaxDelay : trueEnd' = now - lag + life * Second
  BY DEF Issue
<1>4. jwt' \in BOOLEAN
  BY DEF Issue
<1>5. seconds' = life \/ seconds' = 0
  BY DEF Issue
<1> QED BY <1>1, <1>2, <1>3, <1>4, <1>5, ExpiryAssumption

\* A login ends with a loginHandoff.
LEMMA EInvLogin ==
  ASSUME DInv, EInv, Login
  PROVE  EInv'
<1>1. PICK life \in Numbers, told \in BOOLEAN : life > 0 /\ Issue(life, told)
  BY DEF Login
<1>2. now \in Nat /\ now' = now /\ pc' = "done"
  BY DEF DInv, DeviceTypeOK, Login, Granted, ReturnWith
<1>3. /\ trueEnd' \in Int /\ jwt' \in BOOLEAN /\ seconds' \in Nat
      /\ seconds' > 0 => now + seconds' * Second <= trueEnd' + MaxDelay
  BY <1>1, <1>2, IssueFact
<1>4. /\ place' = "seconds" /\ since' = now /\ slip' = MaxDelay /\ was' = -1
      /\ UNCHANGED <<expiresAt, hasExpiry>>
  BY DEF Login
<1>5. ExpiryTypeOK'
  BY <1>2, <1>3, <1>4, ExpiryAssumption DEF EInv, ExpiryTypeOK
<1>6. PlaceInv' /\ SlipInv' /\ KnownInv' /\ TakeoverKeepsExpiry'
  BY <1>2, <1>3, <1>4, ExpiryAssumption DEF PlaceInv, SlipInv, KnownInv, TakeoverKeepsExpiry
<1> QED BY <1>5, <1>6 DEF EInv

\* NewFromLogin counts the seconds from a later moment than the one they were
\* counted to: the slip grows, and what a predecessor knew is kept.
LEMMA EInvNewFromLogin ==
  ASSUME DInv, EInv, NewFromLogin
  PROVE  EInv'
<1>1. /\ place = "seconds" /\ place' = "session" /\ since' = now /\ seconds' = 0
      /\ slip' = slip + MaxDelay /\ ExpiresAtFromToken(seconds)
      /\ UNCHANGED <<trueEnd, jwt, was>> /\ now' = now /\ pc' = pc
  BY DEF NewFromLogin, deviceVars
<1>2. /\ now \in Nat /\ since \in Nat /\ since <= now /\ now <= since + MaxDelay
      /\ seconds \in Nat /\ trueEnd \in Int /\ jwt \in BOOLEAN /\ slip \in Nat /\ was \in Int
  BY <1>1 DEF DInv, DeviceTypeOK, EInv, ExpiryTypeOK, PlaceInv
<1>3. /\ expiresAt' \in Int /\ hasExpiry' \in BOOLEAN
      /\ seconds > 0 => /\ hasExpiry' /\ expiresAt' <= now + seconds * Second
                        /\ seconds * Second < Half => expiresAt' = now + seconds * Second
      /\ seconds = 0 /\ hasExpiry' => expiresAt' <= trueEnd /\ trueEnd < expiresAt' + Second
  BY <1>1, <1>2, ExpiresFact
<1>4. seconds * Second \in Nat
  BY <1>2, SecondsFact
<1>5. ExpiryTypeOK'
  BY <1>1, <1>2, <1>3, ExpiryAssumption DEF ExpiryTypeOK
<1>6. pc = "done"
  BY <1>1 DEF EInv, PlaceInv
<1>7. PlaceInv' /\ KnownInv'
  BY <1>1, <1>6 DEF PlaceInv, KnownInv
<1>8. SlipInv'
  <2>1. seconds > 0 => since + seconds * Second <= trueEnd + slip
    BY <1>1 DEF EInv, SlipInv
  <2>2. hasExpiry' => expiresAt' <= trueEnd + slip + MaxDelay
    BY <1>2, <1>3, <1>4, <2>1, ExpiryAssumption
  <2> QED BY <1>1, <1>2, <2>2, ExpiryAssumption DEF SlipInv
<1>9. TakeoverKeepsExpiry'
  <2>1. was >= 0 => seconds * Second < Half /\ since + seconds * Second + 2 * Second > was
    BY <1>1 DEF EInv, KnownInv
  <2>2. Least(was, trueEnd) \in Int /\ Least(was, trueEnd) <= was /\ Least(was, trueEnd) <= trueEnd
    BY <1>2, LeastFact
  <2>3. ASSUME was >= 0, hasExpiry' PROVE expiresAt' + 2 * Second > Least(was, trueEnd)
    <3>1. CASE seconds > 0
      BY <1>2, <1>3, <1>4, <2>1, <2>2, <2>3, <3>1, DeviceAssumption
    <3>2. trueEnd < expiresAt' + Second => expiresAt' + 2 * Second > Least(was, trueEnd)
      <4>1. PICK m, e : m = Least(was, trueEnd) /\ e = expiresAt'
        OBVIOUS
      <4>2. m \in Int /\ m <= trueEnd /\ e \in Int
        BY <1>3, <2>2, <4>1
      <4>3. trueEnd < e + Second => e + 2 * Second > m
        BY <1>2, <4>2, DeviceAssumption
      <4> QED BY <4>1, <4>3
    <3>3. CASE seconds = 0
      BY <1>3, <2>3, <3>2, <3>3
    <3> QED BY <1>2, <3>1, <3>3
  <2>4. ASSUME was >= 0, ~hasExpiry' PROVE now + 2 * Second > was
    <3>1. seconds = 0
      BY <1>2, <1>3, <2>4
    <3>2. seconds * Second = 0
      BY <3>1, DeviceAssumption
    <3> QED BY <1>2, <2>1, <2>4, <3>2, DeviceAssumption
  <2> QED BY <1>1, <1>3, <2>3, <2>4 DEF TakeoverKeepsExpiry
<1> QED BY <1>5, <1>7, <1>8, <1>9 DEF EInv

\* A refresh begins with a new token, and a new slip.
LEMMA EInvRefresh ==
  ASSUME DInv, EInv, Refresh
  PROVE  EInv'
<1>1. PICK life \in Numbers, told \in BOOLEAN :
        life > 0 /\ Issue(life, told) /\ ExpiresAtFromToken(seconds')
  BY DEF Refresh
<1>2. /\ place' = "session" /\ since' = now /\ slip' = MaxDelay /\ was' = -1
      /\ now' = now /\ pc' = pc /\ place = "session"
  BY DEF Refresh, deviceVars
<1>3. now \in Nat
  BY DEF DInv, DeviceTypeOK
<1>4. /\ trueEnd' \in Int /\ jwt' \in BOOLEAN /\ seconds' \in Nat
      /\ seconds' > 0 => now + seconds' * Second <= trueEnd' + MaxDelay
  BY <1>1, <1>3, IssueFact
<1>5. /\ expiresAt' \in Int /\ hasExpiry' \in BOOLEAN
      /\ seconds' > 0 => expiresAt' <= now + seconds' * Second
      /\ seconds' = 0 /\ hasExpiry' => expiresAt' <= trueEnd'
  BY <1>1, <1>3, <1>4, ExpiresFact
<1>6. ExpiryTypeOK'
  BY <1>2, <1>3, <1>4, <1>5, ExpiryAssumption DEF ExpiryTypeOK
<1>7. seconds' * Second \in Nat
  BY <1>4, SecondsFact
<1>8. SlipInv'
  <2>0. expiresAt' \in Int /\ trueEnd' \in Int /\ now + seconds' * Second \in Int
    BY <1>3, <1>4, <1>5, <1>7
  <2>1. seconds' > 0 => expiresAt' <= trueEnd' + MaxDelay
    BY <1>4, <1>5, <2>0, AddBounds, ExpiryAssumption
  <2>2. expiresAt' <= trueEnd' => expiresAt' <= trueEnd' + MaxDelay
    BY <2>0, RaiseBound, ExpiryAssumption
  <2>3. seconds' > 0 \/ seconds' = 0
    BY <1>4
  <2>4. hasExpiry' => expiresAt' <= trueEnd' + MaxDelay
    BY <1>5, <2>1, <2>2, <2>3
  <2> QED BY <1>2, <2>4 DEF SlipInv
<1>9. PlaceInv' /\ KnownInv' /\ TakeoverKeepsExpiry'
  BY <1>2 DEF EInv, PlaceInv, KnownInv, TakeoverKeepsExpiry
<1> QED BY <1>6, <1>8, <1>9 DEF EInv

\* The snapshot is the session's.
LEMMA EInvHandoff ==
  ASSUME DInv, EInv, Handoff
  PROVE  EInv'
<1>1. /\ place = "session" /\ place' = "body" /\ since' = now
      /\ was' = IF hasExpiry THEN Least(expiresAt, now + Half - 1) ELSE -1
      /\ UNCHANGED <<seconds, expiresAt, hasExpiry, trueEnd, jwt, slip>>
      /\ now' = now /\ pc' = pc
  BY DEF Handoff, deviceVars
<1>2. now \in Nat /\ expiresAt \in Int
  BY DEF DInv, DeviceTypeOK, EInv, ExpiryTypeOK
<1>3. LET l == Least(expiresAt, now + Half - 1)
      IN  l \in Int /\ l <= expiresAt /\ l <= now + Half - 1
  BY <1>2, LeastFact, DeviceAssumption
<1>4. was' \in Int /\ (was' >= 0 => hasExpiry /\ was' <= expiresAt /\ was' <= now + Half - 1)
  BY <1>1, <1>3
<1>5. ExpiryTypeOK'
  BY <1>1, <1>2, <1>4 DEF EInv, ExpiryTypeOK
<1>6. PlaceInv'
  BY <1>1, <1>2, ExpiryAssumption DEF EInv, PlaceInv
<1>7. SlipInv'
  BY <1>1 DEF EInv, SlipInv
<1>8. KnownInv'
  BY <1>1, <1>4 DEF KnownInv
<1>9. TakeoverKeepsExpiry'
  BY <1>1 DEF TakeoverKeepsExpiry
<1> QED BY <1>5, <1>6, <1>7, <1>8, <1>9 DEF EInv

\* A rollback gives the session back what it had.
LEMMA EInvRestore ==
  ASSUME DInv, EInv, RestoreHandoff
  PROVE  EInv'
<1>1. /\ place = "body" /\ place' = "session" /\ since' = now /\ was' = -1
      /\ UNCHANGED <<seconds, expiresAt, hasExpiry, trueEnd, jwt, slip>>
      /\ now' = now /\ pc' = pc
  BY DEF RestoreHandoff, deviceVars
<1>2. now \in Nat
  BY DEF DInv, DeviceTypeOK
<1>3. ExpiryTypeOK'
  BY <1>1, <1>2 DEF EInv, ExpiryTypeOK
<1>4. PlaceInv' /\ SlipInv'
  BY <1>1 DEF EInv, PlaceInv, SlipInv
<1>5. KnownInv' /\ TakeoverKeepsExpiry'
  BY <1>1 DEF KnownInv, TakeoverKeepsExpiry
<1> QED BY <1>3, <1>4, <1>5 DEF EInv

\* Two cuts to whole seconds, each of less than a second, and never upwards.
LEMMA SecondsLeftFact ==
  ASSUME now \in Nat, expiresAt \in Int, hasExpiry
  PROVE  /\ SecondsLeft \in Nat
         /\ SecondsLeft > 0 => now + SecondsLeft * Second <= expiresAt
         /\ SecondsLeft * Second < Half
         /\ \/ now + SecondsLeft * Second + 2 * Second > expiresAt
            \/ now + SecondsLeft * Second + Second > now + Half - 1
<1>1. PICK t : t = (expiresAt \div Second) * Second
  OBVIOUS
<1>2. t \in Int /\ t <= expiresAt /\ expiresAt < t + Second
  <2>1. /\ expiresAt \div Second \in Int
        /\ (expiresAt \div Second) * Second <= expiresAt
        /\ expiresAt < (expiresAt \div Second) * Second + Second
    BY Division, DeviceAssumption
  <2>2. (expiresAt \div Second) * Second \in Int
    BY <2>1, Product, DeviceAssumption
  <2> QED BY <1>1, <2>1, <2>2
<1>3. PICK u : u = Least(t - now, Half - 1)
  OBVIOUS
<1>4. u \in Int /\ u <= t - now /\ u <= Half - 1 /\ (u = t - now \/ u = Half - 1)
  BY <1>2, <1>3, DeviceAssumption DEF Least
<1>5. PICK w : w = u \div Second
  OBVIOUS
<1>6. w \in Int /\ w * Second \in Int /\ w * Second <= u /\ u < w * Second + Second
  <2>1. /\ u \div Second \in Int
        /\ (u \div Second) * Second <= u
        /\ u < (u \div Second) * Second + Second
    BY <1>4, Division, DeviceAssumption
  <2>2. (u \div Second) * Second \in Int
    BY <2>1, Product, DeviceAssumption
  <2> QED BY <1>5, <2>1, <2>2
<1>7. WholeSeconds = w
  BY <1>1, <1>3, <1>5 DEF WholeSeconds, Until
<1>8. SecondsLeft = IF w > 0 THEN w ELSE 0
  BY <1>7 DEF SecondsLeft
<1>9. CASE w > 0
  BY <1>2, <1>4, <1>6, <1>8, <1>9, DeviceAssumption
<1>10. CASE ~(w > 0)
  <2>1. SecondsLeft = 0 /\ SecondsLeft * Second = 0
    BY <1>8, <1>10, DeviceAssumption
  <2>2. w * Second <= 0
    <3>1. w * Second <= 0 * Second
      BY <1>6, <1>10, Monotone, DeviceAssumption
    <3> QED BY <3>1, DeviceAssumption
  <2> QED BY <1>2, <1>4, <1>6, <2>1, <2>2, DeviceAssumption
<1> QED BY <1>9, <1>10

\* The expiry becomes a number of seconds.
LEMMA EInvParse ==
  ASSUME DInv, EInv, ParseHandoffResponse
  PROVE  EInv'
<1>1. /\ place = "body" /\ place' = "seconds" /\ since' = now /\ seconds' = SecondsLeft
      /\ expiresAt' = 0 /\ ~hasExpiry' /\ hasExpiry' \in BOOLEAN
      /\ UNCHANGED <<trueEnd, jwt, slip, was>>
      /\ now' = now /\ pc' = pc
  <2>1. ~hasExpiry' /\ hasExpiry' \in BOOLEAN
    BY Zenon DEF ParseHandoffResponse
  <2> QED BY <2>1 DEF ParseHandoffResponse, deviceVars
<1>2. /\ now \in Nat /\ expiresAt \in Int /\ since \in Nat /\ since <= now
      /\ trueEnd \in Int /\ slip \in Nat /\ was \in Int /\ hasExpiry \in BOOLEAN
  BY DEF DInv, DeviceTypeOK, EInv, ExpiryTypeOK
<1>3. ASSUME hasExpiry PROVE seconds' \in Nat /\ SlipInv' /\ KnownInv'
  <2>1. /\ seconds' \in Nat
        /\ seconds' > 0 => now + seconds' * Second <= expiresAt
        /\ seconds' * Second < Half
        /\ \/ now + seconds' * Second + 2 * Second > expiresAt
           \/ now + seconds' * Second + Second > now + Half - 1
    BY <1>1, <1>2, <1>3, SecondsLeftFact
  <2>2. seconds' * Second \in Nat
    BY <2>1, SecondsFact
  <2>3. expiresAt <= trueEnd + slip
    BY <1>1, <1>3 DEF EInv, SlipInv
  <2>4. was >= 0 => was <= expiresAt /\ was <= since + Half - 1
    BY <1>1 DEF EInv, KnownInv
  <2>5. SlipInv'
    BY <1>1, <1>2, <2>1, <2>2, <2>3 DEF SlipInv
  <2>6. KnownInv'
    BY <1>1, <1>2, <2>1, <2>2, <2>4, DeviceAssumption DEF KnownInv
  <2> QED BY <2>1, <2>5, <2>6
<1>4. ASSUME ~hasExpiry PROVE seconds' \in Nat /\ SlipInv' /\ KnownInv'
  <2>1. seconds' = 0
    BY <1>1, <1>4 DEF SecondsLeft
  <2>2. ~(was >= 0)
    BY <1>1, <1>4 DEF EInv, KnownInv
  <2> QED BY <1>1, <2>1, <2>2 DEF SlipInv, KnownInv
<1>5. seconds' \in Nat /\ SlipInv' /\ KnownInv'
  BY <1>2, <1>3, <1>4
<1>6. ExpiryTypeOK'
  BY <1>1, <1>2, <1>5 DEF EInv, ExpiryTypeOK
<1>7. PlaceInv' /\ TakeoverKeepsExpiry'
  BY <1>1, <1>2, ExpiryAssumption DEF EInv, PlaceInv, TakeoverKeepsExpiry
<1> QED BY <1>5, <1>6, <1>7 DEF EInv

\* Time passes for the credential.
LEMMA InvAge ==
  ASSUME DInv, EInv, Age
  PROVE  DInv' /\ EInv'
<1>1. /\ pc = "done" /\ now' = now + 1
      /\ place = "session" \/ now < since + MaxDelay
      /\ UNCHANGED <<pc, req, due, endpoint, verify, expiresIn, asked, start, deadline,
                     interval, slow, answered, outcome, place, since, seconds, expiresAt,
                     hasExpiry, trueEnd, jwt, slip, was>>
  BY DEF Age, pollVars, expiryVars
<1>2. now \in Nat /\ since \in Nat /\ since <= now /\ was \in Int
  BY DEF DInv, DeviceTypeOK, EInv, ExpiryTypeOK
<1>3. DeviceTypeOK'
  BY <1>1, <1>2 DEF DInv, DeviceTypeOK
<1>4. StaysHome'
  BY <1>1 DEF DInv, StaysHome
<1>5. TimeInv' /\ IntervalInv' /\ KeepsInterval'
  BY <1>1 DEF TimeInv, IntervalInv, KeepsInterval, Waiting, InPoll
<1>6. ExpiryTypeOK'
  BY <1>1, <1>2 DEF EInv, ExpiryTypeOK
<1>7. PlaceInv'
  BY <1>1, <1>2, ExpiryAssumption DEF EInv, PlaceInv
<1>8. SlipInv' /\ KnownInv'
  BY <1>1 DEF EInv, SlipInv, KnownInv
<1>9. TakeoverKeepsExpiry'
  BY <1>1, <1>2, DeviceAssumption DEF EInv, TakeoverKeepsExpiry
<1> QED BY <1>3, <1>4, <1>5, <1>6, <1>7, <1>8, <1>9 DEF DInv, EInv

-----------------------------------------------------------------------------
(***************************************************************************)
(* The theorems.                                                           *)
(***************************************************************************)

\* A step that changes nothing keeps the invariant.
LEMMA InvStutter ==
  ASSUME DInv, EInv, UNCHANGED vars
  PROVE  DInv' /\ EInv'
<1>1. UNCHANGED deviceVars /\ UNCHANGED expiryVars /\ now' = now /\ pc' = pc
  BY DEF vars, deviceVars
<1>2. DInv'
  BY <1>1, DInvStutter
<1>3. EInv'
  BY <1>1 DEF EInv, ExpiryTypeOK, PlaceInv, SlipInv, KnownInv, TakeoverKeepsExpiry, expiryVars
<1> QED BY <1>2, <1>3

\* The inductive invariant: it holds in every reachable state of the login and
\* of the credential that comes of it.
THEOREM LInvHolds == Spec => []LInv
<1>1. Init => DInv /\ EInv
  BY DInvInit, EInvInit DEF Init
<1>2. DInv /\ EInv /\ [Next]_vars => DInv' /\ EInv'
  <2> SUFFICES ASSUME DInv, EInv, [Next]_vars PROVE DInv' /\ EInv'
    OBVIOUS
  <2>1. CASE DeviceNext /\ UNCHANGED expiryVars
    BY <2>1, DInvStep, EInvDevice
  <2>2. CASE Login
    <3>1. DInv'
      BY <2>2, DInvStep DEF Login
    <3> QED BY <2>2, <3>1, EInvLogin
  <2>3. CASE NewFromLogin \/ Refresh \/ Handoff \/ RestoreHandoff \/ ParseHandoffResponse
    <3>1. UNCHANGED deviceVars
      BY <2>3 DEF NewFromLogin, Refresh, Handoff, RestoreHandoff, ParseHandoffResponse
    <3>2. DInv'
      BY <3>1, DInvStutter
    <3> QED BY <2>3, <3>2, EInvNewFromLogin, EInvRefresh, EInvHandoff, EInvRestore, EInvParse
  <2>4. CASE Age
    BY <2>4, InvAge
  <2>5. CASE UNCHANGED vars
    BY <2>5, InvStutter
  <2> QED BY <2>1, <2>2, <2>3, <2>4, <2>5 DEF Next
<1>3. DInv /\ EInv => LInv
  BY DEF DInv, EInv, LInv
<1> QED BY <1>1, <1>2, <1>3, PTL DEF Spec

\* Types; requests in flight only where one is waited for, redirected four times
\* at most (checkIDPRedirect); and the seconds of a loginHandoff are never
\* negative (parseHandoffResponse).
THEOREM LoginTypes == Spec => []LoginTypeOK
<1>1. LInv => LoginTypeOK
  BY DEF LInv, LoginTypeOK
<1> QED BY <1>1, LInvHolds, PTL

\* Whatever URLs the IdP names in discovery, redirects and device codes, requests
\* and the user stay on https in the zone x.ai (IsXAIHost, ValidateXAIURL,
\* checkIDPRedirect).
THEOREM LoginStaysHome == Spec => []StaysHome
<1>1. LInv => StaysHome
  BY DEF LInv
<1> QED BY <1>1, LInvHolds, PTL

\* PollDeviceToken is over in time for any expires_in, also one that overflows
\* time.Duration, any interval and any number of slow_down answers.
THEOREM PollIsBounded == Spec => []PollEndsInTime
<1>1. LInv => PollEndsInTime
  <2> SUFFICES ASSUME LInv, pc \in InPoll
               PROVE  now <= start + MaxDeviceAuthWindow + IDPRequestTimeout
                               + MaxDevicePollInterval * Second
    BY DEF PollEndsInTime
  <2>1. now \in Nat /\ due \in Nat /\ start \in Nat /\ MaxDevicePollInterval * Second \in Nat
    BY SleepFact, DeviceAssumption DEF LInv, DeviceTypeOK
  <2>2. CASE pc = "poll"
    BY <2>1, <2>2, DeviceAssumption DEF LInv, TimeInv, PollLimit
  <2>3. CASE pc = "ask"
    BY <2>1, <2>3, DeviceAssumption DEF LInv, TimeInv, Waiting
  <2>4. CASE pc = "sleep"
    BY <2>1, <2>4, DeviceAssumption DEF LInv, TimeInv, PollLimit, Waiting
  <2> QED BY <2>2, <2>3, <2>4 DEF InPoll
<1> QED BY <1>1, LInvHolds, PTL

\* A step of the login keeps StartInv: only Send and CodeReceived set the times.
LEMMA StartStep ==
  ASSUME LInv, StartInv, DeviceNext \/ Granted
  PROVE  StartInv'
<1>t. /\ now \in Nat /\ due \in Nat /\ start \in Nat
      /\ pc \in Waiting => now <= due
  BY DEF LInv, DeviceTypeOK, TimeInv
<1>1. ASSUME pc' = "done" PROVE StartInv'
  BY <1>1 DEF StartInv, InPoll
<1>2. CASE RequestTimesOut \/ PollTimesOut \/ RequestFails \/ CodeRefused \/ Denied
           \/ Cancelled \/ Granted
  BY <1>1, <1>2 DEF RequestTimesOut, PollTimesOut, RequestFails, CodeRefused, Denied,
                   Cancelled, Granted, ReturnWith
<1>3. CASE Redirected
  BY <1>1, <1>3 DEF Redirected, ReturnWith, StartInv, pollVars
<1>4. CASE Discovered
  <2>1. \/ pc' = "done"
        \/ pc = "discover" /\ pc' = "code" /\ due' = now + IDPRequestTimeout
    BY <1>4 DEF Discovered, Send, ReturnWith
  <2> QED BY <1>1, <1>t, <2>1, DeviceAssumption DEF StartInv, Waiting, InPoll
<1>5. CASE CodeReceived
  <2>1. pc = "code" /\ pc' = "poll" /\ start' = now
    BY <1>5 DEF CodeReceived
  <2> QED BY <1>t, <2>1, DeviceAssumption DEF StartInv, Waiting, InPoll
<1>6. CASE PollSend \/ AuthorizationPending \/ SlowDown \/ Wake
  <2>1. pc \in InPoll /\ pc' \in InPoll /\ start' = start
    BY <1>6 DEF PollSend, AuthorizationPending, SlowDown, Wake, SleepFor, pollVars, InPoll
  <2> QED BY <2>1 DEF StartInv, InPoll
<1>7. CASE Tick
  BY <1>7 DEF Tick, StartInv, pollVars
<1> QED BY <1>2, <1>3, <1>4, <1>5, <1>6, <1>7 DEF DeviceNext, DeviceStep

\* StartInv holds throughout.
LEMMA StartHolds == Spec => []StartInv
<1>1. Init => StartInv
  BY DeviceAssumption DEF Init, DeviceInit, StartInv, InPoll
<1>2. LInv /\ StartInv /\ [Next]_vars => StartInv'
  <2> SUFFICES ASSUME LInv, StartInv, [Next]_vars PROVE StartInv'
    OBVIOUS
  <2>1. CASE DeviceNext \/ Login
    BY <2>1, StartStep DEF Login
  <2>2. CASE UNCHANGED <<pc, due, start>>
    BY <2>2 DEF StartInv
  <2>3. CASE \/ NewFromLogin \/ Refresh \/ Handoff \/ RestoreHandoff
             \/ ParseHandoffResponse \/ Age \/ UNCHANGED vars
    BY <2>2, <2>3 DEF NewFromLogin, Refresh, Handoff, RestoreHandoff,
                     ParseHandoffResponse, Age, vars, deviceVars, pollVars
  <2> QED BY <2>1, <2>3 DEF Next
<1> QED BY <1>1, <1>2, LInvHolds, PTL DEF Spec

\* DeviceLogin returns in bounded time whatever the IdP answers, redirects to or
\* keeps silent about: the part of LoginEnds that needs no fairness
\* (NewIDPHTTPClient, PollDeviceToken).
THEOREM LoginIsBounded == Spec => []LoginEndsInTime
<1>1. LInv /\ PollEndsInTime /\ StartInv => LoginEndsInTime
  <2> SUFFICES ASSUME LInv, StartInv, pc \in {"discover", "code"}
               PROVE  now <= 2 * IDPRequestTimeout
    BY DEF LoginEndsInTime, StartInv
  <2>1. now \in Nat /\ due \in Nat /\ now <= due
    BY DEF LInv, DeviceTypeOK, TimeInv, Waiting
  <2> QED BY <2>1, DeviceAssumption DEF StartInv
<1> QED BY <1>1, LInvHolds, PollIsBounded, StartHolds, PTL

\* A step of the login keeps WindowInv: the loop never moves its deadline.
LEMMA WindowStep ==
  ASSUME LInv, WindowInv, DeviceNext \/ Granted
  PROVE  WindowInv'
<1>1. ASSUME pc' \notin InPoll PROVE WindowInv'
  BY <1>1 DEF WindowInv
<1>2. ASSUME pc' = "done" \/ pc' = "code" PROVE WindowInv'
  BY <1>1, <1>2 DEF InPoll
<1>3. ASSUME pc \in InPoll, UNCHANGED <<expiresIn, start, deadline>> PROVE WindowInv'
  BY <1>3 DEF WindowInv
<1>4. CASE RequestTimesOut \/ PollTimesOut \/ RequestFails \/ CodeRefused \/ Denied
           \/ Cancelled \/ Granted
  BY <1>2, <1>4 DEF RequestTimesOut, PollTimesOut, RequestFails, CodeRefused, Denied,
                   Cancelled, Granted, ReturnWith
<1>5. CASE Redirected
  BY <1>2, <1>5 DEF Redirected, ReturnWith, WindowInv, pollVars
<1>6. CASE Discovered
  BY <1>2, <1>6 DEF Discovered, ReturnWith
<1>7. CASE CodeReceived
  <2>1. PICK expires \in Numbers :
          /\ expires > 0 /\ expiresIn' = expires /\ start' = now
          /\ deadline' = now + DeviceAuthWindow(expires)
    BY <1>7 DEF CodeReceived, DeviceCodeOK
  <2>2. SUFFICES ASSUME expires * Second < Half
                 PROVE  DeviceAuthWindow(expires)
                          = Least(expires * Second, MaxDeviceAuthWindow)
    BY <2>1 DEF WindowInv
  <2>3. expires * Second \in Nat
    BY <2>1, Product, Monotone, DeviceAssumption
  <2> QED BY <2>2, <2>3, WrapFits DEF DeviceAuthWindow
<1>8. CASE PollSend \/ AuthorizationPending \/ SlowDown \/ Wake
  BY <1>3, <1>8 DEF PollSend, AuthorizationPending, SlowDown, Wake, pollVars, InPoll
<1>9. CASE Tick
  BY <1>9 DEF Tick, WindowInv, pollVars
<1> QED BY <1>4, <1>5, <1>6, <1>7, <1>8, <1>9 DEF DeviceNext, DeviceStep

\* WindowInv holds throughout.
LEMMA WindowHolds == Spec => []WindowInv
<1>1. Init => WindowInv
  BY DEF Init, DeviceInit, WindowInv, InPoll
<1>2. LInv /\ WindowInv /\ [Next]_vars => WindowInv'
  <2> SUFFICES ASSUME LInv, WindowInv, [Next]_vars PROVE WindowInv'
    OBVIOUS
  <2>1. CASE DeviceNext \/ Login
    BY <2>1, WindowStep DEF Login
  <2>2. CASE UNCHANGED <<pc, expiresIn, start, deadline>>
    BY <2>2 DEF WindowInv
  <2>3. CASE \/ NewFromLogin \/ Refresh \/ Handoff \/ RestoreHandoff
             \/ ParseHandoffResponse \/ Age \/ UNCHANGED vars
    BY <2>2, <2>3 DEF NewFromLogin, Refresh, Handoff, RestoreHandoff,
                     ParseHandoffResponse, Age, vars, deviceVars, pollVars
  <2> QED BY <2>1, <2>3 DEF Next
<1> QED BY <1>1, <1>2, LInvHolds, PTL DEF Spec

\* What deviceAuthWindow's comment promises holds of every IdP whose expires_in,
\* in nanoseconds, fits a time.Duration: overflow is the only way in which the
\* window differs from min(expires_in, MaxDeviceAuthWindow).
THEOREM WindowIsExact ==
  ASSUME \A n \in Numbers : n * Second < Half
  PROVE  Spec => []WindowIsExpiresIn
<1>1. LInv /\ WindowInv => WindowIsExpiresIn
  <2> SUFFICES ASSUME LInv, WindowInv, pc = "poll"
               PROVE  deadline = start + Least(expiresIn * Second, MaxDeviceAuthWindow)
    BY DEF WindowIsExpiresIn
  <2>1. expiresIn \in Numbers \cup {0}
    BY DEF LInv, DeviceTypeOK
  <2>2. expiresIn * Second < Half
    BY <2>1, DeviceAssumption
  <2> QED BY <2>2 DEF WindowInv, InPoll
<1> QED BY <1>1, LInvHolds, WindowHolds, PTL

\* PollDeviceToken never polls sooner than the interval of the device code allows,
\* one second longer after each slow_down, up to the cap.
THEOREM PollKeepsInterval == Spec => []KeepsInterval
<1>1. LInv => KeepsInterval
  BY DEF LInv
<1> QED BY <1>1, LInvHolds, PTL

\* A token that accessStillFreshLocked calls fresh has not ended at the IdP.
THEOREM FreshTokenIsValid == Spec => []FreshIsValid
<1>1. LInv => FreshIsValid
  <2> SUFFICES ASSUME LInv, place = "session", slip <= RefreshSkew, AccessStillFresh
               PROVE  now < trueEnd
    BY DEF FreshIsValid
  <2>1. hasExpiry /\ now < expiresAt - RefreshSkew
    BY DEF AccessStillFresh
  <2>2. expiresAt <= trueEnd + slip
    BY <2>1 DEF LInv, SlipInv
  <2> QED BY <2>1, <2>2, ExpiryAssumption DEF LInv, ExpiryTypeOK, DeviceTypeOK
<1> QED BY <1>1, LInvHolds, PTL

\* parseHandoffResponse and NewFromLogin lose less than two seconds of an expiry.
THEOREM TakeoverExpiry == Spec => []TakeoverKeepsExpiry
<1>1. LInv => TakeoverKeepsExpiry
  BY DEF LInv
<1> QED BY <1>1, LInvHolds, PTL

=============================================================================
