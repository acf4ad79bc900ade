------------------------------ MODULE Session ------------------------------
(***************************************************************************)
(* The in-memory session of internal/session/session.go, with the refresh  *)
(* call of internal/protocol/refresh.go and the identity provider (IdP) it *)
(* talks to.                                                               *)
(*                                                                         *)
(* A thread is a goroutine that serves one request: it calls               *)
(* GetAccessToken, Handoff followed by RestoreHandoff or by giving the     *)
(* snapshot away, or Clear.  A section that runs under s.mu (or under the  *)
(* singleflight's g.mu) is one action.  s.opMu is held across the IdP call *)
(* and is modelled explicitly: the action that takes it also runs the      *)
(* s.mu section that follows, and the action that ends such a section      *)
(* releases it.                                                            *)
(*                                                                         *)
(* Tokens are numbers in the order in which they were installed; 0 is the  *)
(* empty string.  expiresAt and hasExpiry belong to the newest access      *)
(* token and are kept as its age; tokenEndpoint is set and wiped together  *)
(* with the refresh token and is not modelled apart from it.               *)
(***************************************************************************)
EXTENDS Naturals

CONSTANTS
  Threads,     \* goroutines of the HTTP server
  NoThread,    \* "nobody holds opMu"
  MaxRefresh   \* bound: access tokens the IdP issues after the login

ASSUME SessionAssumption ==
  /\ NoThread \notin Threads
  /\ MaxRefresh \in Nat

VARIABLES
  state,         \* Session.state
  accessToken,   \* Session.accessToken
  refreshToken,  \* Session.refreshToken
  lastError,     \* Session.lastError
  age,           \* the newest access token: "unknown" expiry (hasExpiry is
                 \* false), "fresh", "skew" (within RefreshSkew) or "expired"
  opMu,          \* the holder of Session.opMu
  call,          \* sf.m["token"]: "none", "running" or "done" (wg.Done ran,
                 \* the key is still in the map), with the shared result
  pc,            \* where each goroutine is
  rtArg,         \* the rt that refreshIfNeeded read
  ret,           \* what protocol.Refresh returned
  resp,          \* what GetAccessToken returned
  snap,          \* the HandoffData a handoff handler holds
  nAT, nRT,      \* access and refresh tokens installed so far
  consumed,      \* refresh tokens the IdP has rotated away
  lost,          \* those of them whose answer never reached the session
  wire,          \* refresh tokens in abandoned requests the IdP may still read
  since,         \* history: the oldest token a call may be answered with
  cleared,       \* history: Clear ran
  exported       \* history: a snapshot was given to the transport

sessionVars == <<state, accessToken, refreshToken, lastError, age>>
flightVars  == <<opMu, call, pc, rtArg, ret, resp, snap>>
idpVars     == <<nAT, nRT, consumed, lost, wire>>
history     == <<since, cleared, exported>>
vars        == <<sessionVars, flightVars, idpVars, history>>

-----------------------------------------------------------------------------
States == {"ready", "reauth_required", "tier_denied", "handed_off"}
Dead   == {"reauth_required", "tier_denied"}   \* the sticky states
Ages   == {"unknown", "fresh", "skew", "expired"}
PCs    == {"idle", "do", "wait", "refresh", "call", "reply", "delete", "done",
           "hwait", "snapshot"}
Errors == {"none", "reauth", "tier", "unavailable", "panic"}

ATs == 0 .. MaxRefresh + 1    \* 0 is ""
RTs == 0 .. MaxRefresh + 1

Results  == [err : Errors, tok : ATs]
NoResult == [err |-> "none", tok |-> 0]
Ok(tok)  == [err |-> "none", tok |-> tok]
Err(e)   == [err |-> e, tok |-> 0]

NoCall   == [status |-> "none", res |-> NoResult]
Running  == [status |-> "running", res |-> NoResult]
Done(r)  == [status |-> "done", res |-> r]

Snapshots == [at : ATs, rt : RTs]
NoSnap    == [at |-> 0, rt |-> 0]

\* Mutant: the state's name is returned in place of the error kind.
StateAsError(st) == IF st = "tier_denied" THEN st ELSE "unavailable"

\* Mutant: a drained session is reported as one that needs a login.
DrainAsReauth(st) == IF st = "tier_denied" THEN "tier" ELSE "reauth"

\* The error a call gets in each state that is not ready.
ErrorOf(st) ==
  CASE st = "reauth_required" -> "reauth"
    [] st = "tier_denied"     -> "tier"
    [] OTHER                  -> "unavailable"

\* accessStillFreshLocked: outside the refresh skew.
AccessStillFresh == accessToken # 0 /\ age = "fresh"

\* Mutant: any token counts as valid.
AnyToken == accessToken # 0

\* hardValidLocked: not past its expiry.
HardValid == accessToken # 0 /\ age \in {"fresh", "skew"}

\* Ready(): whether GET /token can plausibly succeed right now.
Ready == state = "ready" /\ (HardValid \/ lastError = "none")

\* Mutant: the mutex is not taken.
OpMuIgnored == TRUE

\* s.opMu.Lock() succeeds.
OpMuFree == opMu = NoThread

\* Mutant: the refresh token is forgotten when the session is wiped.
WipeAccessOnly == accessToken' = 0 /\ UNCHANGED refreshToken

\* The assignments that wipe both tokens.
WipeTokens == accessToken' = 0 /\ refreshToken' = 0

\* Mutant: tokens are installed without a second look at the session.
AlwaysInstall == TRUE

\* The look at the session once the IdP has answered: still ready, with a
\* refresh token.
StillReady == state = "ready" /\ refreshToken # 0

\* Mutant: a rollback does not look at the state.
AlwaysRestore == TRUE

\* RestoreHandoff acts on a drained session only.
StillHandedOff == state = "handed_off"

Goto(t, to) == pc' = [pc EXCEPT ![t] = to]

-----------------------------------------------------------------------------
\* NewFromLogin: both tokens present, expiry known or not.
Init ==
  /\ state = "ready"
  /\ accessToken = 1 /\ refreshToken = 1
  /\ lastError = "none"
  /\ age \in Ages
  /\ opMu = NoThread
  /\ call = NoCall
  /\ pc = [t \in Threads |-> "idle"]
  /\ rtArg = [t \in Threads |-> 0]
  /\ ret = [t \in Threads |-> "none"]
  /\ resp = [t \in Threads |-> NoResult]
  /\ snap = [t \in Threads |-> NoSnap]
  /\ nAT = 1 /\ nRT = 1
  /\ consumed = {} /\ lost = {} /\ wire = {}
  /\ since = [t \in Threads |-> 0]
  /\ cleared = FALSE /\ exported = FALSE

-----------------------------------------------------------------------------
(***************************************************************************)
(* GetAccessToken and the singleflight.                                    *)
(***************************************************************************)

\* The first s.mu section: fail in a dead state, answer with a fresh token,
\* or go to the singleflight.  A call that starts on an expired token, with no
\* finished flight to pick up, must be answered with a newer one.
GetAccessToken(t) ==
  /\ pc[t] = "idle"
  /\ since' = [since EXCEPT ![t] =
       IF age = "expired" /\ call.status # "done" THEN nAT + 1 ELSE nAT]
  /\ \/ /\ state # "ready"
        /\ resp' = [resp EXCEPT ![t] = Err(ErrorOf(state))]
        /\ Goto(t, "done")
     \/ /\ state = "ready" /\ AccessStillFresh
        /\ resp' = [resp EXCEPT ![t] = Ok(accessToken)]
        /\ Goto(t, "done")
     \/ /\ state = "ready" /\ ~AccessStillFresh
        /\ Goto(t, "do")
        /\ UNCHANGED resp
  /\ UNCHANGED <<sessionVars, opMu, call, rtArg, ret, snap, idpVars,
                 cleared, exported>>

\* Mutant: a running call is not found in the map.
NotFinished == call.status # "done"

\* No call is in the singleflight's map.
NoFlight == call.status = "none"

\* Do: the first caller creates the call and runs fn.
LeadFlight(t) ==
  /\ pc[t] = "do"
  /\ NoFlight
  /\ call' = Running
  /\ Goto(t, "refresh")
  /\ UNCHANGED <<sessionVars, opMu, rtArg, ret, resp, snap, idpVars, history>>

\* Do: a later caller finds the key and waits on the WaitGroup.
JoinFlight(t) ==
  /\ pc[t] = "do"
  /\ call.status = "running"
  /\ Goto(t, "wait")
  /\ UNCHANGED <<sessionVars, opMu, call, rtArg, ret, resp, snap, idpVars, history>>

\* Do: the key is still in the map although wg.Done already ran, so Wait
\* returns at once with the finished result.
JoinFinished(t) ==
  /\ pc[t] = "do"
  /\ call.status = "done"
  /\ resp' = [resp EXCEPT ![t] = call.res]
  /\ Goto(t, "done")
  /\ UNCHANGED <<sessionVars, opMu, call, rtArg, ret, snap, idpVars, history>>

\* Mutant: the leader forgets wg.Done.
NoWakeup(t, r) ==
  /\ opMu' = NoThread
  /\ call' = Done(r)
  /\ Goto(t, "delete")
  /\ resp' = [resp EXCEPT ![t] = r]
  /\ rtArg' = [rtArg EXCEPT ![t] = 0]
  /\ ret' = [ret EXCEPT ![t] = "none"]

\* fn returned r (or panicked): opMu is released, the WaitGroup is done and
\* every waiter has its answer; the key is deleted in a step of its own.
FlightDone(t, r) ==
  /\ opMu' = NoThread
  /\ call' = Done(r)
  /\ pc' = [u \in Threads |-> IF u = t THEN "delete"
                              ELSE IF pc[u] = "wait" THEN "done" ELSE pc[u]]
  /\ resp' = [u \in Threads |-> IF u = t \/ pc[u] = "wait" THEN r ELSE resp[u]]
  /\ rtArg' = [rtArg EXCEPT ![t] = 0]
  /\ ret' = [ret EXCEPT ![t] = "none"]

FlightDelete(t) ==
  /\ pc[t] = "delete"
  /\ call' = NoCall
  /\ Goto(t, "done")
  /\ UNCHANGED <<sessionVars, opMu, rtArg, ret, resp, snap, idpVars, history>>

\* GetAccessToken returns to its caller.
Return(t) ==
  /\ pc[t] = "done"
  /\ Goto(t, "idle")
  /\ resp' = [resp EXCEPT ![t] = NoResult]
  /\ since' = [since EXCEPT ![t] = 0]
  /\ UNCHANGED <<sessionVars, opMu, call, rtArg, ret, snap, idpVars,
                 cleared, exported>>

-----------------------------------------------------------------------------
(***************************************************************************)
(* refreshIfNeeded, under opMu.                                            *)
(***************************************************************************)

\* opMu is taken and the second look at the session makes the IdP call
\* unnecessary: another call ended the session, or refreshed it, meanwhile;
\* or the refresh token is missing, which ends the session.
RefreshSkipped(t) ==
  /\ pc[t] = "refresh" /\ OpMuFree
  /\ state # "ready" \/ AccessStillFresh \/ refreshToken = 0
  /\ IF state = "ready" /\ ~AccessStillFresh
     THEN /\ state' = "reauth_required" /\ lastError' = "missing_refresh"
          /\ accessToken' = 0
          /\ FlightDone(t, Err("reauth"))
     ELSE /\ FlightDone(t, IF state = "ready" THEN Ok(accessToken)
                           ELSE Err(ErrorOf(state)))
          /\ UNCHANGED <<state, accessToken, lastError>>
  /\ UNCHANGED <<refreshToken, age, snap, idpVars, history>>

\* opMu is taken, the refresh token is read and the request goes out.
RefreshSend(t) ==
  /\ pc[t] = "refresh" /\ OpMuFree
  /\ state = "ready" /\ ~AccessStillFresh /\ refreshToken # 0
  /\ opMu' = t
  /\ rtArg' = [rtArg EXCEPT ![t] = refreshToken]
  /\ Goto(t, "call")
  /\ UNCHANGED <<sessionVars, call, ret, resp, snap, idpVars, history>>

\* How protocol.Refresh reports what the IdP did.
Refresh(answer) ==
  CASE answer = "rotated"       -> "rotated"     \* 200, new refresh token
    [] answer = "kept"          -> "kept"        \* 200 without refresh_token
    [] answer = "no_access"     -> "reauth"      \* 200 without access_token
    [] answer = "bad_json"      -> "transient"   \* 200 with a broken body
    [] answer = "forbidden"     -> "tier"        \* 403
    [] answer = "invalid_grant" -> "reauth"      \* or invalid_client
    [] OTHER                    -> "transient"   \* other status

\* The IdP: a refresh token works once, unless the answer lets the client
\* keep it; it may refuse, or fail, whatever it is shown.
Answers(rt) ==
  {"forbidden", "invalid_grant", "error"}
  \cup (IF rt \in consumed THEN {} ELSE {"no_access", "bad_json"})
  \cup (IF rt \in consumed \/ nAT > MaxRefresh THEN {} ELSE {"rotated", "kept"})

\* The answer reaches the waiting goroutine.
IdPAnswer(t) ==
  /\ pc[t] = "call"
  /\ \E answer \in Answers(rtArg[t]) :
       /\ ret' = [ret EXCEPT ![t] = Refresh(answer)]
       /\ consumed' = consumed \cup
            (IF answer \in {"rotated", "no_access", "bad_json"}
             THEN {rtArg[t]} ELSE {})
       /\ lost' = lost \cup
            (IF answer \in {"no_access", "bad_json"} THEN {rtArg[t]} ELSE {})
  /\ Goto(t, "reply")
  /\ UNCHANGED <<sessionVars, opMu, call, rtArg, resp, snap, nAT, nRT, wire, history>>

\* client.Do fails: the IDPRequestTimeout passed, the leader's own request was
\* cancelled, or the connection broke.  The request may still reach the IdP.
CallAbandoned(t) ==
  /\ pc[t] = "call"
  /\ ret' = [ret EXCEPT ![t] = "transient"]
  /\ wire' \in {wire, wire \cup {rtArg[t]}}
  /\ Goto(t, "reply")
  /\ UNCHANGED <<sessionVars, opMu, call, rtArg, resp, snap, nAT, nRT,
                 consumed, lost, history>>

\* The IdP reads an abandoned request: the token is spent, the answer lost.
IdPLate(rt) ==
  /\ rt \in wire
  /\ wire' = wire \ {rt}
  /\ IF rt \in consumed THEN UNCHANGED <<consumed, lost>>
     ELSE /\ consumed' = consumed \cup {rt}
          /\ lost' = lost \cup {rt}
  /\ UNCHANGED <<sessionVars, flightVars, nAT, nRT, history>>

\* A panic under fn is recovered by the singleflight; the deferred unlock
\* releases opMu.
RecoverPanic(t) ==
  /\ pc[t] = "call"
  /\ wire' \in {wire, wire \cup {rtArg[t]}}
  /\ FlightDone(t, Err("panic"))
  /\ UNCHANGED <<sessionVars, snap, nAT, nRT, consumed, lost, history>>

\* The refresh succeeded and the session is still alive: install the tokens.
StoreRefresh(t) ==
  /\ pc[t] = "reply" /\ ret[t] \in {"rotated", "kept"}
  /\ StillReady
  /\ nAT' = nAT + 1
  /\ nRT' = IF ret[t] = "rotated" THEN nRT + 1 ELSE nRT
  /\ accessToken' = nAT'
  /\ refreshToken' = IF ret[t] = "rotated" THEN nRT' ELSE rtArg[t]
  /\ age' \in Ages
  /\ state' = "ready"
  /\ lastError' = "none"
  /\ FlightDone(t, Ok(accessToken'))
  /\ UNCHANGED <<snap, consumed, lost, wire, since, cleared, exported>>

\* The refresh succeeded but Clear won while it was in flight: the new tokens
\* are dropped.
DiscardRefresh(t) ==
  /\ pc[t] = "reply" /\ ret[t] \in {"rotated", "kept"}
  /\ ~StillReady
  /\ IF state = "ready"
     THEN /\ state' = "reauth_required" /\ lastError' = "logged_out"
          /\ accessToken' = 0
          /\ FlightDone(t, Err("reauth"))
     ELSE /\ FlightDone(t, Err(ErrorOf(state)))
          /\ UNCHANGED <<state, lastError, accessToken>>
  /\ UNCHANGED <<refreshToken, age, snap, idpVars, history>>

\* handleRefreshErr, terminal kinds: the session is wiped, whatever its state.
RefreshRejected(t) ==
  /\ pc[t] = "reply" /\ ret[t] \in {"reauth", "tier"}
  /\ state' = IF ret[t] = "reauth" THEN "reauth_required" ELSE "tier_denied"
  /\ lastError' = "rejected"
  /\ WipeTokens
  /\ FlightDone(t, Err(ret[t]))
  /\ UNCHANGED <<age, snap, idpVars, history>>

\* handleRefreshErr, transient: keep the tokens, answer with the access token
\* while it is hard-valid.
RefreshTransient(t) ==
  /\ pc[t] = "reply" /\ ret[t] = "transient"
  /\ lastError' = "refresh_failed"
  /\ FlightDone(t, IF HardValid THEN Ok(accessToken) ELSE Err("unavailable"))
  /\ UNCHANGED <<state, accessToken, refreshToken, age, snap, idpVars,
                 since, cleared, exported>>

-----------------------------------------------------------------------------
(***************************************************************************)
(* Handoff, RestoreHandoff and Clear.                                      *)
(***************************************************************************)

\* A handler calls Handoff and queues on opMu.
CallHandoff(t) ==
  /\ pc[t] = "idle"
  /\ Goto(t, "hwait")
  /\ UNCHANGED <<sessionVars, opMu, call, rtArg, ret, resp, snap, idpVars, history>>

\* The drain: snapshot, wipe, handed_off.
Handoff(t) ==
  /\ pc[t] = "hwait" /\ OpMuFree
  /\ state = "ready"
  /\ snap' = [snap EXCEPT ![t] = [at |-> accessToken, rt |-> refreshToken]]
  /\ WipeTokens
  /\ state' = "handed_off" /\ lastError' = "handed_off"
  /\ Goto(t, "snapshot")
  /\ UNCHANGED <<age, opMu, call, rtArg, ret, resp, idpVars, history>>

HandoffRefused(t) ==
  /\ pc[t] = "hwait" /\ OpMuFree
  /\ state # "ready"
  /\ Goto(t, "idle")
  /\ UNCHANGED <<sessionVars, opMu, call, rtArg, ret, resp, snap, idpVars, history>>

\* The snapshot could not be delivered: reinstate it, unless a logout won.
RestoreHandoff(t) ==
  /\ pc[t] = "snapshot"
  /\ IF ~StillHandedOff THEN UNCHANGED sessionVars
     ELSE /\ accessToken' = snap[t].at /\ refreshToken' = snap[t].rt
          /\ state' = "ready" /\ lastError' = "none"
          /\ UNCHANGED age
  /\ snap' = [snap EXCEPT ![t] = NoSnap]
  /\ Goto(t, "idle")
  /\ UNCHANGED <<opMu, call, rtArg, ret, resp, idpVars, history>>

\* The handler gave the snapshot to the transport and forgets it.
ReleaseSnapshot(t) ==
  /\ pc[t] = "snapshot"
  /\ snap' = [snap EXCEPT ![t] = NoSnap]
  /\ exported' = TRUE
  /\ Goto(t, "idle")
  /\ UNCHANGED <<sessionVars, opMu, call, rtArg, ret, resp, idpVars,
                 since, cleared>>

\* Logout.  It takes only s.mu, so it may run while a refresh or a handoff is
\* in flight.
Clear(t) ==
  /\ pc[t] = "idle"
  /\ WipeTokens
  /\ state' = "reauth_required" /\ lastError' = "logged_out"
  /\ cleared' = TRUE
  /\ UNCHANGED <<age, flightVars, idpVars, since, exported>>

\* Time passes: the newest access token with a known expiry gets older.
Tick ==
  /\ age \in {"fresh", "skew"}
  /\ age' = IF age = "fresh" THEN "skew" ELSE "expired"
  /\ UNCHANGED <<state, accessToken, refreshToken, lastError, flightVars,
                 idpVars, history>>

-----------------------------------------------------------------------------
\* Steps that wait for opMu.
Acquire(t) == RefreshSkipped(t) \/ RefreshSend(t) \/ Handoff(t) \/ HandoffRefused(t)

\* The outcome of the IdP call, which the client timeout bounds.
CallEnds(t) == IdPAnswer(t) \/ CallAbandoned(t) \/ RecoverPanic(t)

\* Steps of a goroutine that neither wait for a lock nor for the IdP.
Proceed(t) ==
  \/ LeadFlight(t) \/ JoinFlight(t) \/ JoinFinished(t) \/ FlightDelete(t) \/ Return(t)
  \/ StoreRefresh(t) \/ DiscardRefresh(t) \/ RefreshRejected(t) \/ RefreshTransient(t)

EndHandoff(t) == RestoreHandoff(t) \/ ReleaseSnapshot(t)

Begin(t) == GetAccessToken(t) \/ CallHandoff(t) \/ Clear(t)

Next ==
  \/ \E t \in Threads :
       Begin(t) \/ Proceed(t) \/ Acquire(t) \/ CallEnds(t) \/ EndHandoff(t)
  \/ \E rt \in wire : IdPLate(rt)
  \/ Tick

Spec == Init /\ [][Next]_vars

\* A goroutine that can run does.  sync.Mutex hands opMu to a goroutine that
\* has waited long enough (starvation mode), hence strong fairness.  The IdP
\* client has a timeout.  Nobody has to call, and tokens need not age.
Fairness ==
  \A t \in Threads :
    /\ WF_vars(Proceed(t))
    /\ SF_vars(Acquire(t))
    /\ WF_vars(CallEnds(t))
    /\ WF_vars(EndHandoff(t))

FairSpec == Spec /\ Fairness

-----------------------------------------------------------------------------
(***************************************************************************)
(* Properties.                                                             *)
(***************************************************************************)

\* The types of the variables; tokens are numbered in the order of issue.
TypeOK ==
  /\ state \in States
  /\ accessToken \in ATs /\ refreshToken \in RTs
  /\ lastError \in {"none", "refresh_failed", "rejected", "handed_off",
                    "logged_out", "missing_refresh"}
  /\ age \in Ages
  /\ opMu \in Threads \cup {NoThread}
  /\ call \in [status : {"none", "running", "done"}, res : Results]
  /\ pc \in [Threads -> PCs]
  /\ rtArg \in [Threads -> RTs]
  /\ ret \in [Threads -> {"none", "rotated", "kept", "reauth", "tier", "transient"}]
  /\ resp \in [Threads -> Results]
  /\ snap \in [Threads -> Snapshots]
  /\ nAT \in ATs \ {0} /\ nRT \in RTs \ {0} /\ nRT <= nAT
  /\ consumed \subseteq RTs /\ lost \subseteq consumed /\ wire \subseteq RTs
  /\ since \in [Threads -> 0 .. MaxRefresh + 2]
  /\ cleared \in BOOLEAN /\ exported \in BOOLEAN

\* A ready session holds the newest tokens it was given, and no path out of
\* ready (logout, drain, rejected refresh) leaves a token behind: session.go
\* sets and wipes the fields by hand in nine places.
WipedUnlessReady ==
  IF state = "ready" THEN accessToken = nAT /\ refreshToken = nRT
  ELSE accessToken = 0 /\ refreshToken = 0

\* The refresh token that is held between refreshes, sent to the IdP, or put
\* in a handoff snapshot has not been rotated away, unless the IdP's answer
\* was lost: opMu keeps a drain and a refresh apart.
HeldTokenUnspent ==
  \A rt \in consumed \ lost :
    /\ state = "ready" /\ opMu = NoThread => refreshToken # rt
    /\ \A t \in Threads : pc[t] = "call" => rtArg[t] # rt
    /\ \A t \in Threads : pc[t] = "snapshot" => snap[t].rt # rt

\* A logout is final: a refresh whose answer arrives later, or a handoff that
\* is rolled back later, does not bring the session back.
LogoutFinal == cleared => state \in Dead

\* A session that ended never becomes usable again, and one that is drained
\* only by the rollback of that drain.
StickyStates ==
  [][ /\ state \in Dead => state' \in Dead
      /\ state = "handed_off" /\ state' = "ready" => \E t \in Threads : snap[t] # NoSnap
    ]_vars

\* A caller that is told to log in again, or that its tier is denied, is told
\* so of a session that really is over: transient trouble, panics and drains
\* never surface as a permanent error.
PermanentErrorsAreTrue ==
  \A t \in Threads : resp[t].err \in {"reauth", "tier"} => state \in Dead

\* /ready calls a session degraded only because its last refresh failed, never
\* for the leftover of a handoff that was rolled back; and a drained session
\* says so in /status, although handleRefreshErr overwrites lastError without
\* looking at the state.
LastErrorExplains ==
  /\ state = "ready" /\ ~Ready => lastError = "refresh_failed"
  /\ state = "handed_off" => lastError = "handed_off"

\* Nobody is answered with a token older than the newest one installed before
\* the call, nor with one that was already expired then (unless a finished
\* flight was still there to be joined).
NoStaleToken ==
  \A t \in Threads : resp[t].tok # 0 => resp[t].tok >= since[t]

\* At most one refresh is in flight, so waiters share its result.
OneRefresh ==
  \A t, u \in Threads :
    /\ pc[t] \in {"refresh", "call", "reply", "delete"}
    /\ pc[u] \in {"refresh", "call", "reply", "delete"}
    => t = u

\* Everyone who waits, waits for somebody who works: a call in the map is being
\* refreshed by its leader, or its leader is about to delete the key (so that a
\* finished result is not served for ever); followers wait for a running call
\* only; and opMu is held only across an IdP call, never by one who waits.
WaitsAreServed ==
  /\ call.status = "running" =>
       \E u \in Threads : pc[u] \in {"refresh", "call", "reply"}
  /\ call.status = "done" => \E u \in Threads : pc[u] = "delete"
  /\ \A t \in Threads : pc[t] = "wait" => call.status = "running"
  /\ opMu # NoThread => pc[opMu] \in {"call", "reply"}

\* Every call of GetAccessToken and Handoff returns: followers of a flight are
\* released whatever happened to its leader, and no queue on opMu starves.
CallsReturn == \A t \in Threads : pc[t] # "idle" ~> pc[t] = "idle"

\* The session implements the custody rules of a single-use refresh token.
C == INSTANCE Custody WITH
       Handlers   <- Threads,
       inSession  <- refreshToken # 0,
       inTransit  <- {t \in Threads : snap[t] # NoSnap},
       exported   <- exported,
       generation <- nRT

CustodyKept == C!Spec

(***************************************************************************)
(* A statement of the repository's documents that the code does not keep.  *)
(***************************************************************************)

\* "Clear wipes credentials from memory (logout). Subsequent GetAccessToken
\* fails with reauth."
LogoutMeansReauth == cleared => state = "reauth_required"

=============================================================================
