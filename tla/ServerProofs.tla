---------------------------- MODULE ServerProofs ----------------------------
(***************************************************************************)
(* The daemon uses its session only through the operations of Session, so  *)
(* everything proved of Session holds in the daemon; it never decides to   *)
(* stop while its session is alive, never forgets to stop when it is over, *)
(* and is a daemon as module Daemon says.                                  *)
(***************************************************************************)
EXTENDS Server, SessionProofs

\* Jumps and the tuples of variables.
USE DEF Goto, sessionVars, flightVars, idpVars, history, serverVars, allVars

\* Every step of the daemon is a step of the session or leaves it alone.
LEMMA ServerStep == [ServerNext]_allVars => [Next]_vars
<1> SUFFICES ASSUME [ServerNext]_allVars PROVE [Next]_vars
    OBVIOUS
<1>1. CASE UNCHANGED allVars
    BY <1>1
<1>2. CASE Environment
    BY <1>2 DEF Environment, Next
<1>3. CASE ShutdownRequested \/ Signal \/ ServeFails \/ Exit
    BY <1>3 DEF ShutdownRequested, Signal, ServeFails, Exit
<1>4. ASSUME NEW t \in Threads,
             \/ HandleToken(t) \/ HandleLogout(t) \/ HandleHandoff(t)
             \/ Answer(t) \/ AnswerConflict(t)
             \/ Inside(t) \/ LockOpMu(t) \/ IdPCall(t)
             \/ OnLogout(t)
      PROVE  [Next]_vars
  <2>1. CASE AnswerLogout(t) \/ OnLogout(t)
      BY <2>1 DEF AnswerLogout, OnLogout
  <2>2. CASE ~(AnswerLogout(t) \/ OnLogout(t))
    <3>1. Begin(t) \/ Proceed(t) \/ Acquire(t) \/ CallEnds(t) \/ EndHandoff(t)
        BY <1>4, <2>2 DEF HandleToken, HandleLogout, HandleHandoff, Answer,
           AnswerToken, HandoffUndelivered, HandoffWritten, AnswerConflict, Inside,
           LockOpMu, IdPCall, Begin, Proceed, Acquire, EndHandoff
    <3> QED
        BY <3>1 DEF Next
  <2> QED
      BY <2>1, <2>2
<1> QED
    BY <1>1, <1>2, <1>3, <1>4 DEF ServerNext

\* So what holds of every session holds of the daemon's.
LEMMA Uses == ServerSpec => Spec
<1>1. ServerInit => Init
    BY DEF ServerInit
<1> QED
    BY <1>1, ServerStep, PTL DEF ServerSpec, Spec

-----------------------------------------------------------------------------
\* A shutdown is on its way only when the session was logged out or its
\* snapshot has left.
StopInv ==
  /\ \A t \in Threads : req[t] = "logout" => cleared
  /\ proc = "serving" => cause = "none"
  /\ onLogout # {} \/ shutdownCh \/ cause = "logout" => cleared \/ exported

\* StopInv is inductive: cleared and exported never become false again.
LEMMA NextStopInv ==
  ASSUME ServerTypeOK, StopInv, [ServerNext]_allVars, IInv
  PROVE  StopInv'
<1>1. CASE UNCHANGED allVars
    BY <1>1 DEF StopInv, vars
<1>2. CASE Environment
    BY <1>2 DEF StopInv, Environment, Tick, IdPLate
<1>3. CASE ShutdownRequested \/ Signal \/ ServeFails \/ Exit
    BY <1>3 DEF StopInv, ShutdownRequested, Signal, ServeFails, Exit, vars
<1>4. ASSUME NEW t \in Threads, HandleToken(t) \/ HandleLogout(t) \/ HandleHandoff(t)
      PROVE  StopInv'
    BY <1>4 DEF StopInv, ServerTypeOK, HandleToken, HandleLogout, HandleHandoff, Start,
       GetAccessToken, Clear, CallHandoff
<1>5. ASSUME NEW t \in Threads, Answer(t) \/ AnswerConflict(t)
      PROVE  StopInv'
  <2>1. CASE AnswerLogout(t)
      BY <2>1 DEF StopInv, ServerTypeOK, AnswerLogout, Finish, vars
  <2>2. CASE HandoffWritten(t)
      BY <2>2 DEF StopInv, ServerTypeOK, HandoffWritten, Finish, ReleaseSnapshot
  <2>3. CASE AnswerToken(t) \/ HandoffUndelivered(t) \/ AnswerConflict(t)
      BY <2>3 DEF StopInv, ServerTypeOK, AnswerToken, HandoffUndelivered,
         AnswerConflict, Finish, Return, RestoreHandoff, HandoffRefused
  <2> QED
      BY <1>5, <2>1, <2>2, <2>3 DEF Answer
<1>6. ASSUME NEW t \in Threads, Inside(t) \/ LockOpMu(t) \/ IdPCall(t)
      PROVE  StopInv'
    BY <1>6 DEF StopInv, Inside, LockOpMu, IdPCall, LeadFlight, JoinFlight,
       JoinFinished, FlightDelete, StoreRefresh, DiscardRefresh, RefreshRejected,
       RefreshTransient, RefreshSkipped, RefreshSend, Handoff, CallEnds, IdPAnswer,
       CallAbandoned, RecoverPanic
<1>7. ASSUME NEW t \in Threads, OnLogout(t)
      PROVE  StopInv'
    BY <1>7 DEF StopInv, OnLogout, vars
<1> QED
    BY <1>1, <1>2, <1>3, <1>4, <1>5, <1>6, <1>7 DEF ServerNext

\* A handler enters and leaves the session with its request.
LEMMA NextHandlerInside ==
  ASSUME IInv, ServerTypeOK, [ServerNext]_allVars
  PROVE  HandlerInside'
<1>1. CASE UNCHANGED allVars
    BY <1>1 DEF ServerTypeOK, HandlerInside, vars
<1>2. CASE Environment \/ ShutdownRequested \/ Signal \/ ServeFails \/ Exit
    BY <1>2 DEF ServerTypeOK, HandlerInside, vars, Environment, Tick, IdPLate,
       ShutdownRequested, Signal, ServeFails, Exit
<1>pc. /\ DOMAIN pc = Threads /\ pc = [u \in Threads |-> pc[u]]
      /\ DOMAIN req = Threads /\ req = [u \in Threads |-> req[u]]
    BY DEF IInv, TypeOK, ServerTypeOK
<1>3. ASSUME NEW t \in Threads, HandleToken(t) \/ HandleLogout(t) \/ HandleHandoff(t)
      PROVE  HandlerInside'
  <2>1. CASE HandleToken(t)
    <3>1. PICK to \in {"do", "done"} : pc' = [pc EXCEPT ![t] = to]
        BY <2>1 DEF HandleToken, GetAccessToken
    <3> QED
        BY <2>1, <3>1, <1>pc DEF ServerTypeOK, HandlerInside, HandleToken, Start
  <2>2. CASE HandleLogout(t)
      BY <2>2, <1>pc DEF ServerTypeOK, HandlerInside, HandleLogout, Start, Clear
  <2>3. CASE HandleHandoff(t)
      BY <2>3, <1>pc DEF ServerTypeOK, HandlerInside, HandleHandoff, Start, CallHandoff
  <2> QED
      BY <1>3, <2>1, <2>2, <2>3
<1>4. ASSUME NEW t \in Threads, Answer(t) \/ AnswerConflict(t)
      PROVE  HandlerInside'
  <2>1. req' = [req EXCEPT ![t] = "none"]
      BY <1>4 DEF Answer, AnswerToken, AnswerLogout, HandoffUndelivered,
         HandoffWritten, AnswerConflict, Finish
  <2>2. CASE AnswerLogout(t)
      BY <2>1, <2>2, <1>pc DEF ServerTypeOK, HandlerInside, vars, AnswerLogout
  <2>3. CASE pc' = [pc EXCEPT ![t] = "idle"]
      BY <2>1, <2>3, <1>pc DEF ServerTypeOK, HandlerInside
  <2> QED
      BY <1>4, <2>2, <2>3 DEF Answer, AnswerToken, HandoffUndelivered, HandoffWritten,
         AnswerConflict, Return, RestoreHandoff, ReleaseSnapshot, HandoffRefused
<1>5. ASSUME NEW t \in Threads, Inside(t) \/ LockOpMu(t) \/ IdPCall(t) \/ OnLogout(t)
      PROVE  HandlerInside'
  <2>1. CASE OnLogout(t)
      BY <2>1 DEF ServerTypeOK, HandlerInside, vars, OnLogout
  <2>2. CASE \E r : FlightDone(t, r) /\ pc[t] \in {"refresh", "call", "reply"}
    <3>1. req' = req
        BY <1>5 DEF Inside, LockOpMu, IdPCall, OnLogout
    <3> QED
        BY <2>2, <3>1 DEF ServerTypeOK, HandlerInside, FlightDone
  <2>3. CASE \/ LeadFlight(t) \/ JoinFlight(t) \/ JoinFinished(t) \/ FlightDelete(t)
             \/ RefreshSend(t) \/ Handoff(t) \/ IdPAnswer(t) \/ CallAbandoned(t)
    <3>1. req' = req
        BY <1>5 DEF Inside, LockOpMu, IdPCall, OnLogout
    <3>2. CASE Handoff(t)
        BY <3>1, <3>2, <1>pc DEF ServerTypeOK, HandlerInside, Handoff
    <3>3. CASE ~Handoff(t)
      <4>1. PICK to \in {"refresh", "wait", "done", "call", "reply"} :
              pc' = [pc EXCEPT ![t] = to] /\ pc[t] \in {"do", "delete", "refresh", "call"}
          BY <2>3, <3>3 DEF LeadFlight, JoinFlight, JoinFinished, FlightDelete,
             RefreshSend, IdPAnswer, CallAbandoned
      <4> QED
          BY <3>1, <4>1, <1>pc DEF ServerTypeOK, HandlerInside
    <3> QED
        BY <3>2, <3>3
  <2> QED
      BY <1>5, <2>1, <2>2, <2>3 DEF Inside, LockOpMu, IdPCall, CallEnds, RecoverPanic,
         StoreRefresh, DiscardRefresh, RefreshRejected, RefreshTransient, RefreshSkipped
<1> QED
    BY <1>1, <1>2, <1>3, <1>4, <1>5 DEF ServerNext

\* The variables of the daemon keep their types.
LEMMA NextServerType ==
  ASSUME IInv, ServerTypeOK, [ServerNext]_allVars
  PROVE  ServerTypeOK'
<1>1. HandlerInside'
    BY NextHandlerInside
<1>2. CASE UNCHANGED allVars
    BY <1>1, <1>2 DEF ServerTypeOK
<1>3. CASE Environment \/ ShutdownRequested \/ Signal \/ ServeFails \/ Exit
    BY <1>1, <1>3 DEF ServerTypeOK, Environment, ShutdownRequested, Signal, ServeFails, Exit
<1>4. ASSUME NEW t \in Threads, HandleToken(t) \/ HandleLogout(t) \/ HandleHandoff(t)
      PROVE  ServerTypeOK'
    BY <1>1, <1>4 DEF ServerTypeOK, HandleToken, HandleLogout, HandleHandoff, Start
<1>5. ASSUME NEW t \in Threads, Answer(t) \/ AnswerConflict(t)
      PROVE  ServerTypeOK'
    BY <1>1, <1>5 DEF ServerTypeOK, Answer, AnswerToken, AnswerLogout,
       HandoffUndelivered, HandoffWritten, AnswerConflict, Finish
<1>6. ASSUME NEW t \in Threads, Inside(t) \/ LockOpMu(t) \/ IdPCall(t) \/ OnLogout(t)
      PROVE  ServerTypeOK'
    BY <1>1, <1>6 DEF ServerTypeOK, Inside, LockOpMu, IdPCall, OnLogout
<1> QED
    BY <1>2, <1>3, <1>4, <1>5, <1>6 DEF ServerNext

\* The daemon is type-correct, and a goroutine is in the session only on behalf
\* of its request.
THEOREM ServerTypeCorrect == ServerSpec => []ServerTypeOK
<1>1. ServerInit => ServerTypeOK
    BY DEF ServerInit, Init, ServerTypeOK, HandlerInside
<1>2. ServerSpec => []IInv
    BY Uses, Inductive, PTL
<1> QED
    BY <1>1, <1>2, NextServerType, PTL DEF ServerSpec

\* An outcome of GetAccessToken is an error or a token, never neither.
Given(r) == r.err # "none" \/ r.tok # 0

\* Nobody is about to be answered with neither.
AnswerInv ==
  /\ \A t \in Threads : pc[t] \in {"delete", "done"} => Given(resp[t])
  /\ call.status = "done" => Given(call.res)

\* A flight that ends with an error or a token answers everybody so.
LEMMA FlightDoneGives ==
  ASSUME TypeOK, AnswerInv, NEW t \in Threads, NEW r, Given(r), FlightDone(t, r)
  PROVE  AnswerInv'
  BY DEF TypeOK, AnswerInv, FlightDone, Done

\* What the first section of GetAccessToken answers is an error or a token.
LEMMA GetAccessTokenGives ==
  ASSUME IInv, AnswerInv, NEW t \in Threads, GetAccessToken(t)
  PROVE  AnswerInv'
<1>1. \A e \in {"reauth", "tier", "unavailable"} : Given(Err(e))
    BY DEF Given, Err
<1>2. Given(Err(ErrorOf(state)))
    BY <1>1, ErrorOfType
<1>3. AccessStillFresh => Given(Ok(accessToken))
    BY DEF AccessStillFresh, Given, Ok
<1> QED
    BY <1>2, <1>3 DEF IInv, TypeOK, AnswerInv, GetAccessToken

\* Every flight ends with an error or a token.
LEMMA FlightGives ==
  ASSUME IInv, AnswerInv, NEW t \in Threads,
         RefreshSkipped(t) \/ RecoverPanic(t) \/ StoreRefresh(t)
         \/ DiscardRefresh(t) \/ RefreshRejected(t) \/ RefreshTransient(t)
  PROVE  AnswerInv'
<1>1. \A e \in {"reauth", "tier", "unavailable", "panic"} : Given(Err(e))
    BY DEF Given, Err
<1>2. Given(Err(ErrorOf(state)))
    BY <1>1, ErrorOfType
<1>3. AccessStillFresh \/ HardValid => Given(Ok(accessToken))
    BY DEF AccessStillFresh, HardValid, Given, Ok
<1>4. CASE RefreshSkipped(t)
  <2>1. \E r : Given(r) /\ FlightDone(t, r)
      BY <1>1, <1>2, <1>3, <1>4 DEF RefreshSkipped
  <2> QED
      BY <2>1, FlightDoneGives DEF IInv
<1>5. CASE RecoverPanic(t)
    BY <1>1, <1>5, FlightDoneGives DEF IInv, RecoverPanic
<1>6. CASE StoreRefresh(t)
  <2>1. Given(Ok(accessToken'))
    <3>1. accessToken' = nAT + 1 /\ nAT \in Nat
        BY <1>6, SessionAssumption DEF IInv, TypeOK, StoreRefresh, ATs
    <3> QED
        BY <3>1 DEF Given, Ok
  <2> QED
      BY <1>6, <2>1, FlightDoneGives DEF IInv, StoreRefresh
<1>7. CASE DiscardRefresh(t)
    BY <1>1, <1>2, <1>7, FlightDoneGives DEF IInv, DiscardRefresh
<1>8. CASE RefreshRejected(t)
    BY <1>1, <1>8, FlightDoneGives DEF IInv, RefreshRejected
<1>9. CASE RefreshTransient(t)
    BY <1>1, <1>3, <1>9, FlightDoneGives DEF IInv, RefreshTransient
<1> QED
    BY <1>4, <1>5, <1>6, <1>7, <1>8, <1>9

\* The other steps answer nobody, or with what a finished flight gives.
LEMMA NextAnswerInv ==
  ASSUME IInv, AnswerInv, [Next]_vars
  PROVE  AnswerInv'
<1>1. ASSUME NEW t \in Threads, Begin(t) PROVE AnswerInv'
    BY <1>1, GetAccessTokenGives
       DEF Begin, IInv, TypeOK, AnswerInv, CallHandoff, Clear
<1>2. ASSUME NEW t \in Threads, Proceed(t) PROVE AnswerInv'
    BY <1>2, FlightGives
       DEF Proceed, IInv, TypeOK, AnswerInv, LeadFlight, JoinFlight, JoinFinished,
           FlightDelete, Return, Running, NoCall
<1>3. ASSUME NEW t \in Threads, Acquire(t) PROVE AnswerInv'
    BY <1>3, FlightGives
       DEF Acquire, IInv, TypeOK, AnswerInv, RefreshSend, Handoff, HandoffRefused
<1>4. ASSUME NEW t \in Threads, CallEnds(t) PROVE AnswerInv'
    BY <1>4, FlightGives DEF CallEnds, IInv, TypeOK, AnswerInv, IdPAnswer, CallAbandoned
<1>5. ASSUME NEW t \in Threads, EndHandoff(t) PROVE AnswerInv'
    BY <1>5 DEF EndHandoff, IInv, TypeOK, AnswerInv, RestoreHandoff, ReleaseSnapshot
<1>6. ASSUME NEW rt \in wire, IdPLate(rt) PROVE AnswerInv'
    BY <1>6 DEF AnswerInv, IdPLate
<1>7. CASE Tick
    BY <1>7 DEF AnswerInv, Tick
<1>8. CASE UNCHANGED vars
    BY <1>8 DEF AnswerInv, vars
<1> QED
    BY <1>1, <1>2, <1>3, <1>4, <1>5, <1>6, <1>7, <1>8 DEF Next

\* What the SDK makes of an outcome.
LEMMA ClientGetOf ==
  ASSUME NEW r \in Results, Given(r)
  PROVE  /\ r.err = "none" => ClientGet(r) = "token"
         /\ r.err = "reauth" => ClientGet(r) = "ErrReauthRequired"
         /\ r.err = "tier" => ClientGet(r) = "ErrTierDenied"
         /\ r.err \in {"unavailable", "panic"} => ClientGet(r) = "ErrUnavailable"
<1>1. CASE r.err = "none"
  <2>1. TokenAnswer(r).status = 200
      BY <1>1 DEF TokenAnswer, Response
  <2>2. r.tok # 0
      BY <1>1 DEF Given
  <2> QED
      BY <1>1, <2>1, <2>2 DEF ClientGet
<1>2. CASE r.err = "reauth"
  <2>1. TokenAnswer(r).status = 401 /\ TokenAnswer(r).error = "reauth_required"
      BY <1>2 DEF TokenAnswer, Response
  <2> QED
      BY <1>2, <2>1 DEF ClientGet, MapHTTPError
<1>3. CASE r.err = "tier"
  <2>1. TokenAnswer(r).status = 403 /\ TokenAnswer(r).error = "tier_denied"
      BY <1>3 DEF TokenAnswer, Response
  <2> QED
      BY <1>3, <2>1 DEF ClientGet, MapHTTPError
<1>4. CASE r.err \in {"unavailable", "panic"}
  <2>1. TokenAnswer(r).status = 503 /\ TokenAnswer(r).error = "unavailable"
      BY <1>4 DEF TokenAnswer, Response
  <2> QED
      BY <1>4, <2>1 DEF ClientGet, MapHTTPError
<1> QED
    BY <1>1, <1>2, <1>3, <1>4

\* What the SDK reports to a caller of the daemon is true.
THEOREM ToldTrue == ServerSpec => []ClientsToldTrue
<1>1. Spec => []IInv
    BY Inductive
<1>2. Init => AnswerInv
    BY DEF Init, AnswerInv, NoCall
<1>3. Spec => []AnswerInv
    BY <1>1, <1>2, NextAnswerInv, PTL DEF Spec
<1>4. ASSUME IInv, AnswerInv PROVE ClientsToldTrue
  <2> SUFFICES ASSUME NEW t \in Threads, pc[t] = "done"
               PROVE  /\ ClientGet(resp[t]) \in {"token", "ErrUnavailable",
                                                 "ErrReauthRequired", "ErrTierDenied"}
                      /\ ClientGet(resp[t]) \in {"ErrReauthRequired", "ErrTierDenied"}
                           => state \in Dead
      BY DEF ClientsToldTrue
  <2>1. resp[t] \in Results /\ Given(resp[t])
      BY <1>4 DEF IInv, TypeOK, AnswerInv
  <2>2. resp[t].err \in {"none", "reauth", "tier", "unavailable", "panic"}
      BY <2>1 DEF Results, Errors
  <2>3. resp[t].err \in {"reauth", "tier"} => state \in Dead
      BY <1>4 DEF IInv, PermanentErrorsAreTrue
  <2> QED
      BY <2>1, <2>2, <2>3, ClientGetOf
<1>5. ServerSpec => Spec
    BY Uses
<1> QED
    BY <1>1, <1>3, <1>4, <1>5, PTL

\* The daemon does not decide to stop while its session is alive: only a signal
\* or a failed listener takes a usable session down.
THEOREM StopsOnlyWhenOver == ServerSpec => []NeverStopsAlive
<1>1. ServerInit => StopInv
    BY DEF ServerInit, StopInv
<1>2. ServerSpec => []IInv
    BY Uses, Inductive, PTL
<1>3. ASSUME IInv, StopInv PROVE NeverStopsAlive
  <2>1. cleared => state \in Dead
      BY <1>3 DEF IInv, LogoutFinal
  <2>2. exported => state # "ready" /\ \A t \in Threads : snap[t] = NoSnap
      BY <1>3 DEF IInv, SnapInv
  <2> QED
      BY <1>3, <2>1, <2>2 DEF StopInv, NeverStopsAlive, Dead
<1> QED
    BY <1>1, <1>2, <1>3, ServerTypeCorrect, NextStopInv, PTL DEF ServerSpec

\* Between the drain that let the session go and the end of the process nobody
\* uses the refresh token: a late request finds the session empty, and a request
\* at the IdP would still hold opMu.
THEOREM Quiet == ServerSpec => []QuietAfterHandoff
<1>1. ASSUME IInv PROVE QuietAfterHandoff
    BY <1>1, SessionAssumption DEF IInv, LockInv, SnapInv, QuietAfterHandoff
<1> QED
    BY <1>1, Uses, Inductive, PTL

\* Nothing but a logout's own answer takes a logout off the list of requests.
LEMMA NextPending ==
  ASSUME IInv, ServerTypeOK, StopIsPending, [ServerNext]_allVars
  PROVE  StopIsPending'
<1>req. req \in [Threads -> {"none", "token", "logout", "handoff"}]
    BY DEF ServerTypeOK
<1>1. CASE UNCHANGED <<cleared, exported, req, onLogout, shutdownCh, proc>>
    BY <1>1 DEF StopIsPending
<1>2. CASE UNCHANGED allVars \/ Environment
    BY <1>1, <1>2 DEF vars, Environment, Tick, IdPLate
<1>3. CASE ShutdownRequested \/ Signal \/ ServeFails \/ Exit
    BY <1>3 DEF StopIsPending, ShutdownRequested, Signal, ServeFails, Exit, vars
<1>4. ASSUME NEW t \in Threads, HandleToken(t) \/ HandleHandoff(t) \/ HandleLogout(t)
      PROVE  StopIsPending'
  <2>1. req[t] = "none" /\ UNCHANGED <<onLogout, shutdownCh, proc>>
      BY <1>4 DEF HandleToken, HandleHandoff, HandleLogout, Start
  <2>2. CASE HandleLogout(t)
    <3>1. req'[t] = "logout"
        BY <2>2, <1>req DEF HandleLogout, Start
    <3> QED
        BY <3>1 DEF StopIsPending
  <2>3. CASE HandleToken(t) \/ HandleHandoff(t)
    <3>1. \A u \in Threads : req[u] = "logout" => req'[u] = "logout"
        BY <2>1, <2>3, <1>req DEF HandleToken, HandleHandoff, Start
    <3>2. UNCHANGED <<cleared, exported>>
        BY <2>3 DEF HandleToken, HandleHandoff, GetAccessToken, CallHandoff
    <3> QED
        BY <2>1, <3>1, <3>2 DEF StopIsPending
  <2> QED
      BY <1>4, <2>2, <2>3
<1>5. ASSUME NEW t \in Threads, Answer(t) \/ AnswerConflict(t)
      PROVE  StopIsPending'
  <2>1. CASE AnswerLogout(t) \/ HandoffWritten(t)
    <3>1. onLogout' # {}
        BY <2>1 DEF AnswerLogout, HandoffWritten
    <3> QED
        BY <3>1 DEF StopIsPending
  <2>2. CASE AnswerToken(t) \/ HandoffUndelivered(t) \/ AnswerConflict(t)
    <3>1. /\ pc[t] # "idle" /\ req' = [req EXCEPT ![t] = "none"]
          /\ UNCHANGED <<cleared, exported, onLogout, shutdownCh, proc>>
        BY <2>2 DEF AnswerToken, HandoffUndelivered, AnswerConflict, Finish, Return,
           RestoreHandoff, HandoffRefused
    <3>2. \A u \in Threads : req[u] = "logout" => req'[u] = "logout"
        BY <3>1, <1>req DEF ServerTypeOK, HandlerInside
    <3> QED
        BY <3>1, <3>2 DEF StopIsPending
  <2> QED
      BY <1>5, <2>1, <2>2 DEF Answer
<1>6. ASSUME NEW t \in Threads, Inside(t) \/ LockOpMu(t) \/ IdPCall(t)
      PROVE  StopIsPending'
    BY <1>1, <1>6 DEF Inside, LockOpMu, IdPCall, LeadFlight, JoinFlight,
       JoinFinished, FlightDelete, StoreRefresh, DiscardRefresh, RefreshRejected,
       RefreshTransient, RefreshSkipped, RefreshSend, Handoff, CallEnds, IdPAnswer,
       CallAbandoned, RecoverPanic
<1>7. ASSUME NEW t \in Threads, OnLogout(t)
      PROVE  StopIsPending'
    BY <1>7 DEF StopIsPending, OnLogout, vars
<1> QED
    BY <1>2, <1>3, <1>4, <1>5, <1>6, <1>7 DEF ServerNext

\* The shutdown that a logout or a handoff calls for is never dropped: the part
\* of StopsAfterLogout that needs no fairness.
THEOREM Pending == ServerSpec => []StopIsPending
<1>1. ServerInit => StopIsPending
    BY DEF ServerInit, Init, StopIsPending
<1>2. ServerSpec => []IInv
    BY Uses, Inductive, PTL
<1> QED
    BY <1>1, <1>2, ServerTypeCorrect, NextPending, PTL DEF ServerSpec

\* The custody rules survive the handlers and the shutdown loop: over every
\* interleaving of requests the credentials are in one place, and what left the
\* daemon or was wiped does not come back.
THEOREM DaemonKeepsCustody == ServerSpec => CustodyKept
<1> QED
    BY Uses, Implements, PTL

-----------------------------------------------------------------------------
(***************************************************************************)
(* The daemon seen from outside.                                           *)
(***************************************************************************)

\* Steps that change nothing Daemon sees.
LEMMA SeesNothing ==
  ASSUME Life' = Life, Shown' = Shown, Stopping' <=> Stopping
  PROVE  [D!Next]_(D!view)
<1>1. Stopping' = Stopping
    BY Zenon DEF Stopping
<1> QED
    BY <1>1, Zenon DEF D!view

\* A drain.
LEMMA SeesDrain ==
  ASSUME Life' = Life, Life \in {"serving", "closing"}, Shown = "ready",
         Shown' = "handed_off", Stopping' <=> Stopping
  PROVE  [D!Next]_(D!view)
<1>1. Stopping' = Stopping
    BY Zenon DEF Stopping
<1>2. D!Drain
    BY <1>1, Zenon DEF D!Drain, D!Up
<1> QED
    BY <1>2, Zenon DEF D!Next

\* A rollback.
LEMMA SeesRestore ==
  ASSUME Life' = Life, Life \in {"serving", "closing"}, Shown = "handed_off",
         Shown' = "ready", ~Stopping, ~Stopping'
  PROVE  [D!Next]_(D!view)
<1>1. Stopping' = Stopping
    BY Zenon DEF Stopping
<1>2. D!Restore
    BY <1>1, Zenon DEF D!Restore, D!Up
<1> QED
    BY <1>2, Zenon DEF D!Next

\* A terminal refresh failure.
LEMMA SeesDie ==
  ASSUME Life' = Life, Life \in {"serving", "closing"}, Shown = "ready",
         Shown' = "dead", Stopping' <=> Stopping
  PROVE  [D!Next]_(D!view)
<1>1. Stopping' = Stopping
    BY Zenon DEF Stopping
<1>2. D!Die
    BY <1>1, Zenon DEF D!Die, D!Up
<1> QED
    BY <1>2, Zenon DEF D!Next

\* A logout.
LEMMA SeesLogout ==
  ASSUME Life' = Life, Life \in {"serving", "closing"}, Shown' = "dead",
         Stopping' <=> Stopping
  PROVE  [D!Next]_(D!view)
<1>1. Stopping' = Stopping
    BY Zenon DEF Stopping
<1>2. D!Logout
    BY <1>1, Zenon DEF D!Logout, D!Up
<1> QED
    BY <1>2, Zenon DEF D!Next

\* The decision to stop.
LEMMA SeesStop ==
  ASSUME Life' = Life, Life \in {"serving", "closing"}, Shown \in {"handed_off", "dead"},
         Shown' = Shown, Stopping'
  PROVE  [D!Next]_(D!view)
<1>1. Stopping' = TRUE
    BY Zenon DEF Stopping
<1>2. D!Stop
    BY <1>1, Zenon DEF D!Stop, D!Up
<1> QED
    BY <1>2, Zenon DEF D!Next

\* The listener closes.
LEMMA SeesClose ==
  ASSUME Life = "serving", Life' = "closing", Shown' = Shown, Stopping' <=> Stopping
  PROVE  [D!Next]_(D!view)
<1>1. Stopping' = Stopping
    BY Zenon DEF Stopping
<1>2. D!Close
    BY <1>1, Zenon DEF D!Close
<1> QED
    BY <1>2, Zenon DEF D!Next

\* The process ends.
LEMMA SeesEnd ==
  ASSUME Life \in {"serving", "closing"}, Life' = "gone", Shown' = "none", ~Stopping'
  PROVE  [D!Next]_(D!view)
<1>1. Stopping' = FALSE
    BY Zenon DEF Stopping
<1>2. D!End
    BY <1>1, Zenon DEF D!End
<1> QED
    BY <1>2, Zenon DEF D!Next

\* While the process runs, a step that leaves the session's state and the
\* shutdown alone shows nothing.
LEMMA SameShown ==
  ASSUME UNCHANGED <<state, proc, onLogout, shutdownCh, cause>>
  PROVE  [D!Next]_(D!view)
<1>1. Life' = Life /\ Shown' = Shown
    BY DEF Life, Shown
<1>2. Stopping' <=> Stopping
    BY DEF Stopping
<1> QED
    BY <1>1, <1>2, SeesNothing

\* What Daemon sees of a running process.
LEMMA RunningView ==
  ASSUME ServerTypeOK, proc # "exited"
  PROVE  /\ Life = proc /\ Life \in {"serving", "closing"}
         /\ state = "ready" => Shown = "ready"
         /\ state = "handed_off" => Shown = "handed_off"
         /\ state \in Dead => Shown = "dead"
BY DEF ServerTypeOK, Life, Shown, Dead

\* Every step of the daemon is a step of Daemon or not seen.
LEMMA DaemonStep ==
  ASSUME IInv, ServerTypeOK, StopInv, [ServerNext]_allVars
  PROVE  [D!Next]_(D!view)
<1>1. CASE UNCHANGED allVars
    BY <1>1, SameShown DEF vars
<1>2. CASE Environment
    BY <1>2, SameShown DEF Environment, Tick, IdPLate
<1>3. CASE ShutdownRequested \/ Signal \/ ServeFails
  <2>1. proc = "serving" /\ proc' = "closing" /\ state' = state /\ onLogout' = onLogout
      BY <1>3 DEF ShutdownRequested, Signal, ServeFails, vars
  <2>2. Life = "serving" /\ Life' = "closing" /\ Shown' = Shown
      BY <2>1 DEF Life, Shown
  <2>3. CASE ShutdownRequested
    <3>1. Stopping /\ Stopping'
        BY <2>1, <2>3 DEF Stopping, ShutdownRequested, StopInv
    <3> QED
        BY <2>2, <3>1, SeesClose
  <2>4. CASE Signal \/ ServeFails
    <3>1. Stopping' <=> Stopping
        BY <2>1, <2>4 DEF Stopping, Signal, ServeFails, StopInv
    <3> QED
        BY <2>2, <3>1, SeesClose
  <2> QED
      BY <1>3, <2>3, <2>4
<1>4. CASE Exit
  <2>1. Life \in {"serving", "closing"} /\ Life' = "gone" /\ Shown' = "none" /\ ~Stopping'
      BY <1>4 DEF Exit, Life, Shown, Stopping
  <2> QED
      BY <2>1, SeesEnd
<1>5. ASSUME NEW t \in Threads,
             HandleToken(t) \/ HandleHandoff(t) \/ AnswerToken(t) \/ AnswerConflict(t)
      PROVE  [D!Next]_(D!view)
  <2>1. UNCHANGED <<state, proc, onLogout, shutdownCh, cause>>
      BY <1>5 DEF HandleToken, HandleHandoff, AnswerToken, AnswerConflict, Start, Finish,
         GetAccessToken, CallHandoff, Return, HandoffRefused
  <2> QED
      BY <2>1, SameShown
<1>6. ASSUME NEW t \in Threads, HandleLogout(t)
      PROVE  [D!Next]_(D!view)
  <2>1. /\ proc # "exited" /\ state' = "reauth_required"
        /\ UNCHANGED <<proc, onLogout, shutdownCh, cause>>
      BY <1>6 DEF HandleLogout, Start, Clear
  <2>2. Life \in {"serving", "closing"} /\ Life' = Life /\ Shown' = "dead"
      BY <2>1, RunningView DEF Life, Shown, Dead
  <2>3. Stopping' <=> Stopping
      BY <2>1 DEF Stopping
  <2> QED
      BY <2>2, <2>3, SeesLogout
<1>7. ASSUME NEW t \in Threads, AnswerLogout(t) \/ HandoffWritten(t)
      PROVE  [D!Next]_(D!view)
  <2>1. /\ proc # "exited" /\ t \in onLogout' /\ UNCHANGED <<state, proc>>
      BY <1>7 DEF AnswerLogout, HandoffWritten, ReleaseSnapshot, Finish, vars
  <2>2. state \in Dead \cup {"handed_off"}
    <3>1. CASE AnswerLogout(t)
        BY <3>1 DEF AnswerLogout, StopInv, IInv, LogoutFinal
    <3>2. CASE HandoffWritten(t)
        BY <3>2 DEF HandoffWritten, ReleaseSnapshot, IInv, SnapInv, Dead
    <3> QED
        BY <1>7, <3>1, <3>2
  <2>3. Life \in {"serving", "closing"} /\ Shown \in {"handed_off", "dead"}
      BY <2>1, <2>2, RunningView
  <2>4. Life' = Life /\ Shown' = Shown
      BY <2>1 DEF Life, Shown
  <2>5. Stopping'
      BY <2>1 DEF Stopping
  <2> QED
      BY <2>3, <2>4, <2>5, SeesStop
<1>8. ASSUME NEW t \in Threads, HandoffUndelivered(t)
      PROVE  [D!Next]_(D!view)
  <2>1. /\ proc # "exited" /\ pc[t] = "snapshot"
        /\ UNCHANGED <<proc, onLogout, shutdownCh, cause>>
      BY <1>8 DEF HandoffUndelivered, RestoreHandoff, Finish
  <2>2. CASE state = "handed_off" /\ state' = "ready"
    <3>1. ~exported /\ ~cleared
        BY <2>1, <2>2 DEF IInv, SnapInv, LogoutFinal, Dead
    <3>2. ~Stopping /\ ~Stopping'
        BY <2>1, <3>1 DEF StopInv, Stopping
    <3>3. Life' = Life /\ Shown' = "ready"
        BY <2>1, <2>2 DEF Life, Shown, Dead
    <3> QED
        BY <2>1, <2>2, <3>2, <3>3, RunningView, SeesRestore
  <2>3. CASE state' = state
      BY <2>1, <2>3, SameShown
  <2> QED
      BY <1>8, <2>2, <2>3 DEF HandoffUndelivered, RestoreHandoff, StillHandedOff
<1>9. ASSUME NEW t \in Threads, Inside(t) \/ LockOpMu(t) \/ IdPCall(t)
      PROVE  [D!Next]_(D!view)
  <2>1. proc # "exited" /\ UNCHANGED <<proc, onLogout, shutdownCh, cause>>
      BY <1>9 DEF Inside, LockOpMu, IdPCall
  <2>2. Life' = Life /\ (Stopping' <=> Stopping)
      BY <2>1 DEF Life, Stopping
  <2>3. CASE state' = state
      BY <2>1, <2>3, SameShown
  <2>4. CASE state = "ready" /\ state' \in Dead
    <3>1. Shown' = "dead"
        BY <2>1, <2>4 DEF Shown
    <3> QED
        BY <2>1, <2>2, <2>4, <3>1, RunningView, SeesDie
  <2>5. CASE state \in Dead /\ state' \in Dead
    <3>1. Shown' = Shown
        BY <2>1, <2>5 DEF Shown
    <3> QED
        BY <2>2, <3>1, SeesNothing
  <2>6. CASE state = "ready" /\ state' = "handed_off"
    <3>1. Shown' = "handed_off"
        BY <2>1, <2>6 DEF Shown, Dead
    <3> QED
        BY <2>1, <2>2, <2>6, <3>1, RunningView, SeesDrain
  <2>7. CASE RefreshRejected(t)
    <3>1. opMu = t
        BY <2>7 DEF RefreshRejected, IInv, LockInv
    <3>2. state \in {"ready", "reauth_required"} /\ state' \in Dead
        BY <2>7, <3>1 DEF RefreshRejected, IInv, LockInv, Dead
    <3> QED
        BY <2>4, <2>5, <3>2 DEF Dead
  <2>8. CASE RefreshSkipped(t) \/ DiscardRefresh(t) \/ StoreRefresh(t) \/ Handoff(t)
      BY <2>3, <2>4, <2>6, <2>8 DEF RefreshSkipped, DiscardRefresh, StoreRefresh, Handoff,
         StillReady, Dead
  <2> QED
      BY <1>9, <2>3, <2>7, <2>8 DEF Inside, LockOpMu, IdPCall, LeadFlight, JoinFlight,
         JoinFinished, FlightDelete, RefreshTransient, RefreshSend, CallEnds, IdPAnswer,
         CallAbandoned, RecoverPanic
<1>10. ASSUME NEW t \in Threads, OnLogout(t)
       PROVE  [D!Next]_(D!view)
  <2>1. /\ proc # "exited" /\ t \in onLogout /\ shutdownCh' /\ UNCHANGED <<proc, state>>
      BY <1>10 DEF OnLogout, vars
  <2>2. Stopping /\ Stopping'
      BY <2>1 DEF Stopping
  <2>3. Life' = Life /\ Shown' = Shown
      BY <2>1 DEF Life, Shown
  <2> QED
      BY <2>2, <2>3, SeesNothing
<1> QED
    BY <1>1, <1>2, <1>3, <1>4, <1>5, <1>6, <1>7, <1>8, <1>9, <1>10 DEF ServerNext, Answer

\* The daemon process (runServer, handleLogout, handleHandoff) implements Daemon:
\* the coarse daemons that Takeover composes stand for it.
THEOREM ServerIsDaemon == ServerSpec => IsDaemon
<1>1. ServerInit => D!Init
  <2> SUFFICES ASSUME ServerInit PROVE D!Init
      OBVIOUS
  <2>1. Life = "serving" /\ Shown = "ready"
      BY DEF ServerInit, Init, Life, Shown, Dead
  <2>2. ~Stopping
      BY DEF ServerInit, Stopping
  <2>3. Stopping = FALSE
      BY <2>2, Zenon DEF Stopping
  <2> QED
      BY <2>1, <2>3, Zenon DEF D!Init
<1>2. ServerInit => StopInv
    BY DEF ServerInit, StopInv
<1>3. ServerSpec => []IInv
    BY Uses, Inductive, PTL
<1> QED
    BY <1>1, <1>2, <1>3, ServerTypeCorrect, NextStopInv, DaemonStep, PTL
       DEF ServerSpec, IsDaemon, D!Spec

=============================================================================
