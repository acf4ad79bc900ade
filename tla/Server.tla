------------------------------- MODULE Server -------------------------------
(***************************************************************************)
(* The daemon around a session: the HTTP handlers of                       *)
(* internal/server/server.go and the shutdown loop of runServer in         *)
(* cmd/xai-oauth/serve.go.  Every handler goroutine drives the actions of  *)
(* Session; this module adds which request it serves, what became of a     *)
(* handoff body, and when the process stops.                               *)
(*                                                                         *)
(* Requests that fail checkSecret, and /health, /ready and /status, read   *)
(* the session at most and are not actions.                                *)
(***************************************************************************)
EXTENDS Session

VARIABLES
  req,         \* the request each goroutine serves, or "none"
  onLogout,    \* goroutines whose "go s.OnLogout()" has not run yet
  shutdownCh,  \* the channel of capacity one that runServer waits on is full
  proc,        \* "serving", "closing" (httpSrv.Shutdown) or "exited"
  cause,       \* history: what ended runServer's wait: "none" yet, "logout" (or
               \* a handoff), "signal", or "failed" (httpSrv.Serve)
  body         \* history: what became of the handoff body: "none" was sent,
               \* "lost", "received", or "received_after_logout"

serverVars == <<req, onLogout, shutdownCh, proc, cause, body>>

allVars == <<vars, serverVars>>

\* runServer: the listener is bound and the session is ready.
ServerInit ==
  /\ Init
  /\ req = [t \in Threads |-> "none"]
  /\ onLogout = {}
  /\ shutdownCh = FALSE
  /\ proc = "serving"
  /\ cause = "none"
  /\ body = "none"

-----------------------------------------------------------------------------
(***************************************************************************)
(* Handlers.                                                               *)
(***************************************************************************)

\* A goroutine starts on a request that carries the right secret.  Its connection
\* was accepted before the listener closed, but the handler may begin after that:
\* Shutdown lets it run.
Start(t, r) ==
  /\ proc # "exited" /\ req[t] = "none"
  /\ req' = [req EXCEPT ![t] = r]
  /\ UNCHANGED <<onLogout, shutdownCh, proc, cause, body>>

\* The handler has written its answer and returns.
Finish(t) == proc # "exited" /\ req' = [req EXCEPT ![t] = "none"]

HandleToken(t) == Start(t, "token") /\ GetAccessToken(t)

\* A response of the daemon.
Response(status, error) == [status |-> status, error |-> error]

\* Mutant: an unknown error, such as a recovered panic, asks for a login.
PanicAsReauth(r) ==
  CASE r.err = "none"        -> Response(200, "")
    [] r.err = "tier"        -> Response(403, "tier_denied")
    [] r.err = "unavailable" -> Response(503, "unavailable")
    [] OTHER                 -> Response(401, "reauth_required")

\* The answer /token gives for each outcome of GetAccessToken.
TokenAnswer(r) ==
  CASE r.err = "none"   -> Response(200, "")
    [] r.err = "reauth" -> Response(401, "reauth_required")
    [] r.err = "tier"   -> Response(403, "tier_denied")
    [] OTHER            -> Response(503, "unavailable")

\* mapHTTPError of the SDK: the error a caller can test for.  The 401 of
\* checkSecret and the 401 of a dead session differ only in their code.
MapHTTPError(a) ==
  CASE a.status = 401 /\ a.error = "reauth_required"     -> "ErrReauthRequired"
    [] a.status = 401 /\ a.error \in {"unauthorized", ""} -> "ErrUnauthorized"
    [] a.status = 403 /\ a.error = "tier_denied"         -> "ErrTierDenied"
    [] a.status = 503 \/ a.error = "unavailable"         -> "ErrUnavailable"
    [] OTHER                                            -> "unknown"

\* Client.Get, when the daemon's answer to an outcome of GetAccessToken arrives.
ClientGet(r) ==
  LET a == TokenAnswer(r) IN
  IF a.status # 200 THEN MapHTTPError(a)
  ELSE IF r.tok = 0 THEN "empty" ELSE "token"

AnswerToken(t) ==
  /\ Finish(t)
  /\ Return(t)
  /\ UNCHANGED <<onLogout, shutdownCh, proc, cause, body>>

\* Logout clears the session at once.
HandleLogout(t) == Start(t, "logout") /\ Clear(t)

\* Mutant: the daemon stays up after a logout.
ForgetOnLogout(t) ==
  /\ Finish(t)
  /\ req[t] = "logout"
  /\ UNCHANGED <<vars, onLogout, shutdownCh, proc, cause, body>>

\* It answers 200, then schedules the shutdown.
AnswerLogout(t) ==
  /\ Finish(t)
  /\ req[t] = "logout"
  /\ onLogout' = onLogout \cup {t}
  /\ UNCHANGED <<vars, shutdownCh, proc, cause, body>>

HandleHandoff(t) == Start(t, "handoff") /\ CallHandoff(t)

\* Mutant: the return after the 409 is missing.
ConflictFallsThrough(t) ==
  /\ proc # "exited"
  /\ HandoffRefused(t)
  /\ UNCHANGED serverVars

\* The session is not ready for a handoff: 409.
AnswerConflict(t) ==
  /\ Finish(t)
  /\ HandoffRefused(t)
  /\ UNCHANGED <<onLogout, shutdownCh, proc, cause, body>>

\* Mutant: a handoff that was rolled back stops the daemon all the same.
UndeliveredStops(t) ==
  /\ Finish(t)
  /\ RestoreHandoff(t)
  /\ onLogout' = onLogout \cup {t}
  /\ UNCHANGED <<shutdownCh, proc, cause, body>>

\* Marshal or Write failed: roll back and keep serving.
HandoffUndelivered(t) ==
  /\ Finish(t)
  /\ RestoreHandoff(t)
  /\ UNCHANGED <<onLogout, shutdownCh, proc, cause, body>>

\* Write succeeded, which only means that net/http has buffered the body:
\* whether it reaches the successor is settled by the Flush, whose failure
\* nobody sees.  Either way the shutdown is scheduled.
HandoffWritten(t) ==
  /\ Finish(t)
  /\ ReleaseSnapshot(t)
  /\ body' \in {"lost", IF cleared THEN "received_after_logout" ELSE "received"}
  /\ onLogout' = onLogout \cup {t}
  /\ UNCHANGED <<shutdownCh, proc, cause>>

-----------------------------------------------------------------------------
(***************************************************************************)
(* Steps inside the session, while the process lives.                      *)
(***************************************************************************)

Inside(t) ==
  /\ proc # "exited"
  /\ \/ LeadFlight(t) \/ JoinFlight(t) \/ JoinFinished(t) \/ FlightDelete(t)
     \/ StoreRefresh(t) \/ DiscardRefresh(t) \/ RefreshRejected(t)
     \/ RefreshTransient(t)
  /\ UNCHANGED serverVars

LockOpMu(t) ==
  /\ proc # "exited"
  /\ RefreshSkipped(t) \/ RefreshSend(t) \/ Handoff(t)
  /\ UNCHANGED serverVars

IdPCall(t) ==
  /\ proc # "exited"
  /\ CallEnds(t)
  /\ UNCHANGED serverVars

Environment ==
  /\ proc # "exited"
  /\ Tick \/ \E rt \in wire : IdPLate(rt)
  /\ UNCHANGED serverVars

-----------------------------------------------------------------------------
(***************************************************************************)
(* runServer's shutdown.                                                   *)
(***************************************************************************)

\* OnLogout runs: the send is dropped when the channel is full.
OnLogout(t) ==
  /\ proc # "exited" /\ t \in onLogout
  /\ onLogout' = onLogout \ {t}
  /\ shutdownCh' = TRUE
  /\ UNCHANGED <<vars, req, proc, cause, body>>

\* runServer takes the message and calls Shutdown: no new requests.
ShutdownRequested ==
  /\ proc = "serving" /\ shutdownCh
  /\ proc' = "closing" /\ shutdownCh' = FALSE /\ cause' = "logout"
  /\ UNCHANGED <<vars, req, onLogout, body>>

\* SIGINT or SIGTERM.
Signal ==
  /\ proc = "serving"
  /\ proc' = "closing" /\ cause' = "signal"
  /\ UNCHANGED <<vars, req, onLogout, shutdownCh, body>>

\* httpSrv.Serve returns an error and closes the listener: runServer returns it,
\* without a Shutdown, and handlers run on until the process has ended.
ServeFails ==
  /\ proc = "serving"
  /\ proc' = "closing" /\ cause' = "failed"
  /\ UNCHANGED <<vars, req, onLogout, shutdownCh, body>>

\* Shutdown returns, when every request is done or after five seconds, and the
\* process ends with whatever it still held.
Exit ==
  /\ proc = "closing"
  /\ proc' = "exited"
  /\ UNCHANGED <<vars, req, onLogout, shutdownCh, cause, body>>

-----------------------------------------------------------------------------
Answer(t) ==
  \/ AnswerToken(t) \/ AnswerLogout(t) \/ HandoffUndelivered(t) \/ HandoffWritten(t)

ServerNext ==
  \/ \E t \in Threads :
       \/ HandleToken(t) \/ HandleLogout(t) \/ HandleHandoff(t)
       \/ Answer(t) \/ AnswerConflict(t)
       \/ Inside(t) \/ LockOpMu(t) \/ IdPCall(t)
       \/ OnLogout(t)
  \/ Environment \/ ShutdownRequested \/ Signal \/ ServeFails \/ Exit

ServerSpec == ServerInit /\ [][ServerNext]_allVars

\* The fairness of Session, for the handlers and for runServer's own steps.
\* Nothing obliges a client to send a request.
ServerFairness ==
  /\ \A t \in Threads :
       /\ WF_allVars(Answer(t)) /\ WF_allVars(Inside(t)) /\ WF_allVars(IdPCall(t))
       /\ SF_allVars(LockOpMu(t) \/ AnswerConflict(t))
       /\ WF_allVars(OnLogout(t))
  /\ WF_allVars(ShutdownRequested)
  /\ WF_allVars(Exit)

ServerFairSpec == ServerSpec /\ ServerFairness

-----------------------------------------------------------------------------
(***************************************************************************)
(* Properties.                                                             *)
(***************************************************************************)

\* A goroutine is inside the session exactly where the handler of its request
\* has called it.
HandlerInside ==
  \A t \in Threads :
    /\ req[t] \in {"none", "logout"} => pc[t] = "idle"
    /\ req[t] = "handoff" <=> pc[t] \in {"hwait", "snapshot"}

\* The types of the variables, and that every handler returns once it has
\* answered.
ServerTypeOK ==
  /\ req \in [Threads -> {"none", "token", "logout", "handoff"}]
  /\ HandlerInside
  /\ onLogout \subseteq Threads
  /\ proc \in {"serving", "closing", "exited"}
  /\ shutdownCh \in BOOLEAN
  /\ cause \in {"none", "logout", "signal", "failed"}
  /\ body \in {"none", "lost", "received", "received_after_logout"}

\* The daemon never decides to stop while its session is alive: a shutdown is
\* scheduled only by a logout or by a handoff that cannot be rolled back any
\* more.  A usable session, or one in a body not yet written, goes down only with
\* a signal or a listener that failed.
NeverStopsAlive ==
  onLogout # {} \/ shutdownCh \/ cause = "logout"
    => state # "ready" /\ \A t \in Threads : snap[t] = NoSnap \/ state \in Dead

\* What a client is told is true: the SDK reports ErrReauthRequired or
\* ErrTierDenied only of a session that is over, takes no answer to the right
\* secret for a wrong secret or an unknown failure, and a 200 carries a token,
\* however logouts, handoffs, panics and failed refreshes meet the request.
ClientsToldTrue ==
  \A t \in Threads : pc[t] = "done" =>
    /\ ClientGet(resp[t]) \in {"token", "ErrUnavailable", "ErrReauthRequired", "ErrTierDenied"}
    /\ ClientGet(resp[t]) \in {"ErrReauthRequired", "ErrTierDenied"} => state \in Dead

\* The shutdown that a logout or a handoff calls for is never forgotten: the
\* handler has yet to schedule it, its goroutine has yet to run, the message is
\* in the channel of capacity one (where a second one is dropped), or the
\* listener is closing.
StopIsPending ==
  cleared \/ exported =>
    \/ \E t \in Threads : req[t] = "logout"
    \/ onLogout # {}
    \/ shutdownCh
    \/ proc # "serving"

\* Once a successor may have the session, no request left inside the daemon, also
\* while Shutdown waits for it, is at the IdP with the refresh token or has an
\* answer to install.
QuietAfterHandoff ==
  exported => \A t \in Threads : pc[t] \notin {"call", "reply"}

\* After a logout, and after a handoff, the daemon goes away.
StopsAfterLogout == cleared \/ exported ~> proc = "exited"

\* Every request is answered, unless the process ends first.
RequestsAnswered ==
  \A t \in Threads : req[t] # "none" ~> req[t] = "none" \/ proc = "exited"

\* The decision to stop, from "go s.OnLogout()" to the end of Shutdown.
Stopping ==
  /\ proc # "exited"
  /\ onLogout # {} \/ shutdownCh \/ cause = "logout"

\* What Daemon sees of the process and of its session.
Life  == IF proc = "exited" THEN "gone" ELSE proc
Shown == IF proc = "exited" THEN "none" ELSE IF state \in Dead THEN "dead" ELSE state

D == INSTANCE Daemon WITH life <- Life, session <- Shown, stopping <- Stopping

\* Seen from outside, the process is the daemon that module Daemon describes: in
\* particular a handoff is rolled back only while no stop is scheduled, over all
\* interleavings of handlers, refreshes and shutdown, late logouts included.
IsDaemon == D!Spec

(***************************************************************************)
(* A statement of the repository's documents that the code does not keep.  *)
(***************************************************************************)

\* "a logout that raced the handoff must not be resurrected".
LogoutNotResurrected == body # "received_after_logout"

=============================================================================
