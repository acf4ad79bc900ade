------------------------------ MODULE Takeover ------------------------------
(***************************************************************************)
(* Several `xai-oauth serve` invocations on one socket path: cmdServe,     *)
(* runServer and spawnBackgroundDaemon of cmd/xai-oauth/serve.go, the      *)
(* takeover client of cmd/xai-oauth/takeover.go, and ListenUnix and        *)
(* RemoveUnixSocket of internal/server/listen.go.                          *)
(*                                                                         *)
(* A serve s is a command-line process (cli) and the daemon it starts, in  *)
(* the background or, with --foreground, in the same process.  A login is  *)
(* named after the serve that performed it.  The session inside a daemon   *)
(* is what module Session makes of it: ready, handed_off or dead.  The     *)
(* path names the daemon whose bind created the file there; it accepts     *)
(* connections while that daemon is serving, and is a stale leftover when  *)
(* the daemon died without removing it.                                    *)
(***************************************************************************)
EXTENDS Naturals

CONSTANTS
  Serves,      \* invocations of serve
  NoOne,       \* no daemon, no login, no file
  EnvSecrets,  \* values of XAI_OAUTH_SECRET, all long enough
  Unset,       \* XAI_OAUTH_SECRET is not set
  MaxFaults    \* bound: crashes, signals, failed listeners, lost answers and
               \* false timeouts

ASSUME TakeoverAssumption ==
  /\ NoOne \notin Serves
  /\ Unset \notin EnvSecrets \cup Serves
  /\ MaxFaults \in Nat

VARIABLES
  cli,       \* where the command-line process is
  sec,       \* cmdServe's sec; a generated secret is named after the serve
  conn,      \* the daemon that its POST /handoff or /logout reached
  transit,   \* the login in the handoff body on its way to the serve
  cred,      \* the login the command-line process holds
  replace,   \* replaceDead
  daemon,    \* where the daemon process is
  sess,      \* the state of the daemon's session
  held,      \* the login that session holds
  stop,      \* OnLogout was scheduled in the daemon
  path,      \* the socket file
  faults,    \* faults so far
  stoppedReady  \* history: a serve has stopped a daemon that was ready

cliVars    == <<cli, sec, conn, transit, cred, replace>>
daemonVars == <<daemon, sess, held, stop>>
vars       == <<cliVars, daemonVars, path, faults, stoppedReady>>

CliPCs    == {"idle", "probe", "handoff", "posted", "transit", "login", "logout",
              "logout_posted", "logout_wait", "spawn", "waiting", "foreground",
              "ok", "failed"}
DaemonPCs == {"none", "listen", "check", "remove", "bind", "serving", "closing",
              "failing", "gone"}

\* A process that has bound its listener: the requests accepted so far are
\* served, also when the listener has been closed.
Up == {"serving", "closing", "failing"}

Init ==
  /\ cli = [s \in Serves |-> "idle"]
  /\ sec \in [Serves -> EnvSecrets \cup {Unset}]
  /\ conn = [s \in Serves |-> NoOne]
  /\ transit = [s \in Serves |-> NoOne]
  /\ cred = [s \in Serves |-> NoOne]
  /\ replace = [s \in Serves |-> FALSE]
  /\ daemon = [s \in Serves |-> "none"]
  /\ sess = [s \in Serves |-> "none"]
  /\ held = [s \in Serves |-> NoOne]
  /\ stop = [s \in Serves |-> FALSE]
  /\ path = NoOne
  /\ faults = 0
  /\ stoppedReady = FALSE

-----------------------------------------------------------------------------
Goto(s, to) == cli' = [cli EXCEPT ![s] = to]
Run(d, to)  == daemon' = [daemon EXCEPT ![d] = to]

\* A connect to the path succeeds, and reaches this daemon.
Accepting(d) == path = d /\ daemon[d] = "serving"
Answers      == \E d \in Serves : Accepting(d)

\* Mutant: any secret is accepted.
AnySecret(s, d) == TRUE

\* checkSecret: the daemon's secret is that of the serve that started it.
CheckSecret(s, d) == sec[s] = sec[d]

\* Mutant: no secret is generated.
KeepUnset(s) == sec' = sec

\* cmdServe generates a secret when none is set.
GenerateSecret(s) == sec' = [sec EXCEPT ![s] = IF @ = Unset THEN s ELSE @]

\* One of the faults the bound allows.
Fault == faults < MaxFaults /\ faults' = faults + 1

\* cmdServe returns an error; what it held is dropped.
Fail(s) ==
  /\ Goto(s, "failed")
  /\ cred' = [cred EXCEPT ![s] = NoOne]
  /\ transit' = [transit EXCEPT ![s] = NoOne]
  /\ conn' = [conn EXCEPT ![s] = NoOne]

-----------------------------------------------------------------------------
(***************************************************************************)
(* cmdServe up to the point where it has a session to serve.               *)
(***************************************************************************)

Invoke(s) ==
  /\ cli[s] = "idle"
  /\ Goto(s, "probe")
  /\ UNCHANGED <<sec, conn, transit, cred, replace, daemonVars, path, faults,
                 stoppedReady>>

\* daemonAlive says yes: take over, or refuse without a secret.
FoundDaemon(s) ==
  /\ cli[s] = "probe" /\ Answers
  /\ Goto(s, IF sec[s] = Unset THEN "failed" ELSE "handoff")
  /\ UNCHANGED <<sec, conn, transit, cred, replace, daemonVars, path, faults,
                 stoppedReady>>

\* daemonAlive says no: generate a secret if none is set, and log in.
NoDaemon(s) ==
  /\ cli[s] = "probe" /\ ~Answers
  /\ GenerateSecret(s)
  /\ Goto(s, "login")
  /\ UNCHANGED <<conn, transit, cred, replace, daemonVars, path, faults,
                 stoppedReady>>

\* The same, because a live daemon did not answer GET /health in 500 ms.
ProbeTimesOut(s) ==
  /\ cli[s] = "probe" /\ Answers
  /\ Fault
  /\ GenerateSecret(s)
  /\ Goto(s, "login")
  /\ UNCHANGED <<conn, transit, cred, replace, daemonVars, path, stoppedReady>>

\* A request over unixHTTP: whoever answers at the path by now accepts it, or it
\* fails.
Post(s, to) ==
  /\ \/ \E d \in Serves : /\ Accepting(d)
                          /\ conn' = [conn EXCEPT ![s] = d]
                          /\ Goto(s, to)
                          /\ UNCHANGED <<transit, cred>>
     \/ Fail(s)
  /\ UNCHANGED <<sec, replace, daemonVars, path, faults, stoppedReady>>

\* attemptHandoff: POST /handoff.
PostHandoff(s) == cli[s] = "handoff" /\ Post(s, "posted")

\* Mutant: the session stays usable in the daemon that handed it over.
CopySession(s, d) ==
  /\ transit' = [transit EXCEPT ![s] = held[d]]
  /\ UNCHANGED <<sess, held>>

\* Session.Handoff: the login leaves the daemon.
DrainSession(s, d) ==
  /\ transit' = [transit EXCEPT ![s] = held[d]]
  /\ sess' = [sess EXCEPT ![d] = "handed_off"]
  /\ held' = [held EXCEPT ![d] = NoOne]

\* handleHandoff, and the status attemptHandoff sees: 200 follows, 401 or 409
\* with state handed_off is an error, 409 with a dead state means a login.
HandleHandoff(s) ==
  /\ cli[s] = "posted"
  /\ LET d == conn[s] IN
     /\ daemon[d] \in Up
     /\ \/ /\ CheckSecret(s, d) /\ sess[d] = "ready"
           /\ DrainSession(s, d)
           /\ Goto(s, "transit")
           /\ UNCHANGED <<conn, cred, replace>>
        \/ /\ CheckSecret(s, d) /\ sess[d] = "dead"
           /\ replace' = [replace EXCEPT ![s] = TRUE]
           /\ conn' = [conn EXCEPT ![s] = NoOne]
           /\ Goto(s, "login")
           /\ UNCHANGED <<transit, cred, sess, held>>
        \/ /\ ~CheckSecret(s, d) \/ sess[d] = "handed_off"
           /\ Fail(s)
           /\ UNCHANGED <<replace, sess, held>>
  /\ UNCHANGED <<sec, daemon, stop, path, faults, stoppedReady>>

\* Mutant: the old daemon lingers.
ReceivedNoStop(s) ==
  /\ cli[s] = "transit" /\ daemon[conn[s]] # "gone"
  /\ cred' = [cred EXCEPT ![s] = transit[s]]
  /\ transit' = [transit EXCEPT ![s] = NoOne]
  /\ conn' = [conn EXCEPT ![s] = NoOne]
  /\ Goto(s, "spawn")
  /\ UNCHANGED <<sec, replace, daemonVars, path, faults, stoppedReady>>

\* The body arrives; the old daemon schedules its shutdown.
HandoffReceived(s) ==
  /\ cli[s] = "transit" /\ daemon[conn[s]] # "gone"
  /\ cred' = [cred EXCEPT ![s] = transit[s]]
  /\ transit' = [transit EXCEPT ![s] = NoOne]
  /\ stop' = [stop EXCEPT ![conn[s]] = TRUE]
  /\ conn' = [conn EXCEPT ![s] = NoOne]
  /\ Goto(s, "spawn")
  /\ UNCHANGED <<sec, replace, daemon, sess, held, path, faults, stoppedReady>>

\* Mutant: the session comes back whatever has become of the daemon's.
RollBackAlways(s) ==
  /\ cli[s] = "transit" /\ daemon[conn[s]] # "gone"
  /\ Fault
  /\ sess' = [sess EXCEPT ![conn[s]] = "ready"]
  /\ held' = [held EXCEPT ![conn[s]] = transit[s]]
  /\ Fail(s)
  /\ UNCHANGED <<sec, replace, daemon, stop, path, stoppedReady>>

\* Write fails: the daemon takes its session back, unless it was logged out.
HandoffRolledBack(s) ==
  /\ cli[s] = "transit" /\ daemon[conn[s]] # "gone"
  /\ Fault
  /\ LET d == conn[s] IN
     IF sess[d] = "handed_off"
     THEN /\ sess' = [sess EXCEPT ![d] = "ready"]
          /\ held' = [held EXCEPT ![d] = transit[s]]
     ELSE UNCHANGED <<sess, held>>
  /\ Fail(s)
  /\ UNCHANGED <<sec, replace, daemon, stop, path, stoppedReady>>

\* The body is lost after Write: the daemon stops all the same.
HandoffLost(s) ==
  /\ cli[s] = "transit" /\ daemon[conn[s]] # "gone"
  /\ Fault
  /\ stop' = [stop EXCEPT ![conn[s]] = TRUE]
  /\ Fail(s)
  /\ UNCHANGED <<sec, replace, daemon, sess, held, path, stoppedReady>>

\* Mutant: a request nobody answers is waited for without a timeout.
NoClientTimeout(s) ==
  /\ cli[s] = "transit" /\ daemon[conn[s]] = "gone"
  /\ Fail(s)
  /\ UNCHANGED <<sec, replace, daemonVars, path, faults, stoppedReady>>

\* The daemon ends under the request.
RequestBroken(s) ==
  /\ cli[s] \in {"posted", "transit", "logout_posted"} /\ daemon[conn[s]] = "gone"
  /\ Fail(s)
  /\ UNCHANGED <<sec, replace, daemonVars, path, faults, stoppedReady>>

\* deviceLoginHandoff; a dead daemon is stopped only after it succeeded.
Login(s) ==
  /\ cli[s] = "login"
  /\ cred' = [cred EXCEPT ![s] = s]
  /\ Goto(s, IF replace[s] THEN "logout" ELSE "spawn")
  /\ UNCHANGED <<sec, conn, transit, replace, daemonVars, path, faults,
                 stoppedReady>>

LoginFails(s) ==
  /\ cli[s] = "login"
  /\ Fail(s)
  /\ UNCHANGED <<sec, replace, daemonVars, path, faults, stoppedReady>>

\* Session.Clear in daemon d, whose handler schedules the shutdown.
ClearSession(d) ==
  /\ sess' = [sess EXCEPT ![d] = "dead"]
  /\ held' = [held EXCEPT ![d] = NoOne]
  /\ stop' = [stop EXCEPT ![d] = TRUE]

\* logoutOldDaemon: POST /logout, not to the daemon that was found dead but to
\* whoever answers after the login.
PostLogout(s) == cli[s] = "logout" /\ Post(s, "logout_posted")

\* handleLogout in the daemon that accepted it, also when that daemon has closed
\* its listener by now.
HandleLogout(s) ==
  /\ cli[s] = "logout_posted"
  /\ LET d == conn[s] IN
     /\ daemon[d] \in Up
     /\ \/ /\ CheckSecret(s, d)
           /\ ClearSession(d)
           /\ stoppedReady' = (stoppedReady \/ sess[d] = "ready")
           /\ conn' = [conn EXCEPT ![s] = NoOne]
           /\ Goto(s, "logout_wait")
           /\ UNCHANGED <<transit, cred>>
        \/ /\ ~CheckSecret(s, d)
           /\ Fail(s)
           /\ UNCHANGED <<sess, held, stop, stoppedReady>>
  /\ UNCHANGED <<sec, replace, daemon, path, faults>>

\* It polls until nothing answers, and fails after five seconds, or at once when
\* the answer to its POST was lost.
OldDaemonStopped(s) ==
  /\ cli[s] = "logout_wait"
  /\ \/ ~Answers /\ Goto(s, "spawn") /\ UNCHANGED <<transit, cred, conn>>
     \/ Fail(s)
  /\ UNCHANGED <<sec, replace, daemonVars, path, faults, stoppedReady>>

\* A daemon that did not answer GET /health in 500 ms passes for stopped.
StopSeenTooEarly(s) ==
  /\ cli[s] = "logout_wait" /\ Answers
  /\ Fault
  /\ Goto(s, "spawn")
  /\ UNCHANGED <<sec, conn, transit, cred, replace, daemonVars, path, stoppedReady>>

-----------------------------------------------------------------------------
(***************************************************************************)
(* The daemon: spawnBackgroundDaemon or --foreground, then runServer.      *)
(***************************************************************************)

\* The session moves into the daemon process, which starts to listen.
Spawn(s) ==
  /\ cli[s] = "spawn"
  /\ \E mode \in {"waiting", "foreground"} : Goto(s, mode)
  /\ Run(s, "listen")
  /\ sess' = [sess EXCEPT ![s] = "ready"]
  /\ held' = [held EXCEPT ![s] = cred[s]]
  /\ cred' = [cred EXCEPT ![s] = NoOne]
  /\ UNCHANGED <<sec, conn, transit, replace, stop, path, faults, stoppedReady>>

\* The process ends: its listener closes and its session is gone.
Gone(d) ==
  /\ Run(d, "gone")
  /\ sess' = [sess EXCEPT ![d] = "none"]
  /\ held' = [held EXCEPT ![d] = NoOne]
  /\ stop' = [stop EXCEPT ![d] = FALSE]

\* ... and with it, in the foreground, the command itself.
ForegroundEnds(d, to) ==
  cli' = [cli EXCEPT ![d] = IF @ = "foreground" THEN to ELSE @]

\* ListenUnix, Lstat: is there a socket file?
Lstat(d) ==
  /\ daemon[d] = "listen"
  /\ Run(d, IF path = NoOne THEN "bind" ELSE "check")
  /\ UNCHANGED <<cliVars, sess, held, stop, path, faults, stoppedReady>>

\* ListenUnix, socketAlive: a live listener means ErrSocketInUse, which
\* listenWithRetry waits out.
SocketAlive(d) ==
  /\ daemon[d] = "check"
  /\ Run(d, IF Answers THEN "listen" ELSE "remove")
  /\ UNCHANGED <<cliVars, sess, held, stop, path, faults, stoppedReady>>

\* A live listener whose backlog is full does not take the dial in 250 ms and
\* passes for a stale leftover.
DialTimesOut(d) ==
  /\ daemon[d] = "check" /\ Answers
  /\ Fault
  /\ Run(d, "remove")
  /\ UNCHANGED <<cliVars, sess, held, stop, path, stoppedReady>>

\* Mutant: listenWithRetry has no deadline.
RetryForever(d) ==
  /\ daemon[d] = "check" /\ Answers
  /\ Run(d, "listen")
  /\ UNCHANGED <<cliVars, sess, held, stop, path, faults, stoppedReady>>

\* listenWithRetry gives up once its deadline has passed.
ListenGivesUp(d) ==
  /\ daemon[d] = "check" /\ Answers
  /\ Gone(d)
  /\ ForegroundEnds(d, "failed")
  /\ UNCHANGED <<sec, conn, transit, cred, replace, path, faults, stoppedReady>>

\* ListenUnix, os.Remove: whatever file is there now; an error if none is.
RemoveStale(d) ==
  /\ daemon[d] = "remove"
  /\ IF path = NoOne
     THEN Gone(d) /\ ForegroundEnds(d, "failed")
     ELSE Run(d, "bind") /\ UNCHANGED <<cli, sess, held, stop>>
  /\ path' = NoOne
  /\ UNCHANGED <<sec, conn, transit, cred, replace, faults, stoppedReady>>

\* ListenUnix, net.Listen: fails if the file came back.
Bind(d) ==
  /\ daemon[d] = "bind"
  /\ IF path = NoOne
     THEN Run(d, "serving") /\ path' = d /\ UNCHANGED <<cli, sess, held, stop>>
     ELSE Gone(d) /\ ForegroundEnds(d, "failed") /\ UNCHANGED path
  /\ UNCHANGED <<sec, conn, transit, cred, replace, faults, stoppedReady>>

\* httpSrv.Shutdown: closing the listener unlinks the path by name.
Shutdown(d) ==
  /\ daemon[d] = "serving" /\ stop[d]
  /\ Run(d, "closing")
  /\ path' = NoOne
  /\ UNCHANGED <<cliVars, sess, held, stop, faults, stoppedReady>>

\* The same on SIGINT or SIGTERM.
Signal(d) ==
  /\ daemon[d] = "serving"
  /\ Fault
  /\ Run(d, "closing")
  /\ path' = NoOne
  /\ UNCHANGED <<cliVars, sess, held, stop, stoppedReady>>

\* httpSrv.Serve returns an error and closes the listener: runServer returns it.
ServeFails(d) ==
  /\ daemon[d] = "serving"
  /\ Fault
  /\ Run(d, "failing")
  /\ path' = NoOne
  /\ UNCHANGED <<cliVars, sess, held, stop, stoppedReady>>

\* Shutdown returns, after up to five seconds, and the deferred
\* RemoveUnixSocket removes the path by name once more.
Exit(d) ==
  /\ daemon[d] \in {"closing", "failing"}
  /\ Gone(d)
  /\ ForegroundEnds(d, IF daemon[d] = "closing" THEN "ok" ELSE "failed")
  /\ path' = NoOne
  /\ UNCHANGED <<sec, conn, transit, cred, replace, faults, stoppedReady>>

\* The daemon is killed or crashes: nobody removes the file.
Crash(d) ==
  /\ daemon[d] \notin {"none", "gone"}
  /\ Fault
  /\ Gone(d)
  /\ ForegroundEnds(d, "failed")
  /\ UNCHANGED <<sec, conn, transit, cred, replace, path, stoppedReady>>

\* A refresh is rejected for good; the daemon keeps serving the dead session.
SessionDies(d) ==
  /\ daemon[d] \in Up /\ sess[d] = "ready"
  /\ sess' = [sess EXCEPT ![d] = "dead"]
  /\ held' = [held EXCEPT ![d] = NoOne]
  /\ UNCHANGED <<cliVars, daemon, stop, path, faults, stoppedReady>>

\* `xai-oauth logout`, accepted while the path led to this daemon.
Logout(d) ==
  /\ daemon[d] \in Up
  /\ ClearSession(d)
  /\ UNCHANGED <<cliVars, daemon, path, faults, stoppedReady>>

-----------------------------------------------------------------------------
(***************************************************************************)
(* waitDaemonReady in the parent of a background daemon.                   *)
(***************************************************************************)

\* GET /status at the path reports a ready session under the same secret.
DaemonReady(s) ==
  /\ cli[s] = "waiting"
  /\ \E d \in Serves :
       Accepting(d) /\ CheckSecret(s, d) /\ sess[d] = "ready"
  /\ Goto(s, "ok")
  /\ UNCHANGED <<sec, conn, transit, cred, replace, daemonVars, path, faults,
                 stoppedReady>>

\* Mutant: the child is left running.
FailWithoutKill(s) ==
  /\ cli[s] = "waiting"
  /\ Fail(s)
  /\ UNCHANGED <<sec, replace, daemonVars, path, faults, stoppedReady>>

\* A rejected secret, a dead session or the timeout: the child is killed.
WaitFails(s) ==
  /\ cli[s] = "waiting"
  /\ Fail(s)
  /\ Gone(s)
  /\ UNCHANGED <<sec, replace, path, faults, stoppedReady>>

-----------------------------------------------------------------------------
CliStep(s) ==
  \/ FoundDaemon(s) \/ NoDaemon(s) \/ PostHandoff(s) \/ HandleHandoff(s)
  \/ HandoffReceived(s) \/ RequestBroken(s) \/ Login(s) \/ LoginFails(s)
  \/ PostLogout(s) \/ HandleLogout(s) \/ OldDaemonStopped(s) \/ Spawn(s)

WaitStep(s) == DaemonReady(s) \/ WaitFails(s)

DaemonStep(d) ==
  \/ Lstat(d) \/ SocketAlive(d) \/ RemoveStale(d) \/ Bind(d)
  \/ Shutdown(d) \/ Exit(d)

FaultStep(s) ==
  \/ ProbeTimesOut(s) \/ StopSeenTooEarly(s) \/ DialTimesOut(s)
  \/ HandoffRolledBack(s) \/ HandoffLost(s)
  \/ Signal(s) \/ ServeFails(s) \/ Crash(s)

Next ==
  \E s \in Serves :
    \/ Invoke(s) \/ CliStep(s) \/ WaitStep(s)
    \/ DaemonStep(s) \/ ListenGivesUp(s)
    \/ SessionDies(s) \/ Logout(s)
    \/ FaultStep(s)

Spec == Init /\ [][Next]_vars

\* Processes run.  The device login and the wait for the child are bounded by
\* timeouts, and so is the listen loop: it retries for a while, then its next
\* failed attempt is its last.
Fairness ==
  \A s \in Serves :
    /\ WF_vars(CliStep(s)) /\ WF_vars(WaitStep(s)) /\ WF_vars(DaemonStep(s))
    /\ SF_vars(ListenGivesUp(s))

FairSpec == Spec /\ Fairness

-----------------------------------------------------------------------------
(***************************************************************************)
(* Properties.                                                             *)
(***************************************************************************)

\* The types of the variables; and a daemon never runs without a secret, which
\* would make checkSecret refuse everybody.
TypeOK ==
  /\ cli \in [Serves -> CliPCs]
  /\ sec \in [Serves -> EnvSecrets \cup {Unset} \cup Serves]
  /\ conn \in [Serves -> Serves \cup {NoOne}]
  /\ transit \in [Serves -> Serves \cup {NoOne}]
  /\ cred \in [Serves -> Serves \cup {NoOne}]
  /\ replace \in [Serves -> BOOLEAN]
  /\ daemon \in [Serves -> DaemonPCs]
  /\ sess \in [Serves -> {"none", "ready", "handed_off", "dead"}]
  /\ held \in [Serves -> Serves \cup {NoOne}]
  /\ stop \in [Serves -> BOOLEAN]
  /\ path \in Serves \cup {NoOne}
  /\ faults \in 0 .. MaxFaults
  /\ \A s \in Serves : daemon[s] # "none" => sec[s] # Unset
  /\ stoppedReady \in BOOLEAN

\* Whatever is taken over, rolled back, lost or killed, a login has at most one
\* holder among all processes: two holders would refresh the same single-use
\* token behind each other's back.
SingleRefresher ==
  \A s, u \in Serves :
    /\ held[s] # NoOne => held[s] \notin {cred[u], transit[u]}
    /\ cred[s] # NoOne => cred[s] # transit[u]
    /\ s # u /\ held[s] # NoOne => held[s] # held[u]
    /\ s # u /\ cred[s] # NoOne => cred[s] # cred[u]
    /\ s # u /\ transit[s] # NoOne => transit[s] # transit[u]

\* A serve that reports failure leaves no daemon of its own behind that could
\* still bind the socket or refresh the session.
FailedLeavesNothing ==
  \A s \in Serves : cli[s] = "failed" => daemon[s] \in {"none", "gone"} /\ held[s] = NoOne

\* A login never leaves the secret under which it was obtained: through any
\* chain of takeovers, whoever holds it serves it to the same clients
\* (attemptHandoff, handoff.Secret, checkSecret).
SecretScopesLogin ==
  \A s \in Serves :
    \A login \in {held[s], cred[s], transit[s]} \ {NoOne} : sec[login] = sec[s]

\* What Daemon sees of the daemon of one serve.
Life(d) ==
  CASE daemon[d] = "none" -> "absent"
    [] daemon[d] \in {"listen", "check", "remove", "bind"} -> "starting"
    [] daemon[d] \in {"closing", "failing"} -> "closing"
    [] OTHER -> daemon[d]

D(d) == INSTANCE Daemon WITH life <- Life(d), session <- sess[d], stopping <- stop[d]

\* Every daemon is the one that module Daemon describes, whatever the serves and
\* the other daemons do: what was drained for a takeover does not come back once
\* the daemon is to stop, and what was logged out does not come back at all.
AreDaemons ==
  /\ \A d \in Serves : D(d)!Init
  /\ [][\A d \in Serves : [D(d)!Next]_(D(d)!view)]_vars

\* Where a serve has performed no device login.
NoLoginYet == {"idle", "probe", "handoff", "posted", "transit", "login"}

\* Where the login of serve l is, for Baton.
Chance(l)    == IF cli[l] \in NoLoginYet THEN "open" ELSE "over"
InServes(l)  == {s \in Serves : cred[s] = l}
InDaemons(l) == {d \in Serves : held[d] = l}
InBodies(l)  == {p \in Serves \X Serves : conn[p[2]] = p[1] /\ transit[p[2]] = l}

B(l) == INSTANCE Baton WITH
          Procs <- Serves, chance <- Chance(l), serves <- InServes(l),
          daemons <- InDaemons(l), bodies <- InBodies(l)

\* Every login is handed on as module Baton says, whatever the other serves do:
\* it goes from a serve to that serve's own daemon, from a daemon only into the
\* body of one handoff, from there only to the serve that asked or back, and a
\* login that was logged out, dropped or lost with its process never turns up
\* again (attemptHandoff, handleHandoff, spawnBackgroundDaemon).
LoginsAreHandedOn ==
  /\ \A l \in Serves : B(l)!Init
  /\ [][\A l \in Serves : [B(l)!Next]_(B(l)!baton)]_vars

\* A daemon that calls its session ready has a login in it; and one that was
\* drained and still listens is about to stop, or its login is in the body of a
\* handoff whose end will settle the matter: it can neither linger nor have
\* lost the login it may want back.
DrainedIsWatched ==
  \A d \in Serves :
    /\ sess[d] = "ready" => held[d] # NoOne
    /\ sess[d] = "handed_off" /\ daemon[d] = "serving" =>
         \/ stop[d]
         \/ \E s \in Serves : cli[s] = "transit" /\ conn[s] = d /\ transit[s] # NoOne

\* Every serve comes to an end: it succeeds, fails, or serves in the
\* foreground.
ServeReturns ==
  \A s \in Serves : cli[s] # "idle" ~> cli[s] \in {"ok", "failed", "foreground"}

\* A drained daemon does not linger: it gets its session back or goes away,
\* whatever happens to the serve it was drained for.
DrainedGoes ==
  \A d \in Serves : sess[d] = "handed_off" ~> sess[d] = "ready" \/ daemon[d] = "gone"

\* A child does not keep a login for ever without serving it: it gets to listen
\* or goes away, also when its parent took another daemon at the path for it and
\* has left (waitDaemonReady asks whoever answers).
ChildSettles ==
  \A d \in Serves : Life(d) = "starting" ~> Life(d) # "starting"

(***************************************************************************)
(* Statements of the repository's documents that the code does not keep.   *)
(***************************************************************************)

\* "a live daemon is never silently orphaned".
NeverOrphaned ==
  \A d \in Serves : daemon[d] = "serving" /\ sess[d] = "ready" => path = d

\* "Sticky states already wiped the old daemon's tokens; stopping it loses
\* nothing."
StopLosesNothing == ~stoppedReady

=============================================================================
