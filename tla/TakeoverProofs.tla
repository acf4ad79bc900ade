--------------------------- MODULE TakeoverProofs ---------------------------
(***************************************************************************)
(* Proofs about Takeover, for any number of serves, secrets and faults.    *)
(* TInv is shown to be inductive, one lemma per action and in it one step  *)
(* per conjunct; the safety properties and the refinements of Daemon and   *)
(* Baton follow from it.                                                   *)
(***************************************************************************)
EXTENDS TakeoverInv, TLAPS

\* Program counters, jumps and the tuples of variables.
USE TakeoverAssumption
  DEF cliVars, daemonVars, CliPCs, DaemonPCs, Up, Goto, Run, Post, NoLoginYet, NoDaemonYet

-----------------------------------------------------------------------------

\* A serve starts.
LEMMA InvokePreserves ==
  ASSUME TInv, NEW s \in Serves, Invoke(s)
  PROVE  TInv'
<1>1. TypeOK'
    BY DEF TInv, TypeOK, Invoke
<1>2. HoldInv'
    BY DEF TInv, TypeOK, HoldInv, ConnInv, Invoke
<1>3. ConnInv'
    BY DEF TInv, TypeOK, HoldInv, ConnInv, Invoke
<1>4. LoginInv'
    BY DEF TInv, TypeOK, HoldInv, LoginInv, Invoke
<1>5. SingleRefresher'
    BY DEF TInv, TypeOK, HoldInv, LoginInv, SingleRefresher, Invoke
<1>6. SecretScopesLogin'
    BY DEF TInv, TypeOK, HoldInv, ConnInv, LoginInv, SecretScopesLogin, Invoke
<1> QED
    BY <1>1, <1>2, <1>3, <1>4, <1>5, <1>6 DEF TInv

\* A daemon was found: nothing moves.
LEMMA FoundDaemonPreserves ==
  ASSUME TInv, NEW s \in Serves, FoundDaemon(s)
  PROVE  TInv'
<1>1. TypeOK'
    BY DEF TInv, TypeOK, FoundDaemon, Answers, Accepting
<1>2. HoldInv'
    BY DEF TInv, TypeOK, HoldInv, ConnInv, FoundDaemon, Answers, Accepting
<1>3. ConnInv'
    BY DEF TInv, TypeOK, HoldInv, ConnInv, FoundDaemon, Answers, Accepting
<1>4. LoginInv'
    BY DEF TInv, TypeOK, HoldInv, LoginInv, FoundDaemon, Answers, Accepting
<1>5. SingleRefresher'
    BY DEF TInv, TypeOK, HoldInv, LoginInv, SingleRefresher, FoundDaemon,
       Answers, Accepting
<1>6. SecretScopesLogin'
    BY DEF TInv, TypeOK, HoldInv, ConnInv, LoginInv, SecretScopesLogin,
       FoundDaemon, Answers, Accepting
<1> QED
    BY <1>1, <1>2, <1>3, <1>4, <1>5, <1>6 DEF TInv

\* The secret of a serve changes only while nobody holds anything of it.
LEMMA NoDaemonPreserves ==
  ASSUME TInv, NEW s \in Serves, NoDaemon(s)
  PROVE  TInv'
<1>1. TypeOK'
    BY DEF TInv, TypeOK, NoDaemon, GenerateSecret
<1>2. HoldInv'
    BY DEF TInv, TypeOK, HoldInv, ConnInv, NoDaemon, GenerateSecret
<1>3. ConnInv'
    BY DEF TInv, TypeOK, HoldInv, ConnInv, NoDaemon, GenerateSecret
<1>4. LoginInv'
    BY DEF TInv, TypeOK, HoldInv, LoginInv, NoDaemon, GenerateSecret
<1>5. SingleRefresher'
    BY DEF TInv, TypeOK, HoldInv, LoginInv, SingleRefresher, NoDaemon,
       GenerateSecret
<1>6. SecretScopesLogin'
    BY DEF TInv, TypeOK, HoldInv, ConnInv, LoginInv, SecretScopesLogin,
       NoDaemon, GenerateSecret
<1> QED
    BY <1>1, <1>2, <1>3, <1>4, <1>5, <1>6 DEF TInv

\* The same after a probe that timed out.
LEMMA ProbeTimesOutPreserves ==
  ASSUME TInv, NEW s \in Serves, ProbeTimesOut(s)
  PROVE  TInv'
<1>1. TypeOK'
    BY DEF TInv, TypeOK, ProbeTimesOut, GenerateSecret, Fault
<1>2. HoldInv'
    BY DEF TInv, TypeOK, HoldInv, ConnInv, ProbeTimesOut, GenerateSecret,
       Fault
<1>3. ConnInv'
    BY DEF TInv, TypeOK, HoldInv, ConnInv, ProbeTimesOut, GenerateSecret,
       Fault
<1>4. LoginInv'
    BY DEF TInv, TypeOK, HoldInv, LoginInv, ProbeTimesOut, GenerateSecret,
       Fault
<1>5. SingleRefresher'
    BY DEF TInv, TypeOK, HoldInv, LoginInv, SingleRefresher, ProbeTimesOut,
       GenerateSecret, Fault
<1>6. SecretScopesLogin'
    BY DEF TInv, TypeOK, HoldInv, ConnInv, LoginInv, SecretScopesLogin,
       ProbeTimesOut, GenerateSecret, Fault
<1> QED
    BY <1>1, <1>2, <1>3, <1>4, <1>5, <1>6 DEF TInv

\* The handoff goes to a daemon that serves.
LEMMA PostHandoffPreserves ==
  ASSUME TInv, NEW s \in Serves, PostHandoff(s)
  PROVE  TInv'
<1>1. TypeOK'
    BY DEF TInv, TypeOK, PostHandoff, Accepting, Fail
<1>2. HoldInv'
    BY DEF TInv, TypeOK, HoldInv, ConnInv, PostHandoff, Accepting, Fail
<1>3. ConnInv'
    BY DEF TInv, TypeOK, HoldInv, ConnInv, PostHandoff, Accepting, Fail
<1>4. LoginInv'
    BY DEF TInv, TypeOK, HoldInv, LoginInv, PostHandoff, Accepting, Fail
<1>5. SingleRefresher'
    BY DEF TInv, TypeOK, HoldInv, LoginInv, SingleRefresher, PostHandoff,
       Accepting, Fail
<1>6. SecretScopesLogin'
    BY DEF TInv, TypeOK, HoldInv, ConnInv, LoginInv, SecretScopesLogin,
       PostHandoff, Accepting, Fail
<1> QED
    BY <1>1, <1>2, <1>3, <1>4, <1>5, <1>6 DEF TInv

\* The login moves out of the daemon, to a serve with the same secret.
LEMMA HandleHandoffPreserves ==
  ASSUME TInv, NEW s \in Serves, HandleHandoff(s)
  PROVE  TInv'
<1>1. TypeOK'
  <2> DEFINE d == conn[s]
  <2>0. d \in Serves
      BY DEF TInv, TypeOK, ConnInv, HandleHandoff
  <2>1. CASE CheckSecret(s, d) /\ sess[d] = "ready" /\ DrainSession(s, d)
             /\ Goto(s, "transit") /\ UNCHANGED <<conn, cred, replace>>
      BY <2>0, <2>1 DEF TInv, TypeOK, HandleHandoff, DrainSession
  <2>2. CASE /\ replace' = [replace EXCEPT ![s] = TRUE]
             /\ conn' = [conn EXCEPT ![s] = NoOne]
             /\ Goto(s, "login")
             /\ UNCHANGED <<transit, cred, sess, held>>
      BY <2>0, <2>2 DEF TInv, TypeOK, HandleHandoff
  <2>3. CASE Fail(s) /\ UNCHANGED <<replace, sess, held>>
      BY <2>0, <2>3 DEF TInv, TypeOK, HandleHandoff, Fail
  <2> QED
      BY <2>1, <2>2, <2>3 DEF HandleHandoff
<1>2. HoldInv'
    BY DEF TInv, TypeOK, HoldInv, ConnInv, HandleHandoff, CheckSecret,
       DrainSession, Fail
<1>3. ConnInv'
    BY DEF TInv, TypeOK, HoldInv, ConnInv, HandleHandoff, CheckSecret,
       DrainSession, Fail
<1>4. LoginInv'
  <2> DEFINE d == conn[s]
  <2>0. d \in Serves
      BY DEF TInv, TypeOK, ConnInv, HandleHandoff
  <2>1. CASE CheckSecret(s, d) /\ sess[d] = "ready" /\ DrainSession(s, d)
             /\ Goto(s, "transit") /\ UNCHANGED <<conn, cred, replace>>
      BY <2>0, <2>1 DEF TInv, TypeOK, HoldInv, LoginInv, HandleHandoff, DrainSession
  <2>2. CASE /\ replace' = [replace EXCEPT ![s] = TRUE]
             /\ conn' = [conn EXCEPT ![s] = NoOne]
             /\ Goto(s, "login")
             /\ UNCHANGED <<transit, cred, sess, held>>
      BY <2>0, <2>2 DEF TInv, TypeOK, HoldInv, LoginInv, HandleHandoff
  <2>3. CASE Fail(s) /\ UNCHANGED <<replace, sess, held>>
      BY <2>0, <2>3 DEF TInv, TypeOK, HoldInv, LoginInv, HandleHandoff, Fail
  <2> QED
      BY <2>1, <2>2, <2>3 DEF HandleHandoff
<1>5. SingleRefresher'
  <2> DEFINE d == conn[s]
  <2>0. d \in Serves
      BY DEF TInv, TypeOK, ConnInv, HandleHandoff
  <2>1. CASE CheckSecret(s, d) /\ sess[d] = "ready" /\ DrainSession(s, d)
             /\ Goto(s, "transit") /\ UNCHANGED <<conn, cred, replace>>
      BY <2>0, <2>1 DEF TInv, TypeOK, HoldInv, LoginInv, SingleRefresher, HandleHandoff, DrainSession
  <2>2. CASE /\ replace' = [replace EXCEPT ![s] = TRUE]
             /\ conn' = [conn EXCEPT ![s] = NoOne]
             /\ Goto(s, "login")
             /\ UNCHANGED <<transit, cred, sess, held>>
      BY <2>0, <2>2 DEF TInv, TypeOK, HoldInv, LoginInv, SingleRefresher, HandleHandoff
  <2>3. CASE Fail(s) /\ UNCHANGED <<replace, sess, held>>
      BY <2>0, <2>3 DEF TInv, TypeOK, HoldInv, LoginInv, SingleRefresher, HandleHandoff, Fail
  <2> QED
      BY <2>1, <2>2, <2>3 DEF HandleHandoff
<1>6. SecretScopesLogin'
    BY DEF TInv, TypeOK, HoldInv, ConnInv, LoginInv, SecretScopesLogin,
       HandleHandoff, CheckSecret, DrainSession, Fail
<1> QED
    BY <1>1, <1>2, <1>3, <1>4, <1>5, <1>6 DEF TInv

\* It moves on to the serve.
LEMMA HandoffReceivedPreserves ==
  ASSUME TInv, NEW s \in Serves, HandoffReceived(s)
  PROVE  TInv'
<1>1. TypeOK'
    BY DEF TInv, TypeOK, ConnInv, HandoffReceived
<1>2. HoldInv'
    BY DEF TInv, TypeOK, HoldInv, ConnInv, HandoffReceived
<1>3. ConnInv'
    BY DEF TInv, TypeOK, HoldInv, ConnInv, HandoffReceived
<1>4. LoginInv'
    BY DEF TInv, TypeOK, HoldInv, LoginInv, HandoffReceived
<1>5. SingleRefresher'
    BY DEF TInv, TypeOK, HoldInv, LoginInv, SingleRefresher, HandoffReceived
<1>6. SecretScopesLogin'
    BY DEF TInv, TypeOK, HoldInv, ConnInv, LoginInv, SecretScopesLogin,
       HandoffReceived
<1> QED
    BY <1>1, <1>2, <1>3, <1>4, <1>5, <1>6 DEF TInv

\* Or back to the daemon.
LEMMA HandoffRolledBackPreserves ==
  ASSUME TInv, NEW s \in Serves, HandoffRolledBack(s)
  PROVE  TInv'
<1>1. TypeOK'
    BY DEF TInv, TypeOK, ConnInv, HandoffRolledBack, Fail, Fault
<1>2. HoldInv'
    BY DEF TInv, TypeOK, HoldInv, ConnInv, HandoffRolledBack, Fail, Fault
<1>3. ConnInv'
    BY DEF TInv, TypeOK, HoldInv, ConnInv, HandoffRolledBack, Fail, Fault
<1>4. LoginInv'
    BY DEF TInv, TypeOK, HoldInv, LoginInv, HandoffRolledBack, Fail, Fault
<1>5. SingleRefresher'
    BY DEF TInv, TypeOK, HoldInv, LoginInv, SingleRefresher,
       HandoffRolledBack, Fail, Fault
<1>6. SecretScopesLogin'
    BY DEF TInv, TypeOK, HoldInv, ConnInv, LoginInv, SecretScopesLogin,
       HandoffRolledBack, Fail, Fault
<1> QED
    BY <1>1, <1>2, <1>3, <1>4, <1>5, <1>6 DEF TInv

\* Or it is lost.
LEMMA HandoffLostPreserves ==
  ASSUME TInv, NEW s \in Serves, HandoffLost(s)
  PROVE  TInv'
<1>1. TypeOK'
    BY DEF TInv, TypeOK, ConnInv, HandoffLost, Fail, Fault
<1>2. HoldInv'
    BY DEF TInv, TypeOK, HoldInv, ConnInv, HandoffLost, Fail, Fault
<1>3. ConnInv'
    BY DEF TInv, TypeOK, HoldInv, ConnInv, HandoffLost, Fail, Fault
<1>4. LoginInv'
    BY DEF TInv, TypeOK, HoldInv, LoginInv, HandoffLost, Fail, Fault
<1>5. SingleRefresher'
    BY DEF TInv, TypeOK, HoldInv, LoginInv, SingleRefresher, HandoffLost,
       Fail, Fault
<1>6. SecretScopesLogin'
    BY DEF TInv, TypeOK, HoldInv, ConnInv, LoginInv, SecretScopesLogin,
       HandoffLost, Fail, Fault
<1> QED
    BY <1>1, <1>2, <1>3, <1>4, <1>5, <1>6 DEF TInv

\* Lost with the daemon.
LEMMA RequestBrokenPreserves ==
  ASSUME TInv, NEW s \in Serves, RequestBroken(s)
  PROVE  TInv'
<1>1. TypeOK'
    BY DEF TInv, TypeOK, ConnInv, RequestBroken, Fail
<1>2. HoldInv'
    BY DEF TInv, TypeOK, HoldInv, ConnInv, RequestBroken, Fail
<1>3. ConnInv'
    BY DEF TInv, TypeOK, HoldInv, ConnInv, RequestBroken, Fail
<1>4. LoginInv'
    BY DEF TInv, TypeOK, HoldInv, LoginInv, RequestBroken, Fail
<1>5. SingleRefresher'
    BY DEF TInv, TypeOK, HoldInv, LoginInv, SingleRefresher, RequestBroken,
       Fail
<1>6. SecretScopesLogin'
    BY DEF TInv, TypeOK, HoldInv, ConnInv, LoginInv, SecretScopesLogin,
       RequestBroken, Fail
<1> QED
    BY <1>1, <1>2, <1>3, <1>4, <1>5, <1>6 DEF TInv

\* A new login appears, which nobody has held before.
LEMMA LoginPreserves ==
  ASSUME TInv, NEW s \in Serves, Login(s)
  PROVE  TInv'
<1>1. TypeOK'
    BY DEF TInv, TypeOK, Login
<1>2. HoldInv'
    BY DEF TInv, TypeOK, HoldInv, ConnInv, Login
<1>3. ConnInv'
    BY DEF TInv, TypeOK, HoldInv, ConnInv, Login
<1>4. LoginInv'
    BY DEF TInv, TypeOK, HoldInv, LoginInv, Login
<1>5. SingleRefresher'
    BY DEF TInv, TypeOK, HoldInv, LoginInv, SingleRefresher, Login
<1>6. SecretScopesLogin'
    BY DEF TInv, TypeOK, HoldInv, ConnInv, LoginInv, SecretScopesLogin, Login
<1> QED
    BY <1>1, <1>2, <1>3, <1>4, <1>5, <1>6 DEF TInv

\* No login appears.
LEMMA LoginFailsPreserves ==
  ASSUME TInv, NEW s \in Serves, LoginFails(s)
  PROVE  TInv'
<1>1. TypeOK'
    BY DEF TInv, TypeOK, LoginFails, Fail
<1>2. HoldInv'
    BY DEF TInv, TypeOK, HoldInv, ConnInv, LoginFails, Fail
<1>3. ConnInv'
    BY DEF TInv, TypeOK, HoldInv, ConnInv, LoginFails, Fail
<1>4. LoginInv'
    BY DEF TInv, TypeOK, HoldInv, LoginInv, LoginFails, Fail
<1>5. SingleRefresher'
    BY DEF TInv, TypeOK, HoldInv, LoginInv, SingleRefresher, LoginFails, Fail
<1>6. SecretScopesLogin'
    BY DEF TInv, TypeOK, HoldInv, ConnInv, LoginInv, SecretScopesLogin,
       LoginFails, Fail
<1> QED
    BY <1>1, <1>2, <1>3, <1>4, <1>5, <1>6 DEF TInv

\* A logout goes to a daemon that serves.
LEMMA PostLogoutPreserves ==
  ASSUME TInv, NEW s \in Serves, PostLogout(s)
  PROVE  TInv'
<1>1. TypeOK'
    BY DEF TInv, TypeOK, PostLogout, Accepting, Fail
<1>2. HoldInv'
    BY DEF TInv, TypeOK, HoldInv, ConnInv, PostLogout, Accepting, Fail
<1>3. ConnInv'
    BY DEF TInv, TypeOK, HoldInv, ConnInv, PostLogout, Accepting, Fail
<1>4. LoginInv'
    BY DEF TInv, TypeOK, HoldInv, LoginInv, PostLogout, Accepting, Fail
<1>5. SingleRefresher'
    BY DEF TInv, TypeOK, HoldInv, LoginInv, SingleRefresher, PostLogout, Accepting, Fail
<1>6. SecretScopesLogin'
    BY DEF TInv, TypeOK, HoldInv, ConnInv, LoginInv, SecretScopesLogin,
       PostLogout, Accepting, Fail
<1> QED
    BY <1>1, <1>2, <1>3, <1>4, <1>5, <1>6 DEF TInv

\* A logout of the daemon that accepted it.
LEMMA HandleLogoutPreserves ==
  ASSUME TInv, NEW s \in Serves, HandleLogout(s)
  PROVE  TInv'
<1>1. TypeOK'
  <2>1. stoppedReady' \in BOOLEAN
      BY DEF TInv, TypeOK, HandleLogout
  <2>2. ASSUME NEW d \in Serves, ClearSession(d)
        PROVE  /\ sess' \in [Serves -> {"none", "ready", "handed_off", "dead"}]
               /\ held' \in [Serves -> Serves \cup {NoOne}]
               /\ stop' \in [Serves -> BOOLEAN]
      BY <2>2 DEF TInv, TypeOK, ClearSession
  <2> QED
      BY <2>1, <2>2 DEF TInv, TypeOK, ConnInv, HandleLogout, Fail
<1>2. HoldInv'
    BY DEF TInv, TypeOK, HoldInv, ConnInv, HandleLogout, ClearSession,
       CheckSecret, Fail
<1>3. ConnInv'
    BY DEF TInv, TypeOK, HoldInv, ConnInv, HandleLogout, ClearSession,
       CheckSecret, Fail
<1>4. LoginInv'
    BY DEF TInv, TypeOK, HoldInv, LoginInv, HandleLogout, ClearSession,
       CheckSecret, Fail
<1>5. SingleRefresher'
    BY DEF TInv, TypeOK, HoldInv, LoginInv, SingleRefresher, HandleLogout,
       ClearSession, CheckSecret, Fail
<1>6. SecretScopesLogin'
    BY DEF TInv, TypeOK, HoldInv, ConnInv, LoginInv, SecretScopesLogin,
       HandleLogout, ClearSession, CheckSecret, Fail
<1> QED
    BY <1>1, <1>2, <1>3, <1>4, <1>5, <1>6 DEF TInv

\* The wait for it ends.
LEMMA OldDaemonStoppedPreserves ==
  ASSUME TInv, NEW s \in Serves, OldDaemonStopped(s)
  PROVE  TInv'
<1>1. TypeOK'
    BY DEF TInv, TypeOK, OldDaemonStopped, Answers, Accepting, Fail
<1>2. HoldInv'
    BY DEF TInv, TypeOK, HoldInv, ConnInv, OldDaemonStopped, Answers,
       Accepting, Fail
<1>3. ConnInv'
    BY DEF TInv, TypeOK, HoldInv, ConnInv, OldDaemonStopped, Answers,
       Accepting, Fail
<1>4. LoginInv'
    BY DEF TInv, TypeOK, HoldInv, LoginInv, OldDaemonStopped, Answers,
       Accepting, Fail
<1>5. SingleRefresher'
    BY DEF TInv, TypeOK, HoldInv, LoginInv, SingleRefresher, OldDaemonStopped,
       Answers, Accepting, Fail
<1>6. SecretScopesLogin'
    BY DEF TInv, TypeOK, HoldInv, ConnInv, LoginInv, SecretScopesLogin,
       OldDaemonStopped, Answers, Accepting, Fail
<1> QED
    BY <1>1, <1>2, <1>3, <1>4, <1>5, <1>6 DEF TInv

\* It ends too early.
LEMMA StopSeenTooEarlyPreserves ==
  ASSUME TInv, NEW s \in Serves, StopSeenTooEarly(s)
  PROVE  TInv'
<1>1. TypeOK'
    BY DEF TInv, TypeOK, StopSeenTooEarly, Fault
<1>2. HoldInv'
    BY DEF TInv, TypeOK, HoldInv, ConnInv, StopSeenTooEarly, Fault
<1>3. ConnInv'
    BY DEF TInv, TypeOK, HoldInv, ConnInv, StopSeenTooEarly, Fault
<1>4. LoginInv'
    BY DEF TInv, TypeOK, HoldInv, LoginInv, StopSeenTooEarly, Fault
<1>5. SingleRefresher'
    BY DEF TInv, TypeOK, HoldInv, LoginInv, SingleRefresher, StopSeenTooEarly, Fault
<1>6. SecretScopesLogin'
    BY DEF TInv, TypeOK, HoldInv, ConnInv, LoginInv, SecretScopesLogin,
       StopSeenTooEarly, Fault
<1> QED
    BY <1>1, <1>2, <1>3, <1>4, <1>5, <1>6 DEF TInv

\* The login moves into the daemon of the serve.
LEMMA SpawnPreserves ==
  ASSUME TInv, NEW s \in Serves, Spawn(s)
  PROVE  TInv'
<1>1. TypeOK'
    BY DEF TInv, TypeOK, HoldInv, Spawn
<1>2. HoldInv'
    BY DEF TInv, TypeOK, HoldInv, ConnInv, Spawn
<1>3. ConnInv'
    BY DEF TInv, TypeOK, HoldInv, ConnInv, Spawn
<1>4. LoginInv'
    BY DEF TInv, TypeOK, HoldInv, LoginInv, Spawn
<1>5. SingleRefresher'
    BY DEF TInv, TypeOK, HoldInv, LoginInv, SingleRefresher, Spawn
<1>6. SecretScopesLogin'
    BY DEF TInv, TypeOK, HoldInv, ConnInv, LoginInv, SecretScopesLogin, Spawn
<1> QED
    BY <1>1, <1>2, <1>3, <1>4, <1>5, <1>6 DEF TInv

\* Listening moves no login.
LEMMA LstatPreserves ==
  ASSUME TInv, NEW s \in Serves, Lstat(s)
  PROVE  TInv'
<1>1. TypeOK'
    BY DEF TInv, TypeOK, Lstat
<1>2. HoldInv'
    BY DEF TInv, TypeOK, HoldInv, ConnInv, Lstat
<1>3. ConnInv'
    BY DEF TInv, TypeOK, HoldInv, ConnInv, Lstat
<1>4. LoginInv'
    BY DEF TInv, TypeOK, HoldInv, LoginInv, Lstat
<1>5. SingleRefresher'
    BY DEF TInv, TypeOK, HoldInv, LoginInv, SingleRefresher, Lstat
<1>6. SecretScopesLogin'
    BY DEF TInv, TypeOK, HoldInv, ConnInv, LoginInv, SecretScopesLogin, Lstat
<1> QED
    BY <1>1, <1>2, <1>3, <1>4, <1>5, <1>6 DEF TInv

\* Nor does the probe.
LEMMA SocketAlivePreserves ==
  ASSUME TInv, NEW s \in Serves, SocketAlive(s)
  PROVE  TInv'
<1>1. TypeOK'
    BY DEF TInv, TypeOK, SocketAlive, Answers, Accepting
<1>2. HoldInv'
    BY DEF TInv, TypeOK, HoldInv, ConnInv, SocketAlive, Answers, Accepting
<1>3. ConnInv'
    BY DEF TInv, TypeOK, HoldInv, ConnInv, SocketAlive, Answers, Accepting
<1>4. LoginInv'
    BY DEF TInv, TypeOK, HoldInv, LoginInv, SocketAlive, Answers, Accepting
<1>5. SingleRefresher'
    BY DEF TInv, TypeOK, HoldInv, LoginInv, SingleRefresher, SocketAlive,
       Answers, Accepting
<1>6. SecretScopesLogin'
    BY DEF TInv, TypeOK, HoldInv, ConnInv, LoginInv, SecretScopesLogin,
       SocketAlive, Answers, Accepting
<1> QED
    BY <1>1, <1>2, <1>3, <1>4, <1>5, <1>6 DEF TInv

\* A daemon that gives up takes its login with it.
LEMMA ListenGivesUpPreserves ==
  ASSUME TInv, NEW s \in Serves, ListenGivesUp(s)
  PROVE  TInv'
<1>1. TypeOK'
    BY DEF TInv, TypeOK, ListenGivesUp, Gone, ForegroundEnds
<1>2. HoldInv'
    BY DEF TInv, TypeOK, HoldInv, ConnInv, ListenGivesUp, Gone, ForegroundEnds
<1>3. ConnInv'
    BY DEF TInv, TypeOK, HoldInv, ConnInv, ListenGivesUp, Gone, ForegroundEnds
<1>4. LoginInv'
    BY DEF TInv, TypeOK, HoldInv, LoginInv, ListenGivesUp, Gone,
       ForegroundEnds
<1>5. SingleRefresher'
    BY DEF TInv, TypeOK, HoldInv, LoginInv, SingleRefresher, ListenGivesUp,
       Gone, ForegroundEnds
<1>6. SecretScopesLogin'
    BY DEF TInv, TypeOK, HoldInv, ConnInv, LoginInv, SecretScopesLogin,
       ListenGivesUp, Gone, ForegroundEnds
<1> QED
    BY <1>1, <1>2, <1>3, <1>4, <1>5, <1>6 DEF TInv

\* Nor when it errs.
LEMMA DialTimesOutPreserves ==
  ASSUME TInv, NEW s \in Serves, DialTimesOut(s)
  PROVE  TInv'
<1>1. TypeOK'
    BY DEF TInv, TypeOK, DialTimesOut, Fault
<1>2. HoldInv'
    BY DEF TInv, TypeOK, HoldInv, ConnInv, DialTimesOut, Fault
<1>3. ConnInv'
    BY DEF TInv, TypeOK, HoldInv, ConnInv, DialTimesOut, Fault
<1>4. LoginInv'
    BY DEF TInv, TypeOK, HoldInv, LoginInv, DialTimesOut, Fault
<1>5. SingleRefresher'
    BY DEF TInv, TypeOK, HoldInv, LoginInv, SingleRefresher, DialTimesOut, Fault
<1>6. SecretScopesLogin'
    BY DEF TInv, TypeOK, HoldInv, ConnInv, LoginInv, SecretScopesLogin,
       DialTimesOut, Fault
<1> QED
    BY <1>1, <1>2, <1>3, <1>4, <1>5, <1>6 DEF TInv

\* Removing a file moves no login.
LEMMA RemoveStalePreserves ==
  ASSUME TInv, NEW s \in Serves, RemoveStale(s)
  PROVE  TInv'
<1>1. TypeOK'
    BY DEF TInv, TypeOK, RemoveStale, Gone, ForegroundEnds
<1>2. HoldInv'
    BY DEF TInv, TypeOK, HoldInv, ConnInv, RemoveStale, Gone, ForegroundEnds
<1>3. ConnInv'
    BY DEF TInv, TypeOK, HoldInv, ConnInv, RemoveStale, Gone, ForegroundEnds
<1>4. LoginInv'
    BY DEF TInv, TypeOK, HoldInv, LoginInv, RemoveStale, Gone, ForegroundEnds
<1>5. SingleRefresher'
    BY DEF TInv, TypeOK, HoldInv, LoginInv, SingleRefresher, RemoveStale,
       Gone, ForegroundEnds
<1>6. SecretScopesLogin'
    BY DEF TInv, TypeOK, HoldInv, ConnInv, LoginInv, SecretScopesLogin,
       RemoveStale, Gone, ForegroundEnds
<1> QED
    BY <1>1, <1>2, <1>3, <1>4, <1>5, <1>6 DEF TInv

\* Nor does binding.
LEMMA BindPreserves ==
  ASSUME TInv, NEW s \in Serves, Bind(s)
  PROVE  TInv'
<1>1. TypeOK'
    BY DEF TInv, TypeOK, Bind, Gone, ForegroundEnds
<1>2. HoldInv'
    BY DEF TInv, TypeOK, HoldInv, ConnInv, Bind, Gone, ForegroundEnds
<1>3. ConnInv'
    BY DEF TInv, TypeOK, HoldInv, ConnInv, Bind, Gone, ForegroundEnds
<1>4. LoginInv'
    BY DEF TInv, TypeOK, HoldInv, LoginInv, Bind, Gone, ForegroundEnds
<1>5. SingleRefresher'
    BY DEF TInv, TypeOK, HoldInv, LoginInv, SingleRefresher, Bind, Gone,
       ForegroundEnds
<1>6. SecretScopesLogin'
    BY DEF TInv, TypeOK, HoldInv, ConnInv, LoginInv, SecretScopesLogin, Bind,
       Gone, ForegroundEnds
<1> QED
    BY <1>1, <1>2, <1>3, <1>4, <1>5, <1>6 DEF TInv

\* A shutdown begins.
LEMMA ShutdownPreserves ==
  ASSUME TInv, NEW s \in Serves, Shutdown(s)
  PROVE  TInv'
<1>1. TypeOK'
    BY DEF TInv, TypeOK, Shutdown
<1>2. HoldInv'
    BY DEF TInv, TypeOK, HoldInv, ConnInv, Shutdown
<1>3. ConnInv'
    BY DEF TInv, TypeOK, HoldInv, ConnInv, Shutdown
<1>4. LoginInv'
    BY DEF TInv, TypeOK, HoldInv, LoginInv, Shutdown
<1>5. SingleRefresher'
    BY DEF TInv, TypeOK, HoldInv, LoginInv, SingleRefresher, Shutdown
<1>6. SecretScopesLogin'
    BY DEF TInv, TypeOK, HoldInv, ConnInv, LoginInv, SecretScopesLogin,
       Shutdown
<1> QED
    BY <1>1, <1>2, <1>3, <1>4, <1>5, <1>6 DEF TInv

\* The same on a signal.
LEMMA SignalPreserves ==
  ASSUME TInv, NEW s \in Serves, Signal(s)
  PROVE  TInv'
<1>1. TypeOK'
    BY DEF TInv, TypeOK, Signal, Fault
<1>2. HoldInv'
    BY DEF TInv, TypeOK, HoldInv, ConnInv, Signal, Fault
<1>3. ConnInv'
    BY DEF TInv, TypeOK, HoldInv, ConnInv, Signal, Fault
<1>4. LoginInv'
    BY DEF TInv, TypeOK, HoldInv, LoginInv, Signal, Fault
<1>5. SingleRefresher'
    BY DEF TInv, TypeOK, HoldInv, LoginInv, SingleRefresher, Signal, Fault
<1>6. SecretScopesLogin'
    BY DEF TInv, TypeOK, HoldInv, ConnInv, LoginInv, SecretScopesLogin,
       Signal, Fault
<1> QED
    BY <1>1, <1>2, <1>3, <1>4, <1>5, <1>6 DEF TInv

\* The same when the listener fails.
LEMMA ServeFailsPreserves ==
  ASSUME TInv, NEW s \in Serves, ServeFails(s)
  PROVE  TInv'
<1>1. TypeOK'
    BY DEF TInv, TypeOK, ServeFails, Fault
<1>2. HoldInv'
    BY DEF TInv, TypeOK, HoldInv, ConnInv, ServeFails, Fault
<1>3. ConnInv'
    BY DEF TInv, TypeOK, HoldInv, ConnInv, ServeFails, Fault
<1>4. LoginInv'
    BY DEF TInv, TypeOK, HoldInv, LoginInv, ServeFails, Fault
<1>5. SingleRefresher'
    BY DEF TInv, TypeOK, HoldInv, LoginInv, SingleRefresher, ServeFails, Fault
<1>6. SecretScopesLogin'
    BY DEF TInv, TypeOK, HoldInv, ConnInv, LoginInv, SecretScopesLogin,
       ServeFails, Fault
<1> QED
    BY <1>1, <1>2, <1>3, <1>4, <1>5, <1>6 DEF TInv

\* The process ends with what it holds.
LEMMA ExitPreserves ==
  ASSUME TInv, NEW s \in Serves, Exit(s)
  PROVE  TInv'
<1>1. TypeOK'
    BY DEF TInv, TypeOK, Exit, Gone, ForegroundEnds
<1>2. HoldInv'
    BY DEF TInv, TypeOK, HoldInv, ConnInv, Exit, Gone, ForegroundEnds
<1>3. ConnInv'
    BY DEF TInv, TypeOK, HoldInv, ConnInv, Exit, Gone, ForegroundEnds
<1>4. LoginInv'
    BY DEF TInv, TypeOK, HoldInv, LoginInv, Exit, Gone, ForegroundEnds
<1>5. SingleRefresher'
    BY DEF TInv, TypeOK, HoldInv, LoginInv, SingleRefresher, Exit, Gone,
       ForegroundEnds
<1>6. SecretScopesLogin'
    BY DEF TInv, TypeOK, HoldInv, ConnInv, LoginInv, SecretScopesLogin, Exit,
       Gone, ForegroundEnds
<1> QED
    BY <1>1, <1>2, <1>3, <1>4, <1>5, <1>6 DEF TInv

\* So it does in a crash.
LEMMA CrashPreserves ==
  ASSUME TInv, NEW s \in Serves, Crash(s)
  PROVE  TInv'
<1>1. TypeOK'
    BY DEF TInv, TypeOK, Crash, Gone, ForegroundEnds, Fault
<1>2. HoldInv'
    BY DEF TInv, TypeOK, HoldInv, ConnInv, Crash, Gone, ForegroundEnds, Fault
<1>3. ConnInv'
    BY DEF TInv, TypeOK, HoldInv, ConnInv, Crash, Gone, ForegroundEnds, Fault
<1>4. LoginInv'
    BY DEF TInv, TypeOK, HoldInv, LoginInv, Crash, Gone, ForegroundEnds, Fault
<1>5. SingleRefresher'
    BY DEF TInv, TypeOK, HoldInv, LoginInv, SingleRefresher, Crash, Gone,
       ForegroundEnds, Fault
<1>6. SecretScopesLogin'
    BY DEF TInv, TypeOK, HoldInv, ConnInv, LoginInv, SecretScopesLogin, Crash,
       Gone, ForegroundEnds, Fault
<1> QED
    BY <1>1, <1>2, <1>3, <1>4, <1>5, <1>6 DEF TInv

\* A rejected refresh wipes the session.
LEMMA SessionDiesPreserves ==
  ASSUME TInv, NEW s \in Serves, SessionDies(s)
  PROVE  TInv'
<1>1. TypeOK'
    BY DEF TInv, TypeOK, SessionDies
<1>2. HoldInv'
    BY DEF TInv, TypeOK, HoldInv, ConnInv, SessionDies
<1>3. ConnInv'
    BY DEF TInv, TypeOK, HoldInv, ConnInv, SessionDies
<1>4. LoginInv'
    BY DEF TInv, TypeOK, HoldInv, LoginInv, SessionDies
<1>5. SingleRefresher'
    BY DEF TInv, TypeOK, HoldInv, LoginInv, SingleRefresher, SessionDies
<1>6. SecretScopesLogin'
    BY DEF TInv, TypeOK, HoldInv, ConnInv, LoginInv, SecretScopesLogin,
       SessionDies
<1> QED
    BY <1>1, <1>2, <1>3, <1>4, <1>5, <1>6 DEF TInv

\* So does a logout.
LEMMA LogoutPreserves ==
  ASSUME TInv, NEW s \in Serves, Logout(s)
  PROVE  TInv'
<1>1. TypeOK'
    BY DEF TInv, TypeOK, Logout, ClearSession
<1>2. HoldInv'
    BY DEF TInv, TypeOK, HoldInv, ConnInv, Logout, ClearSession
<1>3. ConnInv'
    BY DEF TInv, TypeOK, HoldInv, ConnInv, Logout, ClearSession
<1>4. LoginInv'
    BY DEF TInv, TypeOK, HoldInv, LoginInv, Logout, ClearSession
<1>5. SingleRefresher'
    BY DEF TInv, TypeOK, HoldInv, LoginInv, SingleRefresher, Logout,
       ClearSession
<1>6. SecretScopesLogin'
    BY DEF TInv, TypeOK, HoldInv, ConnInv, LoginInv, SecretScopesLogin,
       Logout, ClearSession
<1> QED
    BY <1>1, <1>2, <1>3, <1>4, <1>5, <1>6 DEF TInv

\* The wait for the child succeeds.
LEMMA DaemonReadyPreserves ==
  ASSUME TInv, NEW s \in Serves, DaemonReady(s)
  PROVE  TInv'
<1>1. TypeOK'
    BY DEF TInv, TypeOK, DaemonReady, Accepting, CheckSecret
<1>2. HoldInv'
    BY DEF TInv, TypeOK, HoldInv, ConnInv, DaemonReady, Accepting, CheckSecret
<1>3. ConnInv'
    BY DEF TInv, TypeOK, HoldInv, ConnInv, DaemonReady, Accepting, CheckSecret
<1>4. LoginInv'
    BY DEF TInv, TypeOK, HoldInv, LoginInv, DaemonReady, Accepting,
       CheckSecret
<1>5. SingleRefresher'
    BY DEF TInv, TypeOK, HoldInv, LoginInv, SingleRefresher, DaemonReady,
       Accepting, CheckSecret
<1>6. SecretScopesLogin'
    BY DEF TInv, TypeOK, HoldInv, ConnInv, LoginInv, SecretScopesLogin,
       DaemonReady, Accepting, CheckSecret
<1> QED
    BY <1>1, <1>2, <1>3, <1>4, <1>5, <1>6 DEF TInv

\* Or fails, and the child is killed.
LEMMA WaitFailsPreserves ==
  ASSUME TInv, NEW s \in Serves, WaitFails(s)
  PROVE  TInv'
<1>1. TypeOK'
    BY DEF TInv, TypeOK, HoldInv, WaitFails, Fail, Gone
<1>2. HoldInv'
    BY DEF TInv, TypeOK, HoldInv, ConnInv, WaitFails, Fail, Gone
<1>3. ConnInv'
    BY DEF TInv, TypeOK, HoldInv, ConnInv, WaitFails, Fail, Gone
<1>4. LoginInv'
    BY DEF TInv, TypeOK, HoldInv, LoginInv, WaitFails, Fail, Gone
<1>5. SingleRefresher'
    BY DEF TInv, TypeOK, HoldInv, LoginInv, SingleRefresher, WaitFails, Fail,
       Gone
<1>6. SecretScopesLogin'
    BY DEF TInv, TypeOK, HoldInv, ConnInv, LoginInv, SecretScopesLogin,
       WaitFails, Fail, Gone
<1> QED
    BY <1>1, <1>2, <1>3, <1>4, <1>5, <1>6 DEF TInv

-----------------------------------------------------------------------------
\* The initial states satisfy the invariant.
LEMMA InitTInv == Init => TInv
<1> SUFFICES ASSUME Init PROVE TInv
    OBVIOUS
<1>1. TypeOK
  <2>1. sec \in [Serves -> EnvSecrets \cup {Unset} \cup Serves]
      BY DEF Init
  <2>2. /\ replace \in [Serves -> BOOLEAN]
        /\ stop \in [Serves -> BOOLEAN]
        /\ stoppedReady \in BOOLEAN
      BY DEF Init
  <2>3. faults \in 0 .. MaxFaults
      BY DEF Init
  <2> QED
      BY <2>1, <2>2, <2>3 DEF Init, TypeOK
<1>2. HoldInv /\ ConnInv
    BY DEF Init, HoldInv, ConnInv
<1>3. LoginInv
    BY DEF Init, LoginInv
<1>4. SingleRefresher /\ SecretScopesLogin
    BY DEF Init, SingleRefresher, SecretScopesLogin
<1> QED
    BY <1>1, <1>2, <1>3, <1>4 DEF TInv

\* Every step preserves it.
LEMMA NextTInv == TInv /\ [Next]_vars => TInv'
<1> SUFFICES ASSUME TInv, [Next]_vars PROVE TInv'
    OBVIOUS
<1>1. CASE UNCHANGED vars
    BY <1>1 DEF vars, TInv, TypeOK, HoldInv, ConnInv, LoginInv, SingleRefresher,
       SecretScopesLogin
<1>2. ASSUME NEW s \in Serves, CliStep(s)
      PROVE  TInv'
    BY <1>2, FoundDaemonPreserves, NoDaemonPreserves, PostHandoffPreserves,
       HandleHandoffPreserves, HandoffReceivedPreserves, RequestBrokenPreserves,
       LoginPreserves, LoginFailsPreserves, PostLogoutPreserves,
       HandleLogoutPreserves, OldDaemonStoppedPreserves, SpawnPreserves DEF CliStep
<1>3. ASSUME NEW s \in Serves, DaemonStep(s) \/ WaitStep(s)
      PROVE  TInv'
    BY <1>3, LstatPreserves, SocketAlivePreserves, RemoveStalePreserves,
       BindPreserves, ShutdownPreserves, ExitPreserves, DaemonReadyPreserves,
       WaitFailsPreserves DEF DaemonStep, WaitStep
<1>4. ASSUME NEW s \in Serves, FaultStep(s)
      PROVE  TInv'
    BY <1>4, ProbeTimesOutPreserves, StopSeenTooEarlyPreserves, DialTimesOutPreserves,
       HandoffRolledBackPreserves, HandoffLostPreserves, SignalPreserves,
       ServeFailsPreserves, CrashPreserves DEF FaultStep
<1>5. ASSUME NEW s \in Serves,
             Invoke(s) \/ ListenGivesUp(s) \/ SessionDies(s) \/ Logout(s)
      PROVE  TInv'
    BY <1>5, InvokePreserves, ListenGivesUpPreserves, SessionDiesPreserves,
       LogoutPreserves
<1> QED
    BY <1>1, <1>2, <1>3, <1>4, <1>5 DEF Next

\* The invariant holds for any number of serves, secrets and faults.
THEOREM TakeoverInductive == Spec => []TInv
  BY InitTInv, NextTInv, PTL DEF Spec

\* Every variable of cmdServe, runServer and ListenUnix keeps its type, and no
\* daemon runs without a secret.
THEOREM TakeoverTypeCorrect == Spec => []TypeOK
<1>1. TInv => TypeOK
    BY DEF TInv
<1> QED
    BY <1>1, TakeoverInductive, PTL

\* Through takeovers, rollbacks, losses and crashes (attemptHandoff,
\* handleHandoff, RestoreHandoff), no login ever has two holders.
THEOREM OneHolder == Spec => []SingleRefresher
<1>1. TInv => SingleRefresher
    BY DEF TInv
<1> QED
    BY <1>1, TakeoverInductive, PTL

\* A login stays under the secret it was obtained with (checkSecret).
THEOREM SameSecret == Spec => []SecretScopesLogin
<1>1. TInv => SecretScopesLogin
    BY DEF TInv
<1> QED
    BY <1>1, TakeoverInductive, PTL

\* A serve that has failed leaves no daemon behind (spawnBackgroundDaemon kills
\* the child, runServer ends with the command).
THEOREM NothingLeft == Spec => []FailedLeavesNothing
<1>1. TInv => FailedLeavesNothing
    BY DEF TInv, HoldInv, FailedLeavesNothing
<1> QED
    BY <1>1, TakeoverInductive, PTL

-----------------------------------------------------------------------------
(***************************************************************************)
(* Each daemon seen from outside.                                          *)
(***************************************************************************)

\* Every step keeps DrainInv.
LEMMA NextDrainInv ==
  ASSUME TInv, DrainInv, [Next]_vars
  PROVE  DrainInv'
<1>t. TypeOK /\ HoldInv /\ ConnInv
    BY DEF TInv
<1>0. CASE UNCHANGED vars
    BY <1>0 DEF vars, DrainInv
<1>1. ASSUME NEW s \in Serves, Invoke(s)
      PROVE  DrainInv'
    BY <1>t, <1>1 DEF TypeOK, HoldInv, ConnInv, DrainInv, Invoke
<1>2. ASSUME NEW s \in Serves, FoundDaemon(s)
      PROVE  DrainInv'
    BY <1>t, <1>2 DEF TypeOK, HoldInv, ConnInv, DrainInv, FoundDaemon
<1>3. ASSUME NEW s \in Serves, NoDaemon(s)
      PROVE  DrainInv'
    BY <1>t, <1>3 DEF TypeOK, HoldInv, ConnInv, DrainInv, NoDaemon, GenerateSecret
<1>4. ASSUME NEW s \in Serves, ProbeTimesOut(s)
      PROVE  DrainInv'
    BY <1>t, <1>4 DEF TypeOK, HoldInv, ConnInv, DrainInv, ProbeTimesOut, GenerateSecret, Fault
<1>5. ASSUME NEW s \in Serves, PostHandoff(s)
      PROVE  DrainInv'
    BY <1>t, <1>5 DEF TypeOK, HoldInv, ConnInv, DrainInv, PostHandoff, Accepting, Fail
<1>6. ASSUME NEW s \in Serves, HandleHandoff(s)
      PROVE  DrainInv'
  <2>0. conn[s] \in Serves /\ cli[s] = "posted"
      BY <1>t, <1>6 DEF TypeOK, ConnInv, HandleHandoff
  <2>1. CASE sess[conn[s]] = "ready" /\ DrainSession(s, conn[s])
             /\ Goto(s, "transit") /\ UNCHANGED <<conn, cred, replace>>
      BY <1>t, <1>6, <2>0, <2>1 DEF TypeOK, DrainInv, HandleHandoff, DrainSession
  <2>2. CASE /\ conn' = [conn EXCEPT ![s] = NoOne]
             /\ Goto(s, "login")
             /\ UNCHANGED <<transit, cred, sess, held>>
      BY <1>t, <1>6, <2>0, <2>2 DEF TypeOK, DrainInv, HandleHandoff
  <2>3. CASE Fail(s) /\ UNCHANGED <<replace, sess, held>>
      BY <1>t, <1>6, <2>0, <2>3 DEF TypeOK, DrainInv, HandleHandoff, Fail
  <2> QED
      BY <1>6, <2>1, <2>2, <2>3 DEF HandleHandoff
<1>7. ASSUME NEW s \in Serves, HandoffReceived(s)
      PROVE  DrainInv'
    BY <1>t, <1>7 DEF TypeOK, HoldInv, ConnInv, DrainInv, HandoffReceived
<1>8. ASSUME NEW s \in Serves, HandoffRolledBack(s)
      PROVE  DrainInv'
    BY <1>t, <1>8 DEF TypeOK, HoldInv, ConnInv, DrainInv, HandoffRolledBack, Fail, Fault
<1>9. ASSUME NEW s \in Serves, HandoffLost(s)
      PROVE  DrainInv'
    BY <1>t, <1>9 DEF TypeOK, HoldInv, ConnInv, DrainInv, HandoffLost, Fail, Fault
<1>10. ASSUME NEW s \in Serves, RequestBroken(s)
      PROVE  DrainInv'
    BY <1>t, <1>10 DEF TypeOK, HoldInv, ConnInv, DrainInv, RequestBroken, Fail
<1>11. ASSUME NEW s \in Serves, Login(s)
      PROVE  DrainInv'
    BY <1>t, <1>11 DEF TypeOK, HoldInv, ConnInv, DrainInv, Login
<1>12. ASSUME NEW s \in Serves, LoginFails(s)
      PROVE  DrainInv'
    BY <1>t, <1>12 DEF TypeOK, HoldInv, ConnInv, DrainInv, LoginFails, Fail
<1>13. ASSUME NEW s \in Serves, PostLogout(s)
      PROVE  DrainInv'
    BY <1>t, <1>13 DEF TypeOK, HoldInv, ConnInv, DrainInv, PostLogout, Accepting, Fail
<1>14. ASSUME NEW s \in Serves, OldDaemonStopped(s) \/ StopSeenTooEarly(s)
      PROVE  DrainInv'
    BY <1>t, <1>14 DEF TypeOK, HoldInv, ConnInv, DrainInv, OldDaemonStopped,
       StopSeenTooEarly, Fail, Fault
<1>15. ASSUME NEW s \in Serves, Spawn(s)
      PROVE  DrainInv'
    BY <1>t, <1>15 DEF TypeOK, HoldInv, ConnInv, DrainInv, Spawn
<1>16. ASSUME NEW s \in Serves, Lstat(s)
      PROVE  DrainInv'
    BY <1>t, <1>16 DEF TypeOK, HoldInv, ConnInv, DrainInv, Lstat
<1>17. ASSUME NEW s \in Serves, SocketAlive(s) \/ DialTimesOut(s)
      PROVE  DrainInv'
    BY <1>t, <1>17 DEF TypeOK, HoldInv, ConnInv, DrainInv, SocketAlive, DialTimesOut, Fault
<1>18. ASSUME NEW s \in Serves, ListenGivesUp(s)
      PROVE  DrainInv'
    BY <1>t, <1>18 DEF TypeOK, HoldInv, ConnInv, DrainInv, ListenGivesUp, Gone, ForegroundEnds
<1>19. ASSUME NEW s \in Serves, RemoveStale(s)
      PROVE  DrainInv'
    BY <1>t, <1>19 DEF TypeOK, HoldInv, ConnInv, DrainInv, RemoveStale, Gone, ForegroundEnds
<1>20. ASSUME NEW s \in Serves, Bind(s)
      PROVE  DrainInv'
    BY <1>t, <1>20 DEF TypeOK, HoldInv, ConnInv, DrainInv, Bind, Gone, ForegroundEnds
<1>21. ASSUME NEW s \in Serves, Shutdown(s)
      PROVE  DrainInv'
    BY <1>t, <1>21 DEF TypeOK, HoldInv, ConnInv, DrainInv, Shutdown
<1>22. ASSUME NEW s \in Serves, Signal(s) \/ ServeFails(s)
      PROVE  DrainInv'
    BY <1>t, <1>22 DEF TypeOK, HoldInv, ConnInv, DrainInv, Signal, ServeFails, Fault
<1>23. ASSUME NEW s \in Serves, Exit(s)
      PROVE  DrainInv'
    BY <1>t, <1>23 DEF TypeOK, HoldInv, ConnInv, DrainInv, Exit, Gone, ForegroundEnds
<1>24. ASSUME NEW s \in Serves, Crash(s)
      PROVE  DrainInv'
    BY <1>t, <1>24 DEF TypeOK, HoldInv, ConnInv, DrainInv, Crash, Gone, ForegroundEnds, Fault
<1>25. ASSUME NEW s \in Serves, SessionDies(s)
      PROVE  DrainInv'
    BY <1>t, <1>25 DEF TypeOK, HoldInv, ConnInv, DrainInv, SessionDies
<1>26. ASSUME NEW s \in Serves, Logout(s)
      PROVE  DrainInv'
    BY <1>t, <1>26 DEF TypeOK, HoldInv, ConnInv, DrainInv, Logout, ClearSession
<1>27. ASSUME NEW s \in Serves, DaemonReady(s)
      PROVE  DrainInv'
    BY <1>t, <1>27 DEF TypeOK, HoldInv, ConnInv, DrainInv, DaemonReady
<1>28. ASSUME NEW s \in Serves, WaitFails(s)
      PROVE  DrainInv'
    BY <1>t, <1>28 DEF TypeOK, HoldInv, ConnInv, DrainInv, WaitFails, Fail, Gone
<1>29. ASSUME NEW s \in Serves, HandleLogout(s)
      PROVE  DrainInv'
  <2>1. conn[s] \in Serves /\ cli[s] = "logout_posted" /\ daemon[conn[s]] \in Up
      BY <1>t, <1>29 DEF TypeOK, ConnInv, HandleLogout
  <2>2. CASE ClearSession(conn[s]) /\ Goto(s, "logout_wait") /\ conn' = [conn EXCEPT ![s] = NoOne]
      BY <1>t, <1>29, <2>1, <2>2 DEF TypeOK, DrainInv, HandleLogout, ClearSession
  <2>3. CASE Fail(s) /\ UNCHANGED <<sess, held, stop>>
      BY <1>t, <1>29, <2>1, <2>3 DEF TypeOK, DrainInv, HandleLogout, Fail
  <2> QED
      BY <1>29, <2>2, <2>3 DEF HandleLogout
<1> QED
    BY <1>0, <1>1, <1>2, <1>3, <1>4, <1>5, <1>6, <1>7, <1>8, <1>9, <1>10, <1>11,
       <1>12, <1>13, <1>14, <1>15, <1>16, <1>17, <1>18, <1>19, <1>20, <1>21, <1>22,
       <1>23, <1>24, <1>25, <1>26, <1>27, <1>28, <1>29
       DEF Next, CliStep, WaitStep, DaemonStep, FaultStep

\* What Daemon does not see.
LEMMA NotSeen ==
  ASSUME NEW d \in Serves, daemon'[d] = daemon[d], sess'[d] = sess[d], stop'[d] = stop[d]
  PROVE  [D(d)!Next]_(D(d)!view)
<1>1. Life(d)' = Life(d)
    BY DEF Life
<1> QED
    BY <1>1 DEF D!view

\* Where Daemon sees a daemon, before and after a step.
LEMMA LifeFact ==
  ASSUME NEW d
  PROVE  /\ daemon[d] = "none" => Life(d) = "absent"
         /\ daemon[d] \in {"listen", "check", "remove", "bind"} => Life(d) = "starting"
         /\ daemon[d] \in {"serving", "closing", "gone"} => Life(d) = daemon[d]
         /\ daemon[d] = "failing" => Life(d) = "closing"
         /\ daemon'[d] \in {"listen", "check", "remove", "bind"} => Life(d)' = "starting"
         /\ daemon'[d] \in {"serving", "closing", "gone"} => Life(d)' = daemon'[d]
         /\ daemon'[d] = "failing" => Life(d)' = "closing"
         /\ daemon'[d] = daemon[d] => Life(d)' = Life(d)
BY DEF Life

\* A daemon starts, or goes on to listen.
LEMMA SeenStart ==
  ASSUME NEW d \in Serves, stop'[d] = stop[d], sess'[d] = "ready",
         daemon[d] = "none", daemon'[d] = "listen"
  PROVE  D(d)!Next
BY LifeFact DEF D!Next, D!Start

\* It is on its way to the bind.
LEMMA SeenListening ==
  ASSUME NEW d \in Serves, sess'[d] = sess[d], stop'[d] = stop[d],
         daemon[d] \in {"listen", "check", "remove", "bind"},
         daemon'[d] \in {"listen", "check", "remove", "bind", "serving"}
  PROVE  [D(d)!Next]_(D(d)!view)
<1>1. CASE daemon'[d] = "serving"
    BY <1>1, LifeFact DEF D!Next, D!Listen
<1>2. CASE daemon'[d] # "serving"
    BY <1>2, LifeFact DEF D!view
<1> QED
    BY <1>1, <1>2

\* The session goes out, comes back, or dies.
LEMMA SeenSession ==
  ASSUME NEW d \in Serves, daemon'[d] = daemon[d], daemon[d] \in Up,
         stop'[d] = stop[d],
         \/ sess[d] = "ready" /\ sess'[d] \in {"handed_off", "dead"}
         \/ sess[d] = "handed_off" /\ sess'[d] = "ready" /\ ~stop[d]
  PROVE  D(d)!Next
BY LifeFact DEF D!Next, D!Drain, D!Restore, D!Die, D!Up

\* A logout, with the decision to stop.
LEMMA SeenLogout ==
  ASSUME NEW d \in Serves, daemon'[d] = daemon[d], daemon[d] \in Up,
         sess'[d] = "dead", stop'[d] = TRUE
  PROVE  D(d)!Next
BY LifeFact DEF D!Next, D!Logout, D!Up

\* The decision to stop after a handoff.
LEMMA SeenStop ==
  ASSUME NEW d \in Serves, daemon'[d] = daemon[d], daemon[d] \in Up,
         sess[d] \in {"handed_off", "dead"}, sess'[d] = sess[d], stop'[d] = TRUE
  PROVE  D(d)!Next
BY LifeFact DEF D!Next, D!Stop, D!Up

\* The listener closes.
LEMMA SeenClose ==
  ASSUME NEW d \in Serves, daemon[d] = "serving", daemon'[d] \in {"closing", "failing"},
         sess'[d] = sess[d], stop'[d] = stop[d]
  PROVE  D(d)!Next
BY LifeFact DEF D!Next, D!Close

\* The process ends.
LEMMA SeenEnd ==
  ASSUME NEW d \in Serves, daemon[d] \in DaemonPCs \ {"none", "gone"}, daemon'[d] = "gone",
         sess'[d] = "none", stop'[d] = FALSE
  PROVE  D(d)!Next
BY LifeFact DEF D!Next, D!End

\* A process that Gone ends was running, or it was gone already.
LEMMA SeenGone ==
  ASSUME TInv, DrainInv, NEW d \in Serves, NEW s \in Serves, Gone(s), daemon[s] # "none"
  PROVE  [D(d)!Next]_(D(d)!view)
<1>1. /\ daemon' = [daemon EXCEPT ![s] = "gone"]
      /\ sess' = [sess EXCEPT ![s] = "none"]
      /\ stop' = [stop EXCEPT ![s] = FALSE]
    BY DEF Gone
<1>2. /\ daemon \in [Serves -> DaemonPCs]
      /\ sess \in [Serves -> {"none", "ready", "handed_off", "dead"}]
      /\ stop \in [Serves -> BOOLEAN]
    BY DEF TInv, TypeOK
<1>3. CASE d # s
    BY <1>1, <1>2, <1>3, NotSeen
<1>4. CASE d = s /\ daemon[s] = "gone"
  <2>1. sess[s] = "none" /\ ~stop[s]
      BY <1>4 DEF DrainInv
  <2> QED
      BY <1>1, <1>2, <1>4, <2>1, NotSeen
<1>5. CASE d = s /\ daemon[s] # "gone"
  <2>1. D(d)!Next
      BY <1>1, <1>2, <1>5, SeenEnd
  <2> QED
      BY <2>1
<1> QED
    BY <1>3, <1>4, <1>5

\* Every step is, for each daemon, a step of Daemon or not seen.
LEMMA NextDaemons ==
  ASSUME TInv, DrainInv, [Next]_vars, NEW d \in Serves
  PROVE  [D(d)!Next]_(D(d)!view)
<1>t. /\ daemon \in [Serves -> DaemonPCs]
      /\ sess \in [Serves -> {"none", "ready", "handed_off", "dead"}]
      /\ stop \in [Serves -> BOOLEAN]
      /\ conn \in [Serves -> Serves \cup {NoOne}]
    BY DEF TInv, TypeOK
<1>1. CASE UNCHANGED <<daemon, sess, stop>>
    BY <1>1, NotSeen
<1>2. ASSUME NEW s \in Serves,
             \/ Invoke(s) \/ FoundDaemon(s) \/ NoDaemon(s) \/ ProbeTimesOut(s)
             \/ PostHandoff(s) \/ RequestBroken(s) \/ Login(s) \/ LoginFails(s)
             \/ PostLogout(s) \/ OldDaemonStopped(s) \/ StopSeenTooEarly(s)
             \/ DaemonReady(s)
      PROVE  [D(d)!Next]_(D(d)!view)
    BY <1>1, <1>2 DEF Invoke, FoundDaemon, NoDaemon, ProbeTimesOut, PostHandoff,
       RequestBroken, Login, LoginFails, PostLogout, OldDaemonStopped,
       StopSeenTooEarly, DaemonReady
<1>3. ASSUME NEW s \in Serves, HandleHandoff(s)
      PROVE  [D(d)!Next]_(D(d)!view)
  <2>1. CASE UNCHANGED <<sess, held>>
      BY <1>1, <1>3, <2>1 DEF HandleHandoff
  <2>2. CASE sess[conn[s]] = "ready" /\ DrainSession(s, conn[s])
    <3>1. /\ sess' = [sess EXCEPT ![conn[s]] = "handed_off"]
          /\ UNCHANGED <<daemon, stop>> /\ daemon[conn[s]] \in Up
        BY <1>3, <2>2 DEF HandleHandoff, DrainSession
    <3> QED
        BY <1>t, <2>2, <3>1, NotSeen, SeenSession
  <2> QED
      BY <1>3, <2>1, <2>2 DEF HandleHandoff
<1>4. ASSUME NEW s \in Serves, HandoffReceived(s) \/ HandoffLost(s)
      PROVE  [D(d)!Next]_(D(d)!view)
  <2>1. /\ cli[s] = "transit" /\ daemon[conn[s]] # "gone"
        /\ stop' = [stop EXCEPT ![conn[s]] = TRUE] /\ UNCHANGED <<daemon, sess>>
      BY <1>4 DEF HandoffReceived, HandoffLost
  <2>2. conn[s] \in Serves /\ daemon[conn[s]] \in Up
      BY <1>t, <2>1 DEF TInv, ConnInv, DrainInv
  <2>3. sess[conn[s]] \in {"handed_off", "dead"}
      BY <1>t, <2>1, <2>2 DEF DrainInv
  <2> QED
      BY <1>t, <2>1, <2>2, <2>3, NotSeen, SeenStop
<1>5. ASSUME NEW s \in Serves, HandoffRolledBack(s)
      PROVE  [D(d)!Next]_(D(d)!view)
  <2>1. /\ cli[s] = "transit" /\ daemon[conn[s]] # "gone" /\ UNCHANGED <<daemon, stop>>
        /\ \/ sess[conn[s]] = "handed_off" /\ sess' = [sess EXCEPT ![conn[s]] = "ready"]
           \/ sess' = sess
      BY <1>5 DEF HandoffRolledBack
  <2>2. conn[s] \in Serves /\ daemon[conn[s]] \in Up
      BY <1>t, <2>1 DEF TInv, ConnInv, DrainInv
  <2>3. sess[conn[s]] = "handed_off" => ~stop[conn[s]]
      BY <2>1 DEF DrainInv
  <2> QED
      BY <1>t, <2>1, <2>2, <2>3, NotSeen, SeenSession
<1>6. ASSUME NEW s \in Serves, HandleLogout(s) \/ Logout(s)
      PROVE  [D(d)!Next]_(D(d)!view)
  <2>1. \/ UNCHANGED <<daemon, sess, stop>>
        \/ \E e \in Serves : daemon[e] \in Up /\ ClearSession(e) /\ daemon' = daemon
      BY <1>t, <1>6 DEF TInv, ConnInv, HandleLogout, Logout
  <2>2. ASSUME NEW e \in Serves, daemon[e] \in Up, ClearSession(e), daemon' = daemon
        PROVE  [D(d)!Next]_(D(d)!view)
      BY <1>t, <2>2, NotSeen, SeenLogout DEF ClearSession
  <2> QED
      BY <1>1, <2>1, <2>2
<1>7. ASSUME NEW s \in Serves, Spawn(s)
      PROVE  [D(d)!Next]_(D(d)!view)
  <2>1. /\ daemon[s] = "none" /\ daemon' = [daemon EXCEPT ![s] = "listen"]
        /\ sess' = [sess EXCEPT ![s] = "ready"] /\ UNCHANGED stop
      BY <1>7 DEF Spawn, TInv, HoldInv
  <2> QED
      BY <1>t, <2>1, NotSeen, SeenStart
<1>8. ASSUME NEW s \in Serves,
             Lstat(s) \/ SocketAlive(s) \/ DialTimesOut(s) \/ RemoveStale(s) \/ Bind(s)
      PROVE  [D(d)!Next]_(D(d)!view)
  <2>1. CASE Gone(s)
      BY <1>8, <2>1, SeenGone DEF Lstat, SocketAlive, DialTimesOut, RemoveStale, Bind
  <2>2. CASE ~Gone(s)
    <3>1. /\ UNCHANGED <<sess, stop>>
          /\ \E to \in {"listen", "check", "remove", "bind", "serving"} :
               daemon' = [daemon EXCEPT ![s] = to]
        BY <1>8, <2>2 DEF Lstat, SocketAlive, DialTimesOut, RemoveStale, Bind
    <3>2. daemon[s] \in {"listen", "check", "remove", "bind"}
        BY <1>8 DEF Lstat, SocketAlive, DialTimesOut, RemoveStale, Bind
    <3> QED
        BY <1>t, <3>1, <3>2, NotSeen, SeenListening
  <2> QED
      BY <2>1, <2>2
<1>9. ASSUME NEW s \in Serves, ListenGivesUp(s) \/ Exit(s) \/ Crash(s) \/ WaitFails(s)
      PROVE  [D(d)!Next]_(D(d)!view)
  <2>1. Gone(s) /\ daemon[s] # "none"
      BY <1>9 DEF ListenGivesUp, Exit, Crash, WaitFails, DrainInv
  <2> QED
      BY <2>1, SeenGone
<1>10. ASSUME NEW s \in Serves, Shutdown(s) \/ Signal(s) \/ ServeFails(s)
       PROVE  [D(d)!Next]_(D(d)!view)
  <2>1. /\ daemon[s] = "serving" /\ UNCHANGED <<sess, stop>>
        /\ \E to \in {"closing", "failing"} : daemon' = [daemon EXCEPT ![s] = to]
      BY <1>10 DEF Shutdown, Signal, ServeFails
  <2> QED
      BY <1>t, <2>1, NotSeen, SeenClose
<1>11. ASSUME NEW s \in Serves, SessionDies(s)
       PROVE  [D(d)!Next]_(D(d)!view)
  <2>1. /\ daemon[s] \in Up /\ sess[s] = "ready"
        /\ sess' = [sess EXCEPT ![s] = "dead"] /\ UNCHANGED <<daemon, stop>>
      BY <1>11 DEF SessionDies
  <2> QED
      BY <1>t, <2>1, NotSeen, SeenSession
<1>12. CASE UNCHANGED vars
    BY <1>1, <1>12 DEF vars
<1> QED
    BY <1>2, <1>3, <1>4, <1>5, <1>6, <1>7, <1>8, <1>9, <1>10, <1>11, <1>12
       DEF Next, CliStep, WaitStep, DaemonStep, FaultStep

\* Every daemon that takes part in takeovers is a Daemon: what Server, by
\* ServerIsDaemon, implements (handleHandoff, handleLogout, runServer).
THEOREM TakeoverOfDaemons == Spec => AreDaemons
<1>1. Init => DrainInv
    BY DEF Init, DrainInv
<1>2. Init => \A d \in Serves : D(d)!Init
  <2> SUFFICES ASSUME Init, NEW d \in Serves PROVE D(d)!Init
      OBVIOUS
  <2>1. daemon[d] = "none" /\ sess[d] = "none" /\ stop[d] = FALSE
      BY DEF Init
  <2> QED
      BY <2>1, LifeFact DEF D!Init
<1>3. TInv /\ DrainInv /\ [Next]_vars => DrainInv'
    BY NextDrainInv
<1>4. TInv /\ DrainInv /\ [Next]_vars => \A d \in Serves : [D(d)!Next]_(D(d)!view)
    BY NextDaemons
<1>5. TInv /\ DrainInv /\ [Next]_vars => [\A d \in Serves : [D(d)!Next]_(D(d)!view)]_vars
    BY <1>4
<1> QED
    BY <1>1, <1>2, <1>3, <1>5, TakeoverInductive, PTL DEF Spec, AreDaemons

-----------------------------------------------------------------------------
(***************************************************************************)
(* Drained daemons, and the way of each login.                             *)
(***************************************************************************)

\* A serve or a daemon that should hold a login holds one.
LEMMA NextFullInv ==
  ASSUME TInv, FullInv, [Next]_vars
  PROVE  FullInv'
<1>t. TypeOK /\ HoldInv /\ ConnInv
    BY DEF TInv
<1>0. CASE UNCHANGED vars
    BY <1>0 DEF vars, FullInv
<1>1. ASSUME NEW s \in Serves,
             Invoke(s) \/ FoundDaemon(s) \/ NoDaemon(s) \/ ProbeTimesOut(s)
      PROVE  FullInv'
    BY <1>t, <1>1 DEF TypeOK, HoldInv, ConnInv, FullInv, Invoke, FoundDaemon,
       NoDaemon, ProbeTimesOut, GenerateSecret, Fault
<1>2. ASSUME NEW s \in Serves, PostHandoff(s)
      PROVE  FullInv'
    BY <1>t, <1>2 DEF TypeOK, HoldInv, ConnInv, FullInv, PostHandoff, Accepting,
       Fail
<1>3. ASSUME NEW s \in Serves, HandleHandoff(s)
      PROVE  FullInv'
  <2>0. conn[s] \in Serves /\ cli[s] = "posted"
      BY <1>t, <1>3 DEF TypeOK, ConnInv, HandleHandoff
  <2>1. CASE sess[conn[s]] = "ready" /\ DrainSession(s, conn[s])
             /\ Goto(s, "transit") /\ UNCHANGED <<conn, cred, replace>>
      BY <1>t, <1>3, <2>0, <2>1 DEF TypeOK, FullInv, HandleHandoff, DrainSession
  <2>2. CASE Goto(s, "login") /\ UNCHANGED <<transit, cred, sess, held>>
      BY <1>t, <1>3, <2>0, <2>2 DEF TypeOK, FullInv, HandleHandoff
  <2>3. CASE Fail(s) /\ UNCHANGED <<replace, sess, held>>
      BY <1>t, <1>3, <2>0, <2>3 DEF TypeOK, FullInv, HandleHandoff, Fail
  <2> QED
      BY <1>3, <2>1, <2>2, <2>3 DEF HandleHandoff
<1>4. ASSUME NEW s \in Serves, HandoffReceived(s)
      PROVE  FullInv'
    BY <1>t, <1>4 DEF TypeOK, HoldInv, ConnInv, FullInv, HandoffReceived
<1>5. ASSUME NEW s \in Serves, HandoffRolledBack(s)
      PROVE  FullInv'
    BY <1>t, <1>5 DEF TypeOK, HoldInv, ConnInv, FullInv, HandoffRolledBack, Fail,
       Fault
<1>6. ASSUME NEW s \in Serves,
             HandoffLost(s) \/ RequestBroken(s)
      PROVE  FullInv'
    BY <1>t, <1>6 DEF TypeOK, HoldInv, ConnInv, FullInv, HandoffLost, RequestBroken,
       Fail, Fault
<1>7. ASSUME NEW s \in Serves,
             Login(s) \/ LoginFails(s)
      PROVE  FullInv'
    BY <1>t, <1>7 DEF TypeOK, HoldInv, ConnInv, FullInv, Login, LoginFails, Fail
<1>8. ASSUME NEW s \in Serves, PostLogout(s) \/ HandleLogout(s)
      PROVE  FullInv'
    BY <1>t, <1>8 DEF TypeOK, HoldInv, ConnInv, FullInv, PostLogout, HandleLogout,
       ClearSession, Accepting, Fail
<1>9. ASSUME NEW s \in Serves, OldDaemonStopped(s) \/ StopSeenTooEarly(s)
      PROVE  FullInv'
    BY <1>t, <1>9 DEF TypeOK, HoldInv, ConnInv, FullInv, OldDaemonStopped,
       StopSeenTooEarly, Fail, Fault
<1>10. ASSUME NEW s \in Serves, Spawn(s)
      PROVE  FullInv'
    BY <1>t, <1>10 DEF TypeOK, HoldInv, ConnInv, FullInv, Spawn
<1>11. ASSUME NEW s \in Serves,
             Lstat(s) \/ SocketAlive(s) \/ DialTimesOut(s)
      PROVE  FullInv'
    BY <1>t, <1>11 DEF TypeOK, HoldInv, ConnInv, FullInv, Lstat, SocketAlive,
       DialTimesOut, Fault
<1>12. ASSUME NEW s \in Serves,
             ListenGivesUp(s) \/ RemoveStale(s)
      PROVE  FullInv'
    BY <1>t, <1>12 DEF TypeOK, HoldInv, ConnInv, FullInv, ListenGivesUp,
       RemoveStale, Gone, ForegroundEnds
<1>13. ASSUME NEW s \in Serves, Bind(s)
      PROVE  FullInv'
    BY <1>t, <1>13 DEF TypeOK, HoldInv, ConnInv, FullInv, Bind, Gone, ForegroundEnds
<1>14. ASSUME NEW s \in Serves,
             Shutdown(s) \/ Signal(s) \/ ServeFails(s)
      PROVE  FullInv'
    BY <1>t, <1>14 DEF TypeOK, HoldInv, ConnInv, FullInv, Shutdown, Signal, ServeFails,
       Fault
<1>15. ASSUME NEW s \in Serves,
             Exit(s) \/ Crash(s)
      PROVE  FullInv'
    BY <1>t, <1>15 DEF TypeOK, HoldInv, ConnInv, FullInv, Exit, Crash, Gone,
       ForegroundEnds, Fault
<1>16. ASSUME NEW s \in Serves,
             SessionDies(s) \/ Logout(s)
      PROVE  FullInv'
    BY <1>t, <1>16 DEF TypeOK, HoldInv, ConnInv, FullInv, SessionDies, Logout,
       ClearSession
<1>17. ASSUME NEW s \in Serves,
             DaemonReady(s) \/ WaitFails(s)
      PROVE  FullInv'
    BY <1>t, <1>17 DEF TypeOK, HoldInv, ConnInv, FullInv, DaemonReady, WaitFails,
       Fail, Gone
<1> QED
    BY <1>0, <1>1, <1>2, <1>3, <1>4, <1>5, <1>6, <1>7, <1>8, <1>9, <1>10, <1>11,
       <1>12, <1>13, <1>14, <1>15, <1>16, <1>17
       DEF Next, CliStep, WaitStep, DaemonStep, FaultStep

\* A drained daemon stays watched until it stops or has its session back.
LEMMA NextWatched ==
  ASSUME TInv, DrainInv, FullInv, FullInv', DrainedIsWatched, [Next]_vars
  PROVE  DrainedIsWatched'
<1> DEFINE Watched(d) == \E s \in Serves : cli[s] = "transit" /\ conn[s] = d
<1> SUFFICES ASSUME NEW d \in Serves,
                    sess'[d] = "handed_off", daemon'[d] = "serving", ~stop'[d]
             PROVE  Watched(d)'
    BY DEF DrainedIsWatched, FullInv
<1>t. TypeOK /\ ConnInv
    BY DEF TInv
<1>w. sess[d] = "handed_off" /\ daemon[d] = "serving" /\ ~stop[d] => Watched(d)
    BY DEF DrainedIsWatched
<1>0. CASE UNCHANGED <<cli, conn, sess, daemon, stop>>
    BY <1>0, <1>w
<1>1. CASE UNCHANGED vars
    BY <1>0, <1>1 DEF vars
<1>2. ASSUME NEW s \in Serves, HandleHandoff(s)
      PROVE  Watched(d)'
  <2>0. conn[s] \in Serves /\ cli[s] = "posted" /\ UNCHANGED <<daemon, stop>>
      BY <1>t, <1>2 DEF TypeOK, ConnInv, HandleHandoff
  <2>1. CASE DrainSession(s, conn[s]) /\ Goto(s, "transit") /\ UNCHANGED conn
    <3>1. cli'[s] = "transit" /\ \A u \in Serves : u # s => cli'[u] = cli[u]
        BY <2>1, <1>t DEF TypeOK
    <3>2. CASE conn[s] = d
        BY <2>1, <3>1, <3>2
    <3>3. CASE conn[s] # d
      <4>1. sess[d] = "handed_off"
          BY <2>0, <2>1, <3>3, <1>t DEF TypeOK, DrainSession
      <4> QED
          BY <1>w, <2>0, <2>1, <3>1, <4>1
    <3> QED
        BY <3>2, <3>3
  <2>2. CASE /\ sess' = sess
             /\ \A u \in Serves : u # s => cli'[u] = cli[u] /\ conn'[u] = conn[u]
      BY <1>w, <2>0, <2>2
  <2> QED
      BY <1>2, <1>t, <2>1, <2>2 DEF HandleHandoff, Fail, TypeOK
<1>3. ASSUME NEW s \in Serves, HandoffReceived(s) \/ HandoffLost(s)
      PROVE  Watched(d)'
  <2>1. /\ stop' = [stop EXCEPT ![conn[s]] = TRUE] /\ UNCHANGED <<sess, daemon>>
        /\ \A u \in Serves : u # s => cli'[u] = cli[u] /\ conn'[u] = conn[u]
      BY <1>t, <1>3 DEF TypeOK, HandoffReceived, HandoffLost, Fail
  <2>2. ~stop[d] /\ conn[s] # d
      BY <1>t, <2>1 DEF TypeOK
  <2> QED
      BY <1>w, <2>1, <2>2
<1>4. ASSUME NEW s \in Serves, HandoffRolledBack(s)
      PROVE  Watched(d)'
  <2>1. /\ UNCHANGED <<stop, daemon>>
        /\ \A u \in Serves : u # s => cli'[u] = cli[u] /\ conn'[u] = conn[u]
      BY <1>t, <1>4 DEF TypeOK, HandoffRolledBack, Fail
  <2>2. sess[d] = "handed_off" /\ conn[s] # d
      BY <1>t, <1>4 DEF TypeOK, HandoffRolledBack
  <2> QED
      BY <1>w, <2>1, <2>2
<1>5. ASSUME NEW s \in Serves, RequestBroken(s)
      PROVE  Watched(d)'
  <2>1. /\ UNCHANGED <<sess, stop, daemon>> /\ daemon[conn[s]] = "gone"
        /\ \A u \in Serves : u # s => cli'[u] = cli[u] /\ conn'[u] = conn[u]
      BY <1>t, <1>5 DEF TypeOK, RequestBroken, Fail
  <2> QED
      BY <1>w, <2>1
<1>6. ASSUME NEW s \in Serves, PostHandoff(s)
      PROVE  Watched(d)'
  <2>1. /\ UNCHANGED <<sess, stop, daemon>> /\ cli[s] = "handoff"
        /\ \A u \in Serves : u # s => cli'[u] = cli[u] /\ conn'[u] = conn[u]
      BY <1>t, <1>6 DEF TypeOK, PostHandoff, Fail
  <2> QED
      BY <1>w, <2>1
<1>7. ASSUME NEW s \in Serves,
             \/ Invoke(s) \/ FoundDaemon(s) \/ NoDaemon(s) \/ ProbeTimesOut(s)
             \/ Login(s) \/ LoginFails(s) \/ PostLogout(s) \/ OldDaemonStopped(s)
             \/ StopSeenTooEarly(s) \/ DaemonReady(s)
      PROVE  Watched(d)'
  <2>1. /\ UNCHANGED <<sess, stop, daemon>> /\ cli[s] # "transit"
        /\ \A u \in Serves : u # s => cli'[u] = cli[u] /\ conn'[u] = conn[u]
      BY <1>t, <1>7 DEF TypeOK, Invoke, FoundDaemon, NoDaemon, ProbeTimesOut, Login,
         LoginFails, PostLogout, OldDaemonStopped, StopSeenTooEarly, DaemonReady, Fail
  <2> QED
      BY <1>w, <2>1
<1>8. ASSUME NEW s \in Serves, HandleLogout(s) \/ Logout(s)
      PROVE  Watched(d)'
  <2>1. /\ daemon' = daemon
        /\ \A u \in Serves : cli[u] = "transit" => cli'[u] = cli[u] /\ conn'[u] = conn[u]
      BY <1>t, <1>8 DEF TypeOK, HandleLogout, Logout, Fail
  <2>2. \/ UNCHANGED <<sess, stop>>
        \/ \E e \in Serves : ClearSession(e)
      BY <1>t, <1>8 DEF TypeOK, ConnInv, HandleLogout, Logout
  <2>3. sess[d] = "handed_off" /\ ~stop[d]
      BY <1>t, <2>2 DEF TypeOK, ClearSession
  <2> QED
      BY <1>w, <2>1, <2>3
<1>9. ASSUME NEW s \in Serves,
             \/ Spawn(s) \/ Lstat(s) \/ SocketAlive(s) \/ DialTimesOut(s)
             \/ RemoveStale(s) \/ Bind(s)
             \/ Shutdown(s) \/ Signal(s) \/ ServeFails(s) \/ SessionDies(s)
             \/ ListenGivesUp(s) \/ Exit(s) \/ Crash(s) \/ WaitFails(s)
      PROVE  Watched(d)'
  <2>1. \A u \in Serves : cli[u] = "transit" => cli'[u] = cli[u] /\ conn'[u] = conn[u]
      BY <1>t, <1>9 DEF TypeOK, Spawn, Lstat, SocketAlive, DialTimesOut, RemoveStale, Bind,
         Shutdown, Signal, ServeFails, SessionDies, ListenGivesUp, Exit, Crash, WaitFails, ForegroundEnds, Fail
  <2>2. \A u \in Serves : u # s => /\ sess'[u] = sess[u] /\ stop'[u] = stop[u]
                                   /\ daemon'[u] = daemon[u]
      BY <1>t, <1>9 DEF TypeOK, Spawn, Lstat, SocketAlive, DialTimesOut, RemoveStale, Bind,
         Shutdown, Signal, ServeFails, SessionDies, ListenGivesUp, Exit, Crash, WaitFails, Gone
  <2>3. d # s
    <3>1. CASE \/ Gone(s) \/ Spawn(s) \/ Lstat(s) \/ SocketAlive(s) \/ DialTimesOut(s)
               \/ Shutdown(s) \/ Signal(s) \/ ServeFails(s)
        BY <1>t, <3>1 DEF TypeOK, Gone, Spawn, Lstat, SocketAlive, DialTimesOut, Shutdown,
           Signal, ServeFails
    <3>2. CASE ~Gone(s) /\ (RemoveStale(s) \/ Bind(s))
        BY <1>t, <3>2 DEF TypeOK, FullInv, RemoveStale, Bind
    <3>3. CASE SessionDies(s)
        BY <1>t, <3>3 DEF TypeOK, SessionDies
    <3> QED
        BY <1>9, <3>1, <3>2, <3>3 DEF ListenGivesUp, Exit, Crash, WaitFails
  <2> QED
      BY <1>w, <2>1, <2>2, <2>3
<1> QED
    BY <1>1, <1>2, <1>3, <1>4, <1>5, <1>6, <1>7, <1>8, <1>9
       DEF Next, CliStep, WaitStep, DaemonStep, FaultStep

\* A ready daemon has a login and a drained one is settled by the end of a
\* handoff: the part of DrainedGoes that needs no fairness (attemptHandoff,
\* handleHandoff).
THEOREM DrainWatched == Spec => []DrainedIsWatched
<1>1. Init => DrainInv /\ FullInv /\ DrainedIsWatched
    BY DEF Init, DrainInv, FullInv, DrainedIsWatched
<1> QED
    BY <1>1, NextDrainInv, NextFullInv, NextWatched, TakeoverInductive, PTL DEF Spec

\* Where Baton sees a login that somebody holds, and one that nobody holds.
Placed ==
  \A l \in Serves :
    /\ \A s \in Serves : cred[s] = l => B(l)!AtServe(s)
    /\ \A d \in Serves : held[d] = l => B(l)!AtDaemon(d)
    /\ \A s \in Serves : transit[s] = l => conn[s] \in Serves
    /\ \A d, s \in Serves : transit[s] = l /\ conn[s] = d => B(l)!Between(d, s)
    /\ (\A u \in Serves : l \notin {cred[u], held[u], transit[u]}) => B(l)!Nowhere
    /\ \A u \in Serves : l \in {cred[u], held[u], transit[u]} => Chance(l) = "over"

\* SingleRefresher and LoginInv say so.
LEMMA PlaceOf == TInv => Placed
<1> SUFFICES ASSUME TInv, NEW l \in Serves
    PROVE  /\ \A s \in Serves : cred[s] = l => B(l)!AtServe(s)
           /\ \A d \in Serves : held[d] = l => B(l)!AtDaemon(d)
           /\ \A s \in Serves : transit[s] = l => conn[s] \in Serves
           /\ \A d, s \in Serves : transit[s] = l /\ conn[s] = d => B(l)!Between(d, s)
           /\ (\A u \in Serves : l \notin {cred[u], held[u], transit[u]}) => B(l)!Nowhere
           /\ \A u \in Serves : l \in {cred[u], held[u], transit[u]} => Chance(l) = "over"
    BY DEF Placed
<1>t. TypeOK /\ HoldInv /\ ConnInv /\ SingleRefresher /\ LoginInv
    BY DEF TInv
<1>1. ASSUME NEW s \in Serves, cred[s] = l PROVE B(l)!AtServe(s)
    BY <1>t, <1>1 DEF SingleRefresher, B!AtServe, InServes, InDaemons, InBodies
<1>2. ASSUME NEW d \in Serves, held[d] = l PROVE B(l)!AtDaemon(d)
    BY <1>t, <1>2 DEF SingleRefresher, B!AtDaemon, InServes, InDaemons, InBodies
<1>3. ASSUME NEW s \in Serves, transit[s] = l PROVE conn[s] \in Serves /\ B(l)!Between(conn[s], s)
  <2>1. conn[s] \in Serves
      BY <1>t, <1>3 DEF TypeOK, HoldInv, ConnInv
  <2>2. \A u \in Serves : transit[u] = l => u = s
      BY <1>t, <1>3 DEF SingleRefresher
  <2>3. InBodies(l) = {<<conn[s], s>>}
      BY <1>3, <2>1, <2>2 DEF InBodies
  <2>4. InServes(l) = {} /\ InDaemons(l) = {}
      BY <1>t, <1>3 DEF SingleRefresher, InServes, InDaemons
  <2> QED
      BY <2>1, <2>3, <2>4 DEF B!Between
<1>4. ASSUME \A u \in Serves : l \notin {cred[u], held[u], transit[u]}
      PROVE  B(l)!Nowhere
    BY <1>4 DEF B!Nowhere, InServes, InDaemons, InBodies
<1>5. ASSUME NEW u \in Serves, l \in {cred[u], held[u], transit[u]}
      PROVE  Chance(l) = "over"
    BY <1>t, <1>5 DEF LoginInv, Chance
<1> QED
    BY <1>1, <1>2, <1>3, <1>4, <1>5

\* The same of the state after a step.
LEMMA PlaceAfter == TInv' => Placed'
  BY PlaceOf, PTL

\* A step that gives the login to nobody leaves it where it is or loses it.
LEMMA NotGained ==
  ASSUME TInv, TInv', NEW l \in Serves,
         \A u \in Serves : /\ cred'[u] = l => cred[u] = l
                           /\ held'[u] = l => held[u] = l
                           /\ transit'[u] = l => transit[u] = l /\ conn'[u] = conn[u],
         Chance(l) = "over" => Chance(l)' = "over"
  PROVE  [B(l)!Next]_(B(l)!baton)
<1>p. Placed /\ Placed'
    BY PlaceOf, PlaceAfter
<1>c. Chance(l) \in {"open", "over"} /\ Chance(l)' \in {"open", "over"}
    BY DEF Chance
<1>1. CASE \A u \in Serves : l \notin {cred'[u], held'[u], transit'[u]}
  <2>1. B(l)!Nowhere'
      BY <1>1, <1>p DEF Placed
  <2>2. CASE Chance(l) = "over"
    <3>1. B(l)!Lose
        BY <2>1, <2>2 DEF B!Lose
    <3> QED
        BY <3>1 DEF B!Next
  <2>3. CASE Chance(l) = "open"
    <3>1. \A u \in Serves : l \notin {cred[u], held[u], transit[u]}
        BY <2>3, <1>p DEF Placed
    <3>2. B(l)!Nowhere
        BY <3>1, <1>p DEF Placed
    <3>3. CASE Chance(l)' = "open"
        BY <2>1, <2>3, <3>2, <3>3 DEF B!Nowhere, B!baton
    <3>4. CASE Chance(l)' = "over"
      <4>1. B(l)!Forgo
          BY <2>1, <2>3, <3>2, <3>4 DEF B!Forgo
      <4> QED
          BY <4>1 DEF B!Next
    <3> QED
        BY <1>c, <3>3, <3>4
  <2> QED
      BY <1>c, <2>2, <2>3
<1>2. ASSUME NEW u \in Serves, l \in {cred'[u], held'[u], transit'[u]}
      PROVE  [B(l)!Next]_(B(l)!baton)
  <2>1. Chance(l)' = "over" /\ Chance(l) = "over"
      BY <1>2, <1>p DEF Placed
  <2>2. CASE cred'[u] = l
    <3>1. B(l)!AtServe(u) /\ B(l)!AtServe(u)'
        BY <2>2, <1>p DEF Placed
    <3> QED
        BY <2>1, <3>1 DEF B!AtServe, B!baton
  <2>3. CASE held'[u] = l
    <3>1. B(l)!AtDaemon(u) /\ B(l)!AtDaemon(u)'
        BY <2>3, <1>p DEF Placed
    <3> QED
        BY <2>1, <3>1 DEF B!AtDaemon, B!baton
  <2>4. CASE transit'[u] = l
    <3>1. PICK d \in Serves : transit[u] = l /\ conn[u] = d /\ conn'[u] = d
        BY <2>4, <1>p DEF Placed
    <3>2. B(l)!Between(d, u) /\ B(l)!Between(d, u)'
        BY <2>4, <3>1, <1>p DEF Placed
    <3> QED
        BY <2>1, <3>2 DEF B!Between, B!baton
  <2> QED
      BY <1>2, <2>2, <2>3, <2>4
<1> QED
    BY <1>1, <1>2

\* A login that changes hands goes along one of Baton's edges.
LEMMA Moves ==
  ASSUME TInv, TInv', NEW l \in Serves, Chance(l) = "over",
         \/ \E s \in Serves : cred[s] = l /\ held'[s] = l
         \/ \E d, s \in Serves : held[d] = l /\ transit'[s] = l /\ conn'[s] = d
         \/ \E d, s \in Serves :
              transit[s] = l /\ conn[s] = d /\ (cred'[s] = l \/ held'[d] = l)
  PROVE  B(l)!Next
<1>p. Placed /\ Placed'
    BY PlaceOf, PlaceAfter
<1>c. Chance(l)' = Chance(l)
    BY <1>p DEF Placed
<1>1. ASSUME NEW s \in Serves, cred[s] = l, held'[s] = l PROVE B(l)!Next
  <2>1. B(l)!AtServe(s) /\ B(l)!AtDaemon(s)'
      BY <1>1, <1>p DEF Placed
  <2> QED
      BY <1>c, <2>1 DEF B!Next, B!Launch
<1>2. ASSUME NEW d \in Serves, NEW s \in Serves,
             held[d] = l, transit'[s] = l, conn'[s] = d
      PROVE  B(l)!Next
  <2>1. B(l)!AtDaemon(d) /\ B(l)!Between(d, s)'
      BY <1>2, <1>p DEF Placed
  <2> QED
      BY <1>c, <2>1 DEF B!Next, B!HandOver
<1>3. ASSUME NEW d \in Serves, NEW s \in Serves,
             transit[s] = l, conn[s] = d, cred'[s] = l \/ held'[d] = l
      PROVE  B(l)!Next
  <2>1. B(l)!Between(d, s) /\ (B(l)!AtServe(s)' \/ B(l)!AtDaemon(d)')
      BY <1>3, <1>p DEF Placed
  <2> QED
      BY <1>c, <2>1 DEF B!Next, B!Arrive, B!GoBack
<1> QED
    BY <1>1, <1>2, <1>3

\* Every step is, for each login, a step of Baton or not seen.
LEMMA NextHandedOn ==
  ASSUME TInv, TInv', [Next]_vars, NEW l \in Serves
  PROVE  [B(l)!Next]_(B(l)!baton)
<1>t. TypeOK /\ HoldInv /\ ConnInv /\ LoginInv
    BY DEF TInv
<1>0. CASE UNCHANGED <<cli, cred, held, transit, conn>>
    BY <1>0, NotGained DEF Chance
<1>1. CASE UNCHANGED vars
    BY <1>0, <1>1 DEF vars
<1>2. ASSUME NEW s \in Serves,
             \/ Invoke(s) \/ FoundDaemon(s) \/ NoDaemon(s) \/ ProbeTimesOut(s)
             \/ PostHandoff(s) \/ RequestBroken(s) \/ HandoffLost(s) \/ LoginFails(s)
             \/ PostLogout(s) \/ OldDaemonStopped(s) \/ StopSeenTooEarly(s)
             \/ DaemonReady(s)
      PROVE  [B(l)!Next]_(B(l)!baton)
  <2>1. /\ held' = held
        /\ \A u \in Serves :
             /\ cred'[u] = l => cred[u] = l
             /\ transit'[u] = l => transit[u] = l /\ conn'[u] = conn[u]
      BY <1>t, <1>2 DEF TypeOK, HoldInv, Invoke, FoundDaemon, NoDaemon, ProbeTimesOut,
         PostHandoff, RequestBroken, HandoffLost, LoginFails, PostLogout,
         OldDaemonStopped, StopSeenTooEarly, DaemonReady, Fail
  <2>2. cli[l] \notin NoLoginYet => cli'[l] \notin NoLoginYet
      BY <1>t, <1>2 DEF TypeOK, Invoke, FoundDaemon, NoDaemon, ProbeTimesOut,
         PostHandoff, RequestBroken, HandoffLost, LoginFails, PostLogout,
         OldDaemonStopped, StopSeenTooEarly, DaemonReady, Fail
  <2> QED
      BY <2>1, <2>2, NotGained DEF Chance
<1>3. ASSUME NEW s \in Serves, HandleLogout(s) \/ Logout(s) \/ SessionDies(s)
      PROVE  [B(l)!Next]_(B(l)!baton)
  <2>1. \A u \in Serves :
          /\ cred'[u] = l => cred[u] = l
          /\ transit'[u] = l => transit[u] = l /\ conn'[u] = conn[u]
      BY <1>t, <1>3 DEF TypeOK, HoldInv, HandleLogout, Logout, SessionDies, Fail
  <2>2. \/ held' = held
        \/ \E d \in Serves : held' = [held EXCEPT ![d] = NoOne]
      BY <1>t, <1>3 DEF TypeOK, ConnInv, HandleLogout, Logout, SessionDies, ClearSession
  <2>3. \A u \in Serves : held'[u] = l => held[u] = l
      BY <1>t, <2>2 DEF TypeOK
  <2>4. cli[l] \notin NoLoginYet => cli'[l] \notin NoLoginYet
      BY <1>t, <1>3 DEF TypeOK, HoldInv, HandleLogout, Logout, SessionDies, Fail
  <2> QED
      BY <2>1, <2>3, <2>4, NotGained DEF Chance
<1>4. ASSUME NEW s \in Serves,
             \/ Lstat(s) \/ SocketAlive(s) \/ DialTimesOut(s) \/ RemoveStale(s) \/ Bind(s)
             \/ Shutdown(s) \/ Signal(s) \/ ServeFails(s)
             \/ ListenGivesUp(s) \/ Exit(s) \/ Crash(s) \/ WaitFails(s)
      PROVE  [B(l)!Next]_(B(l)!baton)
  <2>1. \A u \in Serves :
          /\ cred'[u] = l => cred[u] = l
          /\ transit'[u] = l => transit[u] = l /\ conn'[u] = conn[u]
      BY <1>t, <1>4 DEF TypeOK, Lstat, SocketAlive, DialTimesOut, RemoveStale, Bind, Shutdown,
         Signal, ServeFails, ListenGivesUp, Exit, Crash, WaitFails, Fail
  <2>2. held' = held \/ held' = [held EXCEPT ![s] = NoOne]
      BY <1>4 DEF Lstat, SocketAlive, DialTimesOut, RemoveStale, Bind, Shutdown,
         Signal, ServeFails, ListenGivesUp, Exit, Crash, WaitFails, Gone
  <2>3. \A u \in Serves : held'[u] = l => held[u] = l
      BY <1>t, <2>2 DEF TypeOK
  <2>4. cli[l] \notin NoLoginYet => cli'[l] \notin NoLoginYet
      BY <1>t, <1>4 DEF TypeOK, Lstat, SocketAlive, DialTimesOut, RemoveStale, Bind, Shutdown,
         Signal, ServeFails, ListenGivesUp, Exit, Crash, WaitFails, Fail, ForegroundEnds
  <2> QED
      BY <2>1, <2>3, <2>4, NotGained DEF Chance
<1>5. ASSUME NEW s \in Serves, HandleHandoff(s)
      PROVE  [B(l)!Next]_(B(l)!baton)
  <2>0. conn[s] \in Serves /\ cli[s] = "posted" /\ transit[s] = NoOne
      BY <1>t, <1>5 DEF TypeOK, HoldInv, ConnInv, HandleHandoff
  <2>1. cli[l] \notin NoLoginYet => cli'[l] \notin NoLoginYet
      BY <1>t, <1>5, <2>0 DEF TypeOK, HandleHandoff, Fail
  <2>2. CASE DrainSession(s, conn[s]) /\ UNCHANGED <<conn, cred>>
    <3>1. /\ transit'[s] = held[conn[s]] /\ conn'[s] = conn[s]
          /\ \A u \in Serves : u # s => transit'[u] = transit[u]
          /\ \A u \in Serves : held'[u] = l => held[u] = l
        BY <1>t, <2>0, <2>2 DEF TypeOK, DrainSession
    <3>2. CASE held[conn[s]] = l
      <4>1. Chance(l) = "over"
          BY <1>t, <2>0, <3>2 DEF LoginInv, Chance
      <4> QED
          BY <2>0, <3>1, <3>2, <4>1, Moves
    <3>3. CASE held[conn[s]] # l
        BY <2>1, <2>2, <3>1, <3>3, NotGained DEF Chance
    <3> QED
        BY <3>2, <3>3
  <2>3. CASE /\ held' = held
             /\ \A u \in Serves :
                  /\ cred'[u] = l => cred[u] = l
                  /\ transit'[u] = l => transit[u] = l /\ conn'[u] = conn[u]
      BY <2>1, <2>3, NotGained DEF Chance
  <2> QED
      BY <1>t, <1>5, <2>0, <2>2, <2>3 DEF TypeOK, HandleHandoff, Fail
<1>6. ASSUME NEW s \in Serves, HandoffReceived(s)
      PROVE  [B(l)!Next]_(B(l)!baton)
  <2>1. /\ conn[s] \in Serves /\ cred'[s] = transit[s] /\ transit'[s] = NoOne
        /\ held' = held
        /\ \A u \in Serves : u # s => /\ cred'[u] = cred[u] /\ transit'[u] = transit[u]
                                      /\ conn'[u] = conn[u]
      BY <1>t, <1>6 DEF TypeOK, ConnInv, HandoffReceived
  <2>2. cli[l] \notin NoLoginYet => cli'[l] \notin NoLoginYet
      BY <1>t, <1>6 DEF TypeOK, HandoffReceived
  <2>3. CASE transit[s] = l
    <3>1. Chance(l) = "over"
        BY <1>t, <2>3 DEF LoginInv, Chance
    <3> QED
        BY <2>1, <2>3, <3>1, Moves
  <2>4. CASE transit[s] # l
      BY <2>1, <2>2, <2>4, NotGained DEF Chance
  <2> QED
      BY <2>3, <2>4
<1>7. ASSUME NEW s \in Serves, HandoffRolledBack(s)
      PROVE  [B(l)!Next]_(B(l)!baton)
  <2>1. /\ conn[s] \in Serves /\ cred'[s] = NoOne /\ transit'[s] = NoOne
        /\ \A u \in Serves : u # s => /\ cred'[u] = cred[u] /\ transit'[u] = transit[u]
                                      /\ conn'[u] = conn[u]
        /\ held' = held \/ held' = [held EXCEPT ![conn[s]] = transit[s]]
      BY <1>t, <1>7 DEF TypeOK, ConnInv, HandoffRolledBack, Fail
  <2>2. cli[l] \notin NoLoginYet => cli'[l] \notin NoLoginYet
      BY <1>t, <1>7 DEF TypeOK, HandoffRolledBack, Fail
  <2>3. CASE transit[s] = l /\ held' = [held EXCEPT ![conn[s]] = transit[s]]
    <3>1. Chance(l) = "over" /\ held'[conn[s]] = l
        BY <1>t, <2>1, <2>3 DEF TypeOK, LoginInv, Chance
    <3> QED
        BY <2>1, <2>3, <3>1, Moves
  <2>4. CASE transit[s] # l \/ held' = held
    <3>1. \A u \in Serves : held'[u] = l => held[u] = l
        BY <1>t, <2>1, <2>4 DEF TypeOK
    <3> QED
        BY <2>1, <2>2, <3>1, NotGained DEF Chance
  <2> QED
      BY <2>1, <2>3, <2>4
<1>8. ASSUME NEW s \in Serves, Login(s)
      PROVE  [B(l)!Next]_(B(l)!baton)
  <2>1. /\ cred'[s] = s /\ UNCHANGED <<held, transit, conn>> /\ cli[s] = "login"
        /\ \A u \in Serves : u # s => cred'[u] = cred[u] /\ cli'[u] = cli[u]
      BY <1>t, <1>8 DEF TypeOK, Login
  <2>2. cli'[s] \in {"logout", "spawn"}
      BY <1>t, <1>8 DEF TypeOK, Login
  <2>3. CASE l = s
    <3>1. \A u \in Serves : l \notin {cred[u], held[u], transit[u]}
        BY <1>t, <2>1, <2>3 DEF LoginInv
    <3>2. B(l)!Nowhere /\ B(l)!AtServe(l)'
        BY <2>1, <2>3, <3>1, PlaceOf, PlaceAfter DEF Placed
    <3>3. Chance(l) = "open" /\ Chance(l)' = "over"
        BY <2>1, <2>2, <2>3 DEF Chance
    <3> QED
        BY <3>2, <3>3 DEF B!Next, B!Obtain
  <2>4. CASE l # s
      BY <2>1, <2>4, NotGained DEF Chance
  <2> QED
      BY <2>3, <2>4
<1>9. ASSUME NEW s \in Serves, Spawn(s)
      PROVE  [B(l)!Next]_(B(l)!baton)
  <2>1. /\ held'[s] = cred[s] /\ cred'[s] = NoOne /\ UNCHANGED <<transit, conn>>
        /\ \A u \in Serves : u # s => cred'[u] = cred[u] /\ held'[u] = held[u]
      BY <1>t, <1>9 DEF TypeOK, Spawn
  <2>2. cli[l] \notin NoLoginYet => cli'[l] \notin NoLoginYet
      BY <1>t, <1>9 DEF TypeOK, Spawn
  <2>3. CASE cred[s] = l
    <3>1. Chance(l) = "over"
        BY <1>t, <2>3 DEF LoginInv, Chance
    <3> QED
        BY <2>1, <2>3, <3>1, Moves
  <2>4. CASE cred[s] # l
      BY <2>1, <2>2, <2>4, NotGained DEF Chance
  <2> QED
      BY <2>3, <2>4
<1> QED
    BY <1>1, <1>2, <1>3, <1>4, <1>5, <1>6, <1>7, <1>8, <1>9
       DEF Next, CliStep, WaitStep, DaemonStep, FaultStep

\* Through any number of takeovers, every login is obtained once, handed on along
\* the edges of Baton, and never turns up again once it is lost (attemptHandoff,
\* handleHandoff, RestoreHandoff, spawnBackgroundDaemon).
THEOREM HandedOn == Spec => LoginsAreHandedOn
<1>1. Init => \A l \in Serves : B(l)!Init
  <2> SUFFICES ASSUME Init, NEW l \in Serves PROVE B(l)!Init
      OBVIOUS
  <2>1. \A u \in Serves : l \notin {cred[u], held[u], transit[u]}
      BY DEF Init
  <2>2. B(l)!Nowhere
      BY <2>1, InitTInv, PlaceOf DEF Placed
  <2>3. Chance(l) = "open"
      BY DEF Init, Chance
  <2> QED
      BY <2>2, <2>3 DEF B!Init
<1>2. TInv /\ TInv' /\ [Next]_vars => \A l \in Serves : [B(l)!Next]_(B(l)!baton)
    BY NextHandedOn
<1>3. TInv /\ TInv' /\ [Next]_vars => [\A l \in Serves : [B(l)!Next]_(B(l)!baton)]_vars
    BY <1>2
<1> QED
    BY <1>1, <1>3, TakeoverInductive, PTL DEF Spec, LoginsAreHandedOn

=============================================================================
