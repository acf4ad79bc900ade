----------------------------- MODULE SessionInv -----------------------------
(***************************************************************************)
(* The inductive invariant behind the theorems of SessionProofs.           *)
(***************************************************************************)
EXTENDS Session

\* opMu is held across the IdP call, on behalf of a session that was ready.
LockInv ==
  /\ \A t \in Threads : pc[t] \in {"call", "reply"} <=> opMu = t
  /\ \A t \in Threads : opMu = t => /\ state \in {"ready", "reauth_required"}
                                   /\ rtArg[t] = nRT
  /\ \A t \in Threads : ret[t] # "none" => pc[t] = "reply"
  /\ \A t \in Threads : ret[t] \in {"rotated", "kept"} => nAT <= MaxRefresh

\* The call in the singleflight's map has exactly one leader.
FlightInv ==
  /\ OneRefresh
  /\ \A t \in Threads :
       /\ pc[t] \in {"wait", "refresh", "call", "reply"} => call.status = "running"
       /\ pc[t] = "delete" => call.status = "done"
       /\ pc[t] \notin {"delete", "done"} => resp[t] = NoResult
  /\ call.status # "done" => call.res = NoResult

\* One snapshot at most, of the newest tokens, and no refresh beside it.
SnapInv ==
  /\ \A t \in Threads : pc[t] # "snapshot" => snap[t] = NoSnap
  /\ \A t \in Threads : pc[t] = "snapshot" =>
       /\ snap[t] = [at |-> nAT, rt |-> nRT]
       /\ ~exported
       /\ \A u \in Threads : pc[u] = "snapshot" => u = t
  /\ (exported \/ \E t \in Threads : pc[t] = "snapshot") =>
       opMu = NoThread /\ state \in {"handed_off", "reauth_required"}

\* The newest refresh token is spent only in a lost answer, in an answer about
\* to be installed, or in one that was dropped with the session.
SpentInv ==
  /\ \A rt \in consumed \cup wire : rt <= nRT
  /\ nRT \in consumed \ lost =>
       \/ \E t \in Threads : ret[t] = "rotated"
       \/ /\ opMu = NoThread /\ state \in Dead
          /\ \A t \in Threads : pc[t] # "snapshot"

\* What a flight may still answer is new enough for everyone who can get it.
StaleInv ==
  /\ \A t \in Threads : since[t] <= nAT \/ (since[t] = nAT + 1 /\ age = "expired")
  /\ call.status = "done" /\ call.res.tok # 0 =>
       /\ call.res.tok = nAT
       /\ \A t \in Threads : pc[t] = "do" => since[t] <= nAT

\* A finished flight reports a permanent error only of a session that is over,
\* and lastError fits the state.
ErrInv ==
  /\ call.res.err \in {"reauth", "tier"} => state \in Dead
  /\ state = "ready" => lastError \in {"none", "refresh_failed"}
  /\ state = "handed_off" => lastError = "handed_off"

\* All of it: the properties proper and what makes them inductive.
IInv ==
  /\ TypeOK /\ WipedUnlessReady /\ LogoutFinal
  /\ LockInv /\ FlightInv /\ SnapInv /\ SpentInv
  /\ StaleInv /\ NoStaleToken /\ ErrInv /\ PermanentErrorsAreTrue

=============================================================================
