---------------------------- MODULE TakeoverInv ----------------------------
(***************************************************************************)
(* The inductive invariant behind the theorems of TakeoverProofs.          *)
(***************************************************************************)
EXTENDS Takeover

\* Where a serve has not started its daemon.
NoDaemonYet == NoLoginYet \cup {"logout", "logout_posted", "logout_wait", "spawn"}

\* A login is where the progress of the serve says it is, and a daemon has one
\* only in a ready session.
HoldInv ==
  \A s \in Serves :
    /\ cli[s] \in NoDaemonYet => daemon[s] = "none"
    /\ cli[s] = "failed" => daemon[s] \in {"none", "gone"}
    /\ cli[s] \notin {"idle", "probe", "failed"} => sec[s] # Unset
    /\ held[s] # NoOne => sess[s] = "ready" /\ daemon[s] \notin {"none", "gone"}
    /\ cred[s] # NoOne => cli[s] \in {"logout", "logout_posted", "logout_wait", "spawn"}
    /\ transit[s] # NoOne => cli[s] = "transit"

\* A request goes to a daemon that was started, and a handoff to one under the
\* serve's own secret.
ConnInv ==
  \A s \in Serves :
    /\ conn[s] # NoOne => daemon[conn[s]] # "none"
    /\ cli[s] \in {"posted", "transit", "logout_posted"} => conn[s] # NoOne
    /\ cli[s] = "transit" => sec[conn[s]] = sec[s]

\* Nobody holds a login that has not been performed.
LoginInv ==
  \A s, u \in Serves :
    s \in {held[u], cred[u], transit[u]} => cli[s] \notin NoLoginYet

\* A session lives as long as its daemon, and a drained one is on its way to one
\* serve only, for as long as its daemon may take it back.
DrainInv ==
  /\ \A d \in Serves :
       /\ sess[d] = "none" <=> daemon[d] \in {"none", "gone"}
       /\ sess[d] \in {"none", "ready"} => ~stop[d]
  /\ \A s \in Serves :
       /\ cli[s] = "waiting" => daemon[s] # "none"
       /\ cli[s] \in {"posted", "transit", "logout_posted"} => daemon[conn[s]] \in Up \cup {"gone"}
       /\ cli[s] = "transit" =>
            /\ sess[conn[s]] # "ready"
            /\ sess[conn[s]] = "handed_off" => ~stop[conn[s]]
            /\ \A u \in Serves : cli[u] = "transit" /\ conn[u] = conn[s] => u = s

\* Nobody is where a login should be with empty hands, and only a daemon that
\* has listened loses its session.
FullInv ==
  \A s \in Serves :
    /\ cli[s] \in {"logout", "logout_posted", "logout_wait", "spawn"} => cred[s] # NoOne
    /\ cli[s] = "transit" => transit[s] # NoOne
    /\ sess[s] = "ready" => held[s] # NoOne
    /\ sess[s] \in {"handed_off", "dead"} => daemon[s] \in Up

\* All of it.
TInv ==
  /\ TypeOK /\ HoldInv /\ ConnInv /\ LoginInv
  /\ SingleRefresher /\ SecretScopesLogin

=============================================================================
