------------------------------- MODULE Daemon -------------------------------
(***************************************************************************)
(* What one daemon looks like from outside: module Server implements it    *)
(* with goroutines, locks and refreshes, and module Takeover composes      *)
(* several of it around one socket.  That both do is what makes the coarse *)
(* sessions of Takeover stand for the real ones.                           *)
(*                                                                         *)
(* A session that has died stays dead.  A session that was drained comes   *)
(* back only by a rollback, and never once the daemon is about to stop, so *)
(* that a daemon never takes a usable session down with it by itself.      *)
(***************************************************************************)

VARIABLES
  life,      \* "absent", "starting", "serving", "closing" or "gone"
  session,   \* "none", "ready", "handed_off" or "dead"
  stopping   \* the daemon has decided to stop

view == <<life, session, stopping>>

Up == life \in {"serving", "closing"}

Init ==
  /\ \/ life = "absent" /\ session = "none"
     \/ life = "serving" /\ session = "ready"
  /\ stopping = FALSE

\* The process begins, with a session.
Start ==
  /\ life = "absent"
  /\ life' = "starting" /\ session' = "ready"
  /\ UNCHANGED stopping

\* It listens.
Listen ==
  /\ life = "starting"
  /\ life' = "serving"
  /\ UNCHANGED <<session, stopping>>

\* /handoff takes the session out.
Drain ==
  /\ Up /\ session = "ready"
  /\ session' = "handed_off"
  /\ UNCHANGED <<life, stopping>>

\* The answer could not be written: the session is back.
Restore ==
  /\ Up /\ session = "handed_off" /\ ~stopping
  /\ session' = "ready"
  /\ UNCHANGED <<life, stopping>>

\* The IdP refuses the refresh token for good.
Die ==
  /\ Up /\ session = "ready"
  /\ session' = "dead"
  /\ UNCHANGED <<life, stopping>>

\* /logout, also one that was accepted before the listener closed; the decision
\* to stop may come with it or later.
Logout ==
  /\ Up
  /\ session' = "dead"
  /\ stopping' \in {stopping, TRUE}
  /\ UNCHANGED life

\* Stopping is decided for a session that is not there any more.
Stop ==
  /\ Up /\ session \in {"handed_off", "dead"}
  /\ stopping' = TRUE
  /\ UNCHANGED <<life, session>>

\* The listener closes, by that decision, on a signal or by an error.
Close ==
  /\ life = "serving"
  /\ life' = "closing"
  /\ UNCHANGED <<session, stopping>>

\* The process ends, is killed, or never gets to listen.
End ==
  /\ life \notin {"absent", "gone"}
  /\ life' = "gone" /\ session' = "none" /\ stopping' = FALSE

Next ==
  Start \/ Listen \/ Drain \/ Restore \/ Die \/ Logout \/ Stop \/ Close \/ End

Spec == Init /\ [][Next]_view

=============================================================================
