------------------------------ MODULE Custody ------------------------------
(***************************************************************************)
(* What a session promises about the one refresh token it was given.       *)
(*                                                                         *)
(* A refresh token is single use: the identity provider rotates it on      *)
(* every refresh, and an old one that is shown again is refused.  So at    *)
(* most one party holds the credentials at a time, only the session itself *)
(* rotates the token, and credentials that were exported to a successor,   *)
(* or wiped, never come back.                                              *)
(***************************************************************************)
EXTENDS Naturals

CONSTANT Handlers   \* the goroutines that may hold a handoff snapshot

VARIABLES
  inSession,   \* the session holds the credentials
  inTransit,   \* the handlers that hold a snapshot of them
  exported,    \* a snapshot has left the process
  generation   \* refresh tokens installed so far

custodyVars == <<inSession, inTransit, exported, generation>>

OnlySession    == inSession = TRUE /\ inTransit = {} /\ exported = FALSE
OnlyTransit(h) == inSession = FALSE /\ inTransit = {h} /\ exported = FALSE

Init == OnlySession /\ generation = 1

\* A refresh installs a rotated token.
Rotate ==
  /\ OnlySession
  /\ generation' = generation + 1
  /\ UNCHANGED <<inSession, inTransit, exported>>

\* A drain moves the credentials out of the session.
Drain(h) ==
  /\ OnlySession
  /\ inSession' = FALSE /\ inTransit' = {h}
  /\ UNCHANGED <<exported, generation>>

\* A snapshot that could not be delivered goes back.
Restore(h) ==
  /\ OnlyTransit(h)
  /\ inSession' = TRUE /\ inTransit' = {}
  /\ UNCHANGED <<exported, generation>>

\* A delivered snapshot is forgotten.
Export(h) ==
  /\ OnlyTransit(h)
  /\ inTransit' = {} /\ exported' = TRUE
  /\ UNCHANGED <<inSession, generation>>

\* Logout, a terminal refresh failure, or a restore refused after a logout.
Wipe ==
  /\ OnlySession \/ \E h \in Handlers : OnlyTransit(h)
  /\ inSession' = FALSE /\ inTransit' = {}
  /\ UNCHANGED <<exported, generation>>

Next == Rotate \/ Wipe \/ \E h \in Handlers : Drain(h) \/ Restore(h) \/ Export(h)

Spec == Init /\ [][Next]_custodyVars

=============================================================================
