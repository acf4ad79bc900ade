------------------------------- MODULE Baton -------------------------------
(***************************************************************************)
(* The life of one login among the processes of several serves, as the     *)
(* takeover protocol promises it: the login is obtained once, is in one    *)
(* place at a time, and is handed on like a baton.  A serve gives it to    *)
(* the daemon it starts and to no other; a daemon gives it away in the     *)
(* body of one handoff, from where it reaches the serve that asked for it  *)
(* or goes back to that daemon; and once it is lost it is lost for good.   *)
(***************************************************************************)
CONSTANT Procs   \* serves, each with the daemon it may start

VARIABLES
  chance,   \* "open" while the login may still be performed, then "over"
  serves,   \* the serves whose command-line process holds the login
  daemons,  \* the daemons whose session holds it
  bodies    \* <<daemon, serve>> for each handoff body that carries it

baton == <<chance, serves, daemons, bodies>>

Nowhere       == serves = {} /\ daemons = {} /\ bodies = {}
AtServe(p)    == serves = {p} /\ daemons = {} /\ bodies = {}
AtDaemon(p)   == serves = {} /\ daemons = {p} /\ bodies = {}
Between(p, q) == serves = {} /\ daemons = {} /\ bodies = {<<p, q>>}

Init == chance = "open" /\ Nowhere

\* The device login succeeds.
Obtain(p) ==
  /\ chance = "open" /\ Nowhere
  /\ chance' = "over" /\ AtServe(p)'

\* It fails, or is not needed because another login was taken over.
Forgo ==
  /\ chance = "open" /\ Nowhere
  /\ chance' = "over" /\ Nowhere'

\* The serve starts its daemon with it.
Launch(p) == AtServe(p) /\ AtDaemon(p)' /\ UNCHANGED chance

\* The daemon is drained for serve q.
HandOver(p, q) == AtDaemon(p) /\ Between(p, q)' /\ UNCHANGED chance

\* The body arrives.
Arrive(p, q) == Between(p, q) /\ AtServe(q)' /\ UNCHANGED chance

\* The body could not be written.
GoBack(p, q) == Between(p, q) /\ AtDaemon(p)' /\ UNCHANGED chance

\* Wherever it is, it may be wiped or go down with its process.
Lose == chance = "over" /\ Nowhere' /\ UNCHANGED chance

Next ==
  \/ Forgo \/ Lose
  \/ \E p \in Procs :
       \/ Obtain(p) \/ Launch(p)
       \/ \E q \in Procs : HandOver(p, q) \/ Arrive(p, q) \/ GoBack(p, q)

Spec == Init /\ [][Next]_baton

=============================================================================
