-------------------------------- MODULE Pin --------------------------------
(***************************************************************************)
(* Which URLs the program trusts: internal/protocol/pin.go and the         *)
(* redirect policy of internal/protocol/httpclient.go.                     *)
(*                                                                         *)
(* A URL is a scheme and a host.  A host is the sequence of the labels     *)
(* between its dots, so that an empty label stands for a leading, trailing *)
(* or doubled dot.  Labels are ASCII, as DNS has them; what net/url makes  *)
(* of ports, user names and paths, and the limit on a URL's length, are    *)
(* not modelled.                                                           *)
(***************************************************************************)
EXTENDS Integers, Sequences

\* The empty label.
Empty == ""

NoURL == [scheme |-> "none", host |-> <<Empty>>]

\* The spellings of the two labels that matter.
SpelledX  == {"x", "X"}
SpelledAi == {"ai", "aI", "Ai", "AI"}

\* strings.ToLower.  A label that does not become x or ai is compared with
\* nothing else and may stay as it is.
ToLower(label) ==
  CASE label \in SpelledX  -> "x"
    [] label \in SpelledAi -> "ai"
    [] OTHER               -> label

\* strings.TrimSuffix(h, "."): the root label, once.
TrimRoot(h) == IF Len(h) > 1 /\ h[Len(h)] = Empty THEN SubSeq(h, 1, Len(h) - 1) ELSE h

\* Mutant: only the end of the name is compared.
SuffixAi(host) ==
  LET h == TrimRoot(host) IN ToLower(h[Len(h)]) = "ai"

\* Lower case, one trailing dot off, no empty label, and x.ai at the end.
IsXAIHost(host) ==
  LET h == TrimRoot(host)
      n == Len(h)
  IN  /\ n >= 2
      /\ \A i \in 1 .. n : h[i] # Empty
      /\ ToLower(h[n - 1]) = "x" /\ ToLower(h[n]) = "ai"

\* Endpoints and redirects.
ValidateXAIURL(u) == u.scheme = "https" /\ IsXAIHost(u.host)

\* Where the user is sent; control characters are not modelled either.
ValidateVerificationURI(u) ==
  CASE u.scheme = "https" -> IsXAIHost(u.host)
    [] OTHER              -> FALSE

\* Mutant: one redirect too many.
SixRequests(u, via) == via <= 5 /\ ValidateXAIURL(u)

\* checkIDPRedirect, after `via` requests.
CheckIDPRedirect(u, via) == via < 5 /\ ValidateXAIURL(u)

\* Reference: a name resolves inside the zone x.ai when some labels of its own,
\* then x and ai in any case, then perhaps the root, spell it.
InZone(host) ==
  \E n \in 2 .. Len(host) :
    /\ \A i \in 1 .. Len(host) : host[i] = Empty <=> i > n
    /\ Len(host) <= n + 1
    /\ host[n - 1] \in SpelledX /\ host[n] \in SpelledAi

=============================================================================
