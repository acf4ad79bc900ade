------------------------------ MODULE MCLogin ------------------------------
(* Instances of DeviceLogin and Expiry for TLC. *)
EXTENDS LoginInv

Home(host) == [scheme |-> "https", host |-> host]

\* Names inside the zone (in capitals and mixed case, with the root), and names
\* that only look like it; and a URL without TLS.
SomeURLs ==
  {Home(<<"auth", "x", "ai">>), Home(<<"X", "AI", "">>), Home(<<"x", "Ai">>),
   Home(<<"notx", "ai">>), Home(<<"x", "ai", "evil">>), Home(<<"", "x", "ai">>),
   Home(<<"x", "ai", "", "">>), Home(<<"ai">>),
   [scheme |-> "http", host |-> <<"x", "ai">>]}

=============================================================================
