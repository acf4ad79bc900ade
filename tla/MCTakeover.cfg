CONSTANTS
  Serves = {s1, s2, s3}
  NoOne = NoOne
  EnvSecrets = {k1}
  Unset = Unset
  MaxFaults = 2
SPECIFICATION Spec
CHECK_DEADLOCK FALSE
SYMMETRY Symmetry
INVARIANTS
  TypeOK
  SingleRefresher
  FailedLeavesNothing
  SecretScopesLogin
  DrainedIsWatched
  TInv
PROPERTY
  AreDaemons
  LoginsAreHandedOn
