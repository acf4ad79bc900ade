CONSTANTS
  Serves = {s1, s2}
  NoOne = NoOne
  EnvSecrets = {k1}
  Unset = Unset
  MaxFaults = 0
SPECIFICATION Spec
CHECK_DEADLOCK FALSE
INVARIANT
  NeverOrphaned
