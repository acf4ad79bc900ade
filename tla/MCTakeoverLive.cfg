CONSTANTS
  Serves = {s1, s2}
  NoOne = NoOne
  EnvSecrets = {k1}
  Unset = Unset
  MaxFaults = 4
SPECIFICATION FairSpec
CHECK_DEADLOCK FALSE
PROPERTY
  ServeReturns
  DrainedGoes
  ChildSettles
