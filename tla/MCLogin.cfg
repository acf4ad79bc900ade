CONSTANTS
  URLs <- SomeURLs
  Numbers = {0, 1, 4, 40}
  Second = 2
  Half = 64
  IDPRequestTimeout = 2
  MaxDeviceAuthWindow = 4
  MaxDevicePollInterval = 2
  RefreshSkew = 4
  MaxDelay = 1
  MaxSlip = 5
  Horizon = 18
SPECIFICATION FairSpec
CHECK_DEADLOCK FALSE
INVARIANTS
  LoginTypeOK
  StaysHome
  LoginEndsInTime
  KeepsInterval
  FreshIsValid
  TakeoverKeepsExpiry
  LInv
PROPERTY LoginEnds
