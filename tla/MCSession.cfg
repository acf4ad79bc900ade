CONSTANTS
  Threads = {t1, t2, t3}
  NoThread = NoThread
  MaxRefresh = 1
SYMMETRY Symmetry
SPECIFICATION Spec
INVARIANTS
  TypeOK
  WipedUnlessReady
  HeldTokenUnspent
  LogoutFinal
  PermanentErrorsAreTrue
  LastErrorExplains
  NoStaleToken
  OneRefresh
  WaitsAreServed
  IInv
PROPERTIES
  StickyStates
  CustodyKept
