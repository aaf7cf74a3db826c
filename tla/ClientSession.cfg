SPECIFICATION FairSpec
CONSTANTS
  Pairs = {1, 2, 3}
  Calls = {c1, c2}
  Nil = Nil
INVARIANTS
  TypeOK
  NoRevokedTokenKept
  LogoutEndsSession
  ReplayRefused
PROPERTY EveryCallEnds
CHECK_DEADLOCK FALSE
