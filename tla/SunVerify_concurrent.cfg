SPECIFICATION Spec
CONSTANTS
  k1 = k1
  Uids = {u1, u2}
  Keys = {k1}
  Mirrored = {u1}
  Handlers = {h1, h2}
  MaxRead = 4
  JumpThreshold = 1
  DerivedKey <- MCDerivedKey
INVARIANTS TypeOK StoredCounterWasAccepted RepeatedWasAccepted
PROPERTIES BaselineKept FlagKept RefusalFlags
