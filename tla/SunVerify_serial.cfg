SPECIFICATION Spec
CONSTANTS
  k1 = k1
  Uids = {u1}
  Keys = {k1, k2}
  Mirrored = {u1}
  Handlers = {h1}
  MaxRead = 4
  JumpThreshold = 1
  DerivedKey <- MCDerivedKey
PROPERTIES AcceptRaisesCounter AcceptedUnderCurrentKey LedgerSpec
