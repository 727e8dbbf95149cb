SPECIFICATION Spec
CONSTANTS
  k1 = k1
  Uids = {u1}
  Keys = {k1}
  Mirrored = {u1}
  Handlers = {h1, h2}
  MaxRead = 5
  JumpThreshold = 1
  DerivedKey <- MCDerivedKey
PROPERTY AcceptRaisesCounter
