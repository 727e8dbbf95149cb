SPECIFICATION Spec
CONSTANTS
  Servers = {s1, s2}
  Tools = {tool}
  Uids = {u1}
  KeyValues = {key1, key2}
  MaxStarts = 2
  None = None
INVARIANTS KeysAgree KeyKept NoCircle
PROPERTY StartSettles
CHECK_DEADLOCK FALSE
