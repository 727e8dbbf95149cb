SPECIFICATION Spec
CONSTANTS
  root = root
  ann = ann
  p1 = p1
  i1 = i1
  t1 = t1
  t2 = t2
  Nobody = Nobody
  Names = {root, ann}
  Uuids = {i1}
  Passwords = {p1, p2}
  Tokens = {t1, t2}
  Handlers = {h1}
  Operations = {"login", "logout", "changepw", "changerole", "create", "reset"}
  LegacyName = root
  LegacyPw = p1
  Seeded = {}
  SeedRow <- EmptySeed
  SeedSessions <- NoSessions
  Restarts = TRUE
INVARIANTS AtLeastOneAdmin UniqueNames BootstrapMarked SessionRoleCurrent ForcedChange
PROPERTIES BootstrapOnce AccountsSpec
SYMMETRY TokenSymmetry
VIEW SerialView
