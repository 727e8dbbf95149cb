SPECIFICATION Spec
CONSTANTS
  root = root
  ann = ann
  p1 = p1
  i1 = i1
  t1 = t1
  t2 = t2
  Nobody = Nobody
  Names = {root, ann}
  Uuids = {i1}
  Passwords = {p1}
  Tokens = {t1, t2, t3}
  Handlers = {h1, h2}
  Operations = {"login"}
  LegacyName = root
  LegacyPw = p1
  Seeded = {root, i1}
  SeedRow <- TwoAdmins
  SeedSessions <- NoSessions
  Restarts = FALSE
INVARIANT ReplyIsOwn
