SPECIFICATION Spec
CONSTANTS
  Clients = {c1, c2}
  boss = boss
  clerk = clerk
  Ids = {boss, clerk}
  SeedRoles <- OneAdmin
  Asked = {"cardwrite","carddata", "changerole", "changepw", "logout"}
  Tokens = {t1, t2}
  Handlers = {h1, h2}
  None = None
INVARIANTS PrivilegeCurrent RevokedNeverServed
SYMMETRY Symmetry
CHECK_DEADLOCK FALSE
