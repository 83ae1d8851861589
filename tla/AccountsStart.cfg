SPECIFICATION AccountsSpec
CONSTANTS
  Ids = {root, alice}
  Admin = root
  Emails = {office, home}
  Passwords = {old, new}
  Replicas = {r1, r2}
  Migrations = 2
INVARIANTS
  FinishedMeansAdmin
CHECK_DEADLOCK FALSE
