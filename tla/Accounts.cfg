SPECIFICATION FairAccountsSpec
CONSTANTS
  Ids = {root, alice}
  Admin = root
  Emails = {office, home}
  Passwords = {old, new}
  Replicas = {r1, r2}
  Migrations = 2
INVARIANTS
  AccountsTypeOK
  SchemaFirst
  ReadyMeansAdmin
  FundsFollowUsers
  ClaimsStayTrue
  OnlyTheAdmin
PROPERTIES
  ReplicasComeUp
CHECK_DEADLOCK FALSE
