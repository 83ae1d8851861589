--------------------------- MODULE AccountsProofs ---------------------------
(***************************************************************************)
(* The admin is set up before anyone is served, and nobody else passes for *)
(* the admin: proofs for any number of ids, emails, passwords and replicas.*)
(***************************************************************************)
EXTENDS Accounts, TLAPS

(***************************************************************************)
(* The strengthening.  A row has the role of its id from its insertion on, *)
(* so what a claim copied at login cannot have changed since.              *)
(***************************************************************************)
RoleOf(u) == IF u = Admin THEN Roles ELSE {}

RowsKeepRoles == \A u \in DOMAIN users : users[u].roles = RoleOf(u)

AdminFirst ==
  /\ DOMAIN users # {} => Admin \in DOMAIN users
  /\ \A n \in Replicas : replica[n].phase = "up" => Admin \in DOMAIN users
  /\ \A n \in Replicas : replica[n].phase = "upsert" => Admin \in funds
  /\ Admin \in DOMAIN users => Admin \in funds

\* What a start has still to migrate is a suffix of what the database lacks.
MigrationsFirst ==
  /\ applied <= Migrations
  /\ \A n \in Replicas : replica[n].phase = "migrate" => replica[n].next <= applied + 1
  /\ SchemaFirst

ClaimsCopyRows ==
  \A c \in claims : c.sub \in DOMAIN users /\ c.roles = RoleOf(c.sub)

FundsHaveRows ==
  /\ welcomed \subseteq DOMAIN users \cap funds
  /\ funds \subseteq DOMAIN users \cup {Admin}
  /\ DOMAIN opening \subseteq DOMAIN users

AccountsInv ==
  /\ AccountsTypeOK
  /\ RowsKeepRoles
  /\ AdminFirst
  /\ MigrationsFirst
  /\ ClaimsCopyRows
  /\ FundsHaveRows

-----------------------------------------------------------------------------
\* Enter (the phases of create_admin_user) moves one replica and no other.
LEMMA EnterMoves ==
  ASSUME replica \in [Replicas -> [phase : Phases, next : Nat, secret : Secrets]],
         NEW n \in Replicas, NEW p \in Phases, Enter(n, p)
  PROVE  /\ replica' \in [Replicas -> [phase : Phases, next : Nat, secret : Secrets]]
         /\ \A m \in Replicas :
              /\ replica'[m].phase = IF m = n THEN p ELSE replica[m].phase
              /\ replica'[m].next = IF m = n THEN 0 ELSE replica[m].next
  BY DEF Enter

\* Insert (the INSERT of both writers of users) adds one row and keeps the others.
LEMMA InsertAdds ==
  ASSUME NEW u \in Ids, NEW row \in Users, u \notin DOMAIN users,
         DOMAIN users \subseteq Ids, users \in [DOMAIN users -> Users],
         Insert(u, row)
  PROVE  /\ DOMAIN users' = DOMAIN users \cup {u}
         /\ users' \in [DOMAIN users' -> Users]
         /\ users'[u] = row
         /\ \A v \in DOMAIN users : users'[v] = users[v]
  BY DEF Insert

LEMMA InitInv == AccountsInit => AccountsInv
  <1> SUFFICES ASSUME AccountsInit PROVE AccountsInv OBVIOUS
  <1>1. DOMAIN users = {} /\ DOMAIN opening = {}
    BY DEF AccountsInit
  <1>2. users \in [DOMAIN users -> Users] /\ opening \in [DOMAIN opening -> Replicas]
    BY <1>1 DEF AccountsInit
  <1>3. replica \in [Replicas -> [phase : Phases, next : Nat, secret : Secrets]]
    BY DEF AccountsInit, Phases
  <1>4. \A n \in Replicas : replica[n].phase = "down"
    BY DEF AccountsInit
  <1>5. MigrationsFirst
    BY <1>1, <1>4, MigrationsAssumption DEF AccountsInit, MigrationsFirst, SchemaFirst
  <1> QED
    BY <1>1, <1>2, <1>3, <1>4, <1>5
    DEF AccountsInit, AccountsInv, AccountsTypeOK, RowsKeepRoles, AdminFirst,
        ClaimsCopyRows, FundsHaveRows

-----------------------------------------------------------------------------
(***************************************************************************)
(* One lemma per action.                                                   *)
(***************************************************************************)

LEMMA StartInv ==
  ASSUME AccountsInv, NEW n \in Replicas, Start(n)
  PROVE  AccountsInv'
  <1> USE DEF AccountsInv
  <1>1. /\ replica' \in [Replicas -> [phase : Phases, next : Nat, secret : Secrets]]
        /\ \A m \in Replicas : replica'[m] = IF m = n THEN replica'[n] ELSE replica[m]
        /\ replica'[n].phase = "list"
    BY DEF Start, AccountsTypeOK, Phases
  <1>2. UNCHANGED <<applied, users, funds, opening, welcomed, secret, claims>>
    BY DEF Start
  <1>3. AccountsTypeOK'
    BY <1>1, <1>2 DEF AccountsTypeOK
  <1>4. AdminFirst'
    BY <1>1, <1>2 DEF AdminFirst
  <1>5. MigrationsFirst'
    BY <1>1, <1>2 DEF MigrationsFirst, SchemaFirst
  <1> QED
    BY <1>2, <1>3, <1>4, <1>5 DEF RowsKeepRoles, ClaimsCopyRows, FundsHaveRows

LEMMA ListMigrationsInv ==
  ASSUME AccountsInv, NEW n \in Replicas, ListMigrations(n)
  PROVE  AccountsInv'
  <1> USE DEF AccountsInv
  <1>1. /\ replica' \in [Replicas -> [phase : Phases, next : Nat, secret : Secrets]]
        /\ \A m \in Replicas : replica'[m] = IF m = n THEN replica'[n] ELSE replica[m]
        /\ replica'[n].phase = "migrate" /\ replica'[n].next = applied + 1
    BY DEF ListMigrations, AccountsTypeOK, Phases
  <1>2. UNCHANGED <<applied, users, funds, opening, welcomed, secret, claims>>
    BY DEF ListMigrations
  <1>3. AccountsTypeOK'
    BY <1>1, <1>2 DEF AccountsTypeOK
  <1>4. AdminFirst'
    BY <1>1, <1>2 DEF AdminFirst
  <1>5. MigrationsFirst'
    BY <1>1, <1>2 DEF MigrationsFirst, SchemaFirst, AccountsTypeOK
  <1> QED
    BY <1>2, <1>3, <1>4, <1>5 DEF RowsKeepRoles, ClaimsCopyRows, FundsHaveRows

(***************************************************************************)
(* Migrate has three outcomes: no migration is left, which means that all  *)
(* are applied; one more is applied; or another replica was faster.        *)
(***************************************************************************)
LEMMA MigrateInv ==
  ASSUME AccountsInv, NEW n \in Replicas, Migrate(n)
  PROVE  AccountsInv'
  <1> USE DEF AccountsInv
  <1>1. /\ replica[n].phase = "migrate" /\ replica[n].next \in Nat
        /\ replica[n].next <= applied + 1 /\ applied <= Migrations
        /\ applied \in Nat /\ Migrations \in Nat
    BY MigrationsAssumption DEF Migrate, AccountsTypeOK, MigrationsFirst
  <1>2. UNCHANGED <<users, funds, opening, welcomed, secret, claims>>
    BY DEF Migrate
  <1>3. "funds" \in Phases /\ "down" \in Phases
    BY DEF Phases
  <1>4. CASE replica[n].next > Migrations /\ Enter(n, "funds") /\ UNCHANGED applied
    <2>1. /\ replica' \in [Replicas -> [phase : Phases, next : Nat, secret : Secrets]]
          /\ \A m \in Replicas :
               /\ replica'[m].phase = IF m = n THEN "funds" ELSE replica[m].phase
               /\ replica'[m].next = IF m = n THEN 0 ELSE replica[m].next
      BY <1>3, <1>4, EnterMoves DEF AccountsTypeOK
    <2>2. applied = Migrations
      BY <1>1, <1>4
    <2>3. AccountsTypeOK' /\ AdminFirst'
      BY <1>2, <1>4, <2>1 DEF AccountsTypeOK, AdminFirst
    <2>4. MigrationsFirst'
      BY <1>2, <1>4, <2>1, <2>2 DEF MigrationsFirst, SchemaFirst
    <2> QED
      BY <1>2, <2>3, <2>4 DEF RowsKeepRoles, ClaimsCopyRows, FundsHaveRows
  <1>5. CASE /\ replica[n].next = applied + 1 /\ replica[n].next <= Migrations
             /\ applied' = replica[n].next
             /\ replica' = [replica EXCEPT ![n].next = @ + 1]
    <2>1. /\ replica' \in [Replicas -> [phase : Phases, next : Nat, secret : Secrets]]
          /\ \A m \in Replicas :
               /\ replica'[m].phase = replica[m].phase
               /\ replica'[m].next = IF m = n THEN replica[m].next + 1 ELSE replica[m].next
      BY <1>1, <1>5 DEF AccountsTypeOK
    <2>2. applied' \in Nat /\ applied' = applied + 1 /\ applied' <= Migrations
      BY <1>1, <1>5
    <2>3. AccountsTypeOK' /\ AdminFirst'
      BY <1>2, <2>1, <2>2 DEF AccountsTypeOK, AdminFirst
    <2>4. SchemaFirst'
      BY <1>1, <1>2, <2>1, <2>2 DEF MigrationsFirst, SchemaFirst
    <2>5. \A m \in Replicas : replica[m].next \in Nat
      BY DEF AccountsTypeOK
    <2>6. MigrationsFirst'
      BY <1>1, <2>1, <2>2, <2>4, <2>5 DEF MigrationsFirst
    <2> QED
      BY <1>2, <2>3, <2>6 DEF RowsKeepRoles, ClaimsCopyRows, FundsHaveRows
  <1>6. CASE Enter(n, "down") /\ UNCHANGED applied
    <2>1. /\ replica' \in [Replicas -> [phase : Phases, next : Nat, secret : Secrets]]
          /\ \A m \in Replicas :
               /\ replica'[m].phase = IF m = n THEN "down" ELSE replica[m].phase
               /\ replica'[m].next = IF m = n THEN 0 ELSE replica[m].next
      BY <1>3, <1>6, EnterMoves DEF AccountsTypeOK
    <2>2. AccountsTypeOK' /\ AdminFirst'
      BY <1>2, <1>6, <2>1 DEF AccountsTypeOK, AdminFirst
    <2>3. MigrationsFirst'
      BY <1>2, <1>6, <2>1 DEF MigrationsFirst, SchemaFirst
    <2> QED
      BY <1>2, <2>2, <2>3 DEF RowsKeepRoles, ClaimsCopyRows, FundsHaveRows
  <1> QED
    BY <1>4, <1>5, <1>6 DEF Migrate

LEMMA OpenAdminFundsInv ==
  ASSUME AccountsInv, NEW n \in Replicas, OpenAdminFunds(n)
  PROVE  AccountsInv'
  <1> USE DEF AccountsInv
  <1>1. "upsert" \in Phases
    BY DEF Phases
  <1>2. /\ replica' \in [Replicas -> [phase : Phases, next : Nat, secret : Secrets]]
        /\ \A m \in Replicas :
             /\ replica'[m].phase = IF m = n THEN "upsert" ELSE replica[m].phase
             /\ replica'[m].next = IF m = n THEN 0 ELSE replica[m].next
    BY <1>1, EnterMoves DEF OpenAdminFunds, AccountsTypeOK
  <1>3. funds' = funds \cup {Admin} /\ UNCHANGED <<applied, users, opening, welcomed, secret, claims>>
    BY DEF OpenAdminFunds
  <1>4. AccountsTypeOK'
    BY <1>2, <1>3, AdminAssumption DEF AccountsTypeOK
  <1>5. AdminFirst'
    BY <1>2, <1>3 DEF AdminFirst
  <1>6. FundsHaveRows'
    BY <1>3 DEF FundsHaveRows
  <1>7. applied = Migrations
    BY DEF OpenAdminFunds, MigrationsFirst, SchemaFirst
  <1>8. MigrationsFirst'
    BY <1>2, <1>3, <1>7 DEF MigrationsFirst, SchemaFirst
  <1> QED
    BY <1>3, <1>4, <1>5, <1>6, <1>8 DEF RowsKeepRoles, ClaimsCopyRows

(***************************************************************************)
(* UpsertAdmin has three outcomes: the email's row gets the password, the  *)
(* admin's row is inserted, or the start fails.                            *)
(***************************************************************************)
LEMMA UpsertAdminInv ==
  ASSUME AccountsInv, NEW n \in Replicas, UpsertAdmin(n)
  PROVE  AccountsInv'
  <1> DEFINE s == replica[n].secret
  <1> USE DEF AccountsInv
  <1>1. /\ s \in Secrets /\ replica[n].phase = "upsert" /\ Admin \in funds
        /\ applied = Migrations
    BY DEF UpsertAdmin, AccountsTypeOK, AdminFirst, MigrationsFirst, SchemaFirst
  <1>2. UNCHANGED <<applied, funds, opening, welcomed, secret, claims>>
    BY DEF UpsertAdmin
  <1>3. "up" \in Phases /\ "down" \in Phases
    BY DEF Phases
  <1>4. CASE /\ Owner(s.email) # {}
             /\ users' = [u \in DOMAIN users |->
                           IF u \in Owner(s.email)
                             THEN [users[u] EXCEPT !.password = s.password]
                             ELSE users[u]]
             /\ Enter(n, "up")
    <2>1. Admin \in DOMAIN users
      BY <1>4 DEF Owner, AdminFirst
    <2>2. DOMAIN users' = DOMAIN users
      BY <1>4
    <2>3. \A u \in DOMAIN users : users'[u] \in Users /\ users'[u].roles = users[u].roles
      BY <1>1, <1>4 DEF AccountsTypeOK, Users, Secrets
    <2>4. users' \in [DOMAIN users' -> Users]
      BY <1>4, <2>2, <2>3
    <2>5. /\ replica' \in [Replicas -> [phase : Phases, next : Nat, secret : Secrets]]
          /\ \A m \in Replicas :
               /\ replica'[m].phase = IF m = n THEN "up" ELSE replica[m].phase
             /\ replica'[m].next = IF m = n THEN 0 ELSE replica[m].next
      BY <1>3, <1>4, EnterMoves DEF AccountsTypeOK
    <2>6. AccountsTypeOK'
      BY <1>2, <2>2, <2>4, <2>5 DEF AccountsTypeOK
    <2>7. RowsKeepRoles'
      BY <2>2, <2>3 DEF RowsKeepRoles, RoleOf
    <2>8. AdminFirst'
      BY <1>1, <1>2, <2>1, <2>2, <2>5 DEF AdminFirst
    <2>9. ClaimsCopyRows' /\ FundsHaveRows'
      BY <1>2, <2>2 DEF ClaimsCopyRows, FundsHaveRows, RoleOf
    <2>10. MigrationsFirst'
      BY <1>1, <1>2, <2>5 DEF MigrationsFirst, SchemaFirst
    <2> QED
      BY <2>6, <2>7, <2>8, <2>9, <2>10
  <1>5. CASE /\ Owner(s.email) = {} /\ Admin \notin DOMAIN users
             /\ Insert(Admin, [email |-> s.email, password |-> s.password, roles |-> Roles])
             /\ Enter(n, "up")
    <2> DEFINE row == [email |-> s.email, password |-> s.password, roles |-> Roles]
    <2>0. row \in Users /\ row.roles = Roles
      BY <1>1 DEF Users, Secrets
    <2>1. Insert(Admin, row) /\ Admin \notin DOMAIN users
      BY <1>5
    <2> HIDE DEF row
    <2>2. /\ DOMAIN users' = DOMAIN users \cup {Admin}
          /\ users' \in [DOMAIN users' -> Users]
          /\ users'[Admin].roles = Roles
          /\ \A v \in DOMAIN users : users'[v] = users[v]
      BY <2>0, <2>1, InsertAdds, AdminAssumption DEF AccountsTypeOK
    <2>3. /\ replica' \in [Replicas -> [phase : Phases, next : Nat, secret : Secrets]]
          /\ \A m \in Replicas :
               /\ replica'[m].phase = IF m = n THEN "up" ELSE replica[m].phase
             /\ replica'[m].next = IF m = n THEN 0 ELSE replica[m].next
      BY <1>3, <1>5, EnterMoves DEF AccountsTypeOK
    <2>4. AccountsTypeOK'
      BY <1>2, <2>2, <2>3, AdminAssumption DEF AccountsTypeOK
    <2>5. RowsKeepRoles'
      BY <2>2 DEF RowsKeepRoles, RoleOf
    <2>6. AdminFirst'
      BY <1>1, <1>2, <2>2, <2>3 DEF AdminFirst
    <2>7. ClaimsCopyRows' /\ FundsHaveRows'
      BY <1>2, <2>2 DEF ClaimsCopyRows, FundsHaveRows, RoleOf
    <2>8. MigrationsFirst'
      BY <1>1, <1>2, <2>3 DEF MigrationsFirst, SchemaFirst
    <2> QED
      BY <2>4, <2>5, <2>6, <2>7, <2>8
  <1>6. CASE Enter(n, "down") /\ UNCHANGED users
    <2>1. /\ replica' \in [Replicas -> [phase : Phases, next : Nat, secret : Secrets]]
          /\ \A m \in Replicas :
               /\ replica'[m].phase = IF m = n THEN "down" ELSE replica[m].phase
             /\ replica'[m].next = IF m = n THEN 0 ELSE replica[m].next
      BY <1>3, <1>6, EnterMoves DEF AccountsTypeOK
    <2>2. AccountsTypeOK' /\ AdminFirst'
      BY <1>2, <1>6, <2>1 DEF AccountsTypeOK, AdminFirst
    <2>3. MigrationsFirst'
      BY <1>1, <1>2, <2>1 DEF MigrationsFirst, SchemaFirst
    <2> QED
      BY <1>2, <1>6, <2>2, <2>3 DEF RowsKeepRoles, ClaimsCopyRows, FundsHaveRows, RoleOf
  <1> QED
    BY <1>4, <1>5, <1>6 DEF UpsertAdmin

LEMMA StopInv ==
  ASSUME AccountsInv, NEW n \in Replicas, Stop(n)
  PROVE  AccountsInv'
  <1> USE DEF AccountsInv
  <1>1. "down" \in Phases
    BY DEF Phases
  <1>2. /\ replica' \in [Replicas -> [phase : Phases, next : Nat, secret : Secrets]]
        /\ \A m \in Replicas :
             /\ replica'[m].phase = IF m = n THEN "down" ELSE replica[m].phase
             /\ replica'[m].next = IF m = n THEN 0 ELSE replica[m].next
    BY <1>1, EnterMoves DEF Stop, AccountsTypeOK
  <1>3. UNCHANGED <<applied, users, funds, welcomed, secret, claims>>
    BY DEF Stop
  <1>4. /\ DOMAIN opening' \subseteq DOMAIN opening
        /\ opening' \in [DOMAIN opening' -> Replicas]
    BY DEF Stop, AccountsTypeOK
  <1>5. AccountsTypeOK'
    BY <1>2, <1>3, <1>4 DEF AccountsTypeOK
  <1>6. AdminFirst' /\ FundsHaveRows'
    BY <1>2, <1>3, <1>4 DEF AdminFirst, FundsHaveRows
  <1>7. MigrationsFirst'
    BY <1>2, <1>3 DEF MigrationsFirst, SchemaFirst
  <1> QED
    BY <1>3, <1>5, <1>6, <1>7 DEF RowsKeepRoles, ClaimsCopyRows, RoleOf

-----------------------------------------------------------------------------
LEMMA RegisterInv ==
  ASSUME AccountsInv, NEW n \in Replicas, NEW u \in Ids, NEW email \in Emails,
         NEW password \in Passwords, Register(n, u, email, password)
  PROVE  AccountsInv'
  <1> USE DEF AccountsInv
  <1> DEFINE row == [email |-> email, password |-> password, roles |-> {}]
  <1>0. row \in Users /\ row.roles = {}
    BY DEF Users
  <1>1. Insert(u, row) /\ u \notin DOMAIN users
    BY DEF Register
  <1> HIDE DEF row
  <1>2. /\ DOMAIN users' = DOMAIN users \cup {u}
        /\ users' \in [DOMAIN users' -> Users]
        /\ users'[u].roles = {}
        /\ \A v \in DOMAIN users : users'[v] = users[v]
    BY <1>0, <1>1, InsertAdds DEF AccountsTypeOK
  <1>3. /\ DOMAIN opening' = DOMAIN opening \cup {u}
        /\ opening' \in [DOMAIN opening' -> Replicas]
    BY DEF Register, AccountsTypeOK
  <1>4. UNCHANGED <<applied, funds, welcomed, secret, replica, claims>> /\ u # Admin
        /\ replica[n].phase = "up" /\ applied = Migrations
    BY DEF Register, MigrationsFirst, SchemaFirst
  <1>5. AccountsTypeOK'
    BY <1>2, <1>3, <1>4 DEF AccountsTypeOK
  <1>6. RowsKeepRoles'
    BY <1>2, <1>4 DEF RowsKeepRoles, RoleOf
  <1>7. AdminFirst'
    BY <1>2, <1>4 DEF AdminFirst
  <1>8. ClaimsCopyRows' /\ FundsHaveRows'
    BY <1>2, <1>3, <1>4 DEF ClaimsCopyRows, FundsHaveRows, RoleOf
  <1>9. MigrationsFirst'
    BY <1>4 DEF MigrationsFirst, SchemaFirst
  <1> QED
    BY <1>5, <1>6, <1>7, <1>8, <1>9

LEMMA OpenFundsInv ==
  ASSUME AccountsInv, NEW u \in DOMAIN opening, OpenFunds(u) \/ Abandon(u)
  PROVE  AccountsInv'
  <1> USE DEF AccountsInv
  <1>1. /\ DOMAIN opening' \subseteq DOMAIN opening
        /\ opening' \in [DOMAIN opening' -> Replicas]
        /\ UNCHANGED <<applied, users, secret, replica, claims>>
    BY DEF OpenFunds, Abandon, AccountsTypeOK
  <1>2. /\ funds' \in {funds, funds \cup {u}}
        /\ welcomed' = welcomed \/ (welcomed' = welcomed \cup {u} /\ u \in funds')
    BY DEF OpenFunds, Abandon
  <1>3. u \in DOMAIN users /\ u \in Ids
    BY DEF FundsHaveRows, AccountsTypeOK
  <1>4. AccountsTypeOK'
    BY <1>1, <1>2, <1>3 DEF AccountsTypeOK
  <1>5. AdminFirst'
    BY <1>1, <1>2 DEF AdminFirst
  <1>6. FundsHaveRows'
    BY <1>1, <1>2, <1>3 DEF FundsHaveRows
  <1>7. MigrationsFirst'
    BY <1>1, <1>3 DEF MigrationsFirst, SchemaFirst
  <1> QED
    BY <1>1, <1>4, <1>5, <1>6, <1>7 DEF RowsKeepRoles, ClaimsCopyRows, RoleOf

LEMMA LoginInv ==
  ASSUME AccountsInv, NEW n \in Replicas, NEW u \in DOMAIN users, NEW password \in Passwords,
         Login(n, u, password)
  PROVE  AccountsInv'
  <1> USE DEF AccountsInv
  <1>1. /\ claims' = claims \cup {[sub |-> u, roles |-> users[u].roles]}
        /\ UNCHANGED <<applied, users, funds, opening, welcomed, secret, replica>>
    BY DEF Login
  <1>2. [sub |-> u, roles |-> users[u].roles] \in Claims
    BY DEF AccountsTypeOK, Users, Claims
  <1>3. AccountsTypeOK'
    BY <1>1, <1>2 DEF AccountsTypeOK
  <1>4. ClaimsCopyRows'
    BY <1>1 DEF ClaimsCopyRows, RowsKeepRoles, RoleOf
  <1> QED
    BY <1>1, <1>3, <1>4
    DEF RowsKeepRoles, AdminFirst, FundsHaveRows, RoleOf, MigrationsFirst, SchemaFirst

\* Rotate and Expire touch one variable each.
LEMMA OtherInv ==
  ASSUME AccountsInv,
         (\E s \in Secrets : Rotate(s)) \/ (\E c \in claims : Expire(c))
           \/ UNCHANGED accountsVars
  PROVE  AccountsInv'
  <1> USE DEF AccountsInv
  <1>1. /\ UNCHANGED <<applied, users, funds, opening, welcomed, replica>>
        /\ secret' \in Secrets /\ claims' \subseteq claims
    BY DEF Rotate, Expire, accountsVars, AccountsTypeOK
  <1>2. AccountsTypeOK' /\ ClaimsCopyRows'
    BY <1>1 DEF AccountsTypeOK, ClaimsCopyRows, RoleOf
  <1> QED
    BY <1>1, <1>2
    DEF RowsKeepRoles, AdminFirst, FundsHaveRows, RoleOf, MigrationsFirst, SchemaFirst

LEMMA StepInv == AccountsInv /\ [AccountsNext]_accountsVars => AccountsInv'
  BY StartInv, ListMigrationsInv, MigrateInv, OpenAdminFundsInv, UpsertAdminInv, StopInv,
     RegisterInv, OpenFundsInv, LoginInv, OtherInv
  DEF AccountsNext, ComeUp

\* The strengthening holds in every reachable state of Accounts.
THEOREM AccountsInvariant == AccountsSpec => []AccountsInv
  BY InitInv, StepInv, PTL DEF AccountsSpec

-----------------------------------------------------------------------------
\* The variables of Accounts keep their types: what register, login and
\* create_admin_user write is what the table, the ledger and the tokens hold.
THEOREM AccountsTypeCorrect == AccountsSpec => []AccountsTypeOK
  <1>1. AccountsInv => AccountsTypeOK
    BY DEF AccountsInv
  <1> QED
    BY <1>1, AccountsInvariant, PTL

\* No row, no funds account and no replica past its migrations comes before all the
\* migrations have been run, however many replicas race for them.
THEOREM SchemaAlwaysFirst == AccountsSpec => []SchemaFirst
  <1>1. AccountsInv => SchemaFirst
    BY DEF AccountsInv, MigrationsFirst
  <1> QED
    BY <1>1, AccountsInvariant, PTL

\* Whenever a replica serves or a user exists, the admin has its role and its funds
\* account, whatever create_admin_user met while the replicas started.
THEOREM AdminAlwaysReady == AccountsSpec => []ReadyMeansAdmin
  <1>1. AccountsInv => ReadyMeansAdmin
    BY DEF AccountsInv, AdminFirst, RowsKeepRoles, RoleOf, ReadyMeansAdmin
  <1> QED
    BY <1>1, AccountsInvariant, PTL

\* register leaves no funds account without its user, and welcomes nobody without one.
THEOREM FundsAlwaysFollowUsers == AccountsSpec => []FundsFollowUsers
  <1>1. AccountsInv => FundsFollowUsers
    BY DEF AccountsInv, FundsHaveRows, FundsFollowUsers
  <1> QED
    BY <1>1, AccountsInvariant, PTL

\* The roles a token carries are those of its user's row for as long as it is valid,
\* so UserIdCheck never decides on stale ones.
THEOREM ClaimsAlwaysTrue == AccountsSpec => []ClaimsStayTrue
  <1>1. AccountsInv => ClaimsStayTrue
    <2> SUFFICES ASSUME AccountsInv, NEW c \in claims, NEW account \in Ids
                 PROVE  /\ c.sub \in DOMAIN users
                        /\ UserIdCheck(c, account)
                             <=> UserIdCheck([sub |-> c.sub, roles |-> users[c.sub].roles],
                                             account)
      BY DEF ClaimsStayTrue
    <2>1. c.sub \in DOMAIN users /\ c.roles = users[c.sub].roles
      BY DEF AccountsInv, ClaimsCopyRows, RowsKeepRoles
    <2> QED
      BY <2>1 DEF UserIdCheck, AdminCheck
  <1> QED
    BY <1>1, AccountsInvariant, PTL

\* A token passes AdminCheck if and only if it is the admin's own.
THEOREM OnlyTheAdminAlways == AccountsSpec => []OnlyTheAdmin
  <1>1. AccountsInv => OnlyTheAdmin
    BY DEF AccountsInv, ClaimsCopyRows, RoleOf, OnlyTheAdmin, AdminCheck, Roles
  <1> QED
    BY <1>1, AccountsInvariant, PTL

=============================================================================
