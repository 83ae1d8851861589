------------------------------ MODULE Accounts ------------------------------
(***************************************************************************)
(* Who the users are: the table users in PostgreSQL, the funds accounts in *)
(* TigerBeetle, the start of a replica, which migrates the database and    *)
(* sets up the admin in both before it serves, and the tokens that carry a *)
(* user's roles from login to the guards of later requests.                *)
(*                                                                         *)
(* register and create_admin_user each write two stores, in opposite       *)
(* orders, with nothing that spans the two, while other replicas do the    *)
(* same; the secret with the admin's email and password is read once, when *)
(* a replica starts, and may be rotated at any time.                       *)
(***************************************************************************)
EXTENDS Naturals

CONSTANTS
  Ids,         \* user ids (UUIDv4)
  Admin,       \* ADMIN_ACCOUNT_ID
  Emails,
  Passwords,   \* passwords; their hashes are what is stored
  Replicas,    \* API processes
  Migrations   \* how many migrations the program embeds

ASSUME AdminAssumption == Admin \in Ids

ASSUME MigrationsAssumption == Migrations \in Nat

VARIABLES
  applied,    \* how many migrations the database has, in their order
  users,      \* id -> the row of the table users
  funds,      \* ids with a funds account
  opening,    \* id -> the replica that has inserted its row and opens its funds next
  welcomed,   \* ids whose registration was answered with 200 (history)
  secret,     \* the secret admin: what a replica that starts now reads
  replica,    \* replica -> its phase, the migration it runs next, the secret it has read
  claims      \* the claims of the tokens that are valid

accountsVars == <<applied, users, funds, opening, welcomed, secret, replica, claims>>

Roles   == {"ADMIN"}
Users   == [email : Emails, password : Passwords, roles : SUBSET Roles]
Secrets == [email : Emails, password : Passwords]
Claims  == [sub : Ids, roles : SUBSET Roles]
Phases  == {"down", "list", "migrate", "funds", "upsert", "up"}

Owner(email) == {u \in DOMAIN users : users[u].email = email}

AccountsInit ==
  /\ applied = 0
  /\ users = [u \in {} |-> {}]
  /\ funds = {} /\ welcomed = {} /\ claims = {}
  /\ opening = [u \in {} |-> {}]
  /\ secret \in Secrets
  /\ replica = [n \in Replicas |-> [phase |-> "down", next |-> 0, secret |-> secret]]

\* A start is at its next step, or over; `next' is a local of the migrations.
Enter(n, phase) == replica' = [replica EXCEPT ![n].phase = phase, ![n].next = 0]

Insert(u, row) ==
  users' = [v \in DOMAIN users \cup {u} |-> IF v = u THEN row ELSE users[v]]

-----------------------------------------------------------------------------
(***************************************************************************)
(* The start of a replica.                                                 *)
(***************************************************************************)

Start(n) ==
  /\ replica[n].phase = "down"
  /\ replica' = [replica EXCEPT ![n] = [phase |-> "list", next |-> 0, secret |-> secret]]
  /\ UNCHANGED <<applied, users, funds, opening, welcomed, secret, claims>>

(***************************************************************************)
(* run_pending_migrations reads once which migrations are missing and then *)
(* runs each in a transaction of its own.                                  *)
(***************************************************************************)
ListMigrations(n) ==
  /\ replica[n].phase = "list"
  /\ replica' = [replica EXCEPT
                   ![n] = [phase |-> "migrate", next |-> applied + 1, secret |-> @.secret]]
  /\ UNCHANGED <<applied, users, funds, opening, welcomed, secret, claims>>

\* Mutant of Migrate: a migration that fails is logged, and the start goes on.
MigrateOrLog(n) ==
  /\ replica[n].phase = "migrate"
  /\ \/ /\ replica[n].next = applied + 1 /\ replica[n].next <= Migrations
        /\ applied' = replica[n].next
        /\ replica' = [replica EXCEPT ![n].next = @ + 1]
     \/ /\ replica[n].next # applied + 1 \/ replica[n].next > Migrations
        /\ Enter(n, "funds")
        /\ UNCHANGED applied
  /\ UNCHANGED <<users, funds, opening, welcomed, secret, claims>>

(***************************************************************************)
(* A migration that another replica has run meanwhile fails, its tables    *)
(* and its sequence being there already, and the start with it.            *)
(***************************************************************************)
Migrate(n) ==
  /\ replica[n].phase = "migrate"
  /\ \/ /\ replica[n].next > Migrations
        /\ Enter(n, "funds")
        /\ UNCHANGED applied
     \/ /\ replica[n].next = applied + 1 /\ replica[n].next <= Migrations
        /\ applied' = replica[n].next
        /\ replica' = [replica EXCEPT ![n].next = @ + 1]
     \/ /\ replica[n].next <= applied /\ replica[n].next <= Migrations
        /\ Enter(n, "down")
        /\ UNCHANGED applied
  /\ UNCHANGED <<users, funds, opening, welcomed, secret, claims>>

\* Mutant of OpenAdminFunds: the start goes on when the ledger has failed.
OpenAdminFundsOrNot(n) ==
  /\ replica[n].phase = "funds"
  /\ funds' \in {funds, funds \cup {Admin}}
  /\ Enter(n, "upsert")
  /\ UNCHANGED <<applied, users, opening, welcomed, secret, claims>>

OpenAdminFunds(n) ==
  /\ replica[n].phase = "funds"
  /\ funds' = funds \cup {Admin}
  /\ Enter(n, "upsert")
  /\ UNCHANGED <<applied, users, opening, welcomed, secret, claims>>

\* Mutant of UpsertAdmin: the conflicting row is given the role as well.
UpsertRole(n) ==
  /\ replica[n].phase = "upsert"
  /\ LET s == replica[n].secret
     IN  \/ /\ Owner(s.email) # {}
            /\ users' = [u \in DOMAIN users |->
                           IF u \in Owner(s.email)
                             THEN [users[u] EXCEPT !.password = s.password, !.roles = Roles]
                             ELSE users[u]]
            /\ Enter(n, "up")
         \/ /\ Owner(s.email) = {} /\ Admin \notin DOMAIN users
            /\ Insert(Admin, [email |-> s.email, password |-> s.password, roles |-> Roles])
            /\ Enter(n, "up")
  /\ UNCHANGED <<applied, funds, opening, welcomed, secret, claims>>

\* Mutant of UpsertAdmin: a replica whose insert fails lingers instead of ending.
UpsertLingers(n) ==
  /\ replica[n].phase = "upsert"
  /\ LET s == replica[n].secret
     IN  \/ /\ Owner(s.email) = {} /\ Admin \notin DOMAIN users
            /\ Insert(Admin, [email |-> s.email, password |-> s.password, roles |-> Roles])
            /\ Enter(n, "up")
         \/ /\ Owner(s.email) # {}
            /\ Enter(n, "up")
            /\ UNCHANGED users
         \/ /\ Owner(s.email) = {} /\ Admin \in DOMAIN users
            /\ Enter(n, "failed")
            /\ UNCHANGED users
  /\ UNCHANGED <<applied, funds, opening, welcomed, secret, claims>>

\* Mutant of UpsertAdmin: the insert without its ON CONFLICT clause.
InsertAdmin(n) ==
  /\ replica[n].phase = "upsert"
  /\ LET s == replica[n].secret
     IN  \/ /\ Owner(s.email) = {} /\ Admin \notin DOMAIN users
            /\ Insert(Admin, [email |-> s.email, password |-> s.password, roles |-> Roles])
            /\ Enter(n, "up")
         \/ /\ Owner(s.email) # {} \/ Admin \in DOMAIN users
            /\ Enter(n, "down")
            /\ UNCHANGED users
  /\ UNCHANGED <<applied, funds, opening, welcomed, secret, claims>>

(***************************************************************************)
(* INSERT ... ON CONFLICT (email) DO UPDATE SET password: the conflict on  *)
(* the email is looked for first and hides one on the id; a conflict on    *)
(* the id alone is an error, and the replica does not start.               *)
(***************************************************************************)
UpsertAdmin(n) ==
  /\ replica[n].phase = "upsert"
  /\ LET s == replica[n].secret
     IN  \/ /\ Owner(s.email) # {}
            /\ users' = [u \in DOMAIN users |->
                           IF u \in Owner(s.email)
                             THEN [users[u] EXCEPT !.password = s.password]
                             ELSE users[u]]
            /\ Enter(n, "up")
         \/ /\ Owner(s.email) = {} /\ Admin \notin DOMAIN users
            /\ Insert(Admin, [email |-> s.email, password |-> s.password, roles |-> Roles])
            /\ Enter(n, "up")
         \/ /\ Owner(s.email) = {} /\ Admin \in DOMAIN users
            /\ Enter(n, "down")
            /\ UNCHANGED users
  /\ UNCHANGED <<applied, funds, opening, welcomed, secret, claims>>

(***************************************************************************)
(* A replica crashes, is scaled away, or gives up its start on an error;   *)
(* the registrations it was serving end where they are.                    *)
(***************************************************************************)
Stop(n) ==
  /\ replica[n].phase # "down"
  /\ Enter(n, "down")
  /\ opening' = [u \in {v \in DOMAIN opening : opening[v] # n} |-> opening[u]]
  /\ UNCHANGED <<applied, users, funds, welcomed, secret, claims>>

Rotate(s) ==
  /\ secret' = s
  /\ UNCHANGED <<applied, users, funds, opening, welcomed, replica, claims>>

-----------------------------------------------------------------------------
(***************************************************************************)
(* Requests.                                                               *)
(***************************************************************************)

\* Mutant of Register: the user is welcomed before the funds account is there.
RegisterEarly(n, u, email, password) ==
  /\ replica[n].phase = "up"
  /\ u \notin DOMAIN users /\ u # Admin
  /\ Owner(email) = {}
  /\ Insert(u, [email |-> email, password |-> password, roles |-> {}])
  /\ opening' = [v \in DOMAIN opening \cup {u} |-> IF v = u THEN n ELSE opening[v]]
  /\ welcomed' = welcomed \cup {u}
  /\ UNCHANGED <<applied, funds, secret, replica, claims>>

(***************************************************************************)
(* register inserts the row; an email that is taken is a 409.              *)
(***************************************************************************)
Register(n, u, email, password) ==
  /\ replica[n].phase = "up"
  /\ u \notin DOMAIN users /\ u # Admin
  /\ Owner(email) = {}
  /\ Insert(u, [email |-> email, password |-> password, roles |-> {}])
  /\ opening' = [v \in DOMAIN opening \cup {u} |-> IF v = u THEN n ELSE opening[v]]
  /\ UNCHANGED <<applied, funds, welcomed, secret, replica, claims>>

(***************************************************************************)
(* ... and then opens the funds account and answers.                       *)
(***************************************************************************)
OpenFunds(u) ==
  /\ funds' = funds \cup {u}
  /\ welcomed' = welcomed \cup {u}
  /\ opening' = [v \in DOMAIN opening \ {u} |-> opening[v]]
  /\ UNCHANGED <<applied, users, secret, replica, claims>>

(***************************************************************************)
(* The ledger fails, before or after it has opened the account: a 500.     *)
(* Nothing takes the row back, and the email is taken from now on.         *)
(***************************************************************************)
Abandon(u) ==
  /\ funds' \in {funds, funds \cup {u}}
  /\ opening' = [v \in DOMAIN opening \ {u} |-> opening[v]]
  /\ UNCHANGED <<applied, users, welcomed, secret, replica, claims>>

(***************************************************************************)
(* login reads the row once; the claim carries the roles it finds there.   *)
(***************************************************************************)
Login(n, u, password) ==
  /\ replica[n].phase = "up"
  /\ users[u].password = password
  /\ claims' = claims \cup {[sub |-> u, roles |-> users[u].roles]}
  /\ UNCHANGED <<applied, users, funds, opening, welcomed, secret, replica>>

Expire(c) ==
  /\ claims' = claims \ {c}
  /\ UNCHANGED <<applied, users, funds, opening, welcomed, secret, replica>>

ComeUp(n) ==
  Start(n) \/ ListMigrations(n) \/ Migrate(n) \/ OpenAdminFunds(n) \/ UpsertAdmin(n)

AccountsNext ==
  \/ \E n \in Replicas : ComeUp(n) \/ Stop(n)
  \/ \E s \in Secrets : Rotate(s)
  \/ \E n \in Replicas, u \in Ids, e \in Emails, p \in Passwords : Register(n, u, e, p)
  \/ \E u \in DOMAIN opening : OpenFunds(u) \/ Abandon(u)
  \/ \E n \in Replicas, u \in DOMAIN users, p \in Passwords : Login(n, u, p)
  \/ \E c \in claims : Expire(c)

AccountsSpec == AccountsInit /\ [][AccountsNext]_accountsVars

\* A container that ends is started again, and a start that can go on does.
FairAccountsSpec == AccountsSpec /\ \A n \in Replicas : WF_accountsVars(ComeUp(n))

(***************************************************************************)
(* The guards of the routes: AdminCheck, and UserIdCheck for the account   *)
(* in the path.                                                            *)
(***************************************************************************)
AdminCheck(c) == Roles \subseteq c.roles

UserIdCheck(c, account) == c.sub = account \/ AdminCheck(c)

-----------------------------------------------------------------------------
(***************************************************************************)
(* Properties                                                              *)
(***************************************************************************)

\* The types of the variables.
AccountsTypeOK ==
  /\ applied \in Nat
  /\ DOMAIN users \subseteq Ids /\ users \in [DOMAIN users -> Users]
  /\ funds \subseteq Ids /\ welcomed \subseteq Ids
  /\ DOMAIN opening \subseteq Ids /\ opening \in [DOMAIN opening -> Replicas]
  /\ secret \in Secrets
  /\ replica \in [Replicas -> [phase : Phases, next : Nat, secret : Secrets]]
  /\ claims \subseteq Claims

\* Nobody works on tables that are not there: a user exists, or a replica is past
\* its migrations, only when all of them have been run, whichever replica ran which.
SchemaFirst ==
  (\/ DOMAIN users # {} \/ funds # {}
   \/ \E n \in Replicas : replica[n].phase \in {"funds", "upsert", "up"}) =>
    applied = Migrations

\* As soon as there is a user or a replica serves, there is an admin to help them:
\* its row has the role and its funds account exists, however many replicas
\* start, stop and find the email of their secret taken meanwhile.
ReadyMeansAdmin ==
  (DOMAIN users # {} \/ \E n \in Replicas : replica[n].phase = "up") =>
    /\ Admin \in DOMAIN users /\ users[Admin].roles = Roles
    /\ Admin \in funds

\* Whoever was told 200 has a row and a funds account, whichever replicas ended in
\* between; and no funds account exists for an id that is not a user, except the
\* admin's before its row.  (It does not follow that they can log in: UpsertAdmin
\* replaces the password of a user who has the email of the secret.)
FundsFollowUsers ==
  /\ welcomed \subseteq DOMAIN users \cap funds
  /\ funds \subseteq DOMAIN users \cup {Admin}

\* The guards trust the roles a token was issued with, for a week.  Those are still
\* the roles in the table, so no decision is made on a role that was changed since:
\* a token passes UserIdCheck for an account if and only if a new one would.
ClaimsStayTrue ==
  \A c \in claims : \A account \in Ids :
    /\ c.sub \in DOMAIN users
    /\ UserIdCheck(c, account)
         <=> UserIdCheck([sub |-> c.sub, roles |-> users[c.sub].roles], account)

\* Nobody but the admin's own id ever passes AdminCheck, whatever email the secret
\* names and whoever registered it before.
OnlyTheAdmin ==
  \A c \in claims : AdminCheck(c) <=> c.sub = Admin

\* A secret no start succeeds with: its email is nobody's, the admin has another.
SecretUnusable == Admin \in DOMAIN users /\ Owner(secret.email) = {}

\* A replica that keeps being started comes up: it loses the race for a migration,
\* or meets a user with the admin's email, without being kept from serving forever.
\* Only crashes without end prevent it, or the secret: after a rotation to an email
\* nobody has, when the admin already has another, every start fails until the
\* secret is rotated again or somebody registers the email, which the last disjunct
\* leaves aside.
ReplicasComeUp ==
  \A n \in Replicas :
    \/ []<>(replica[n].phase = "up")
    \/ []<><<Stop(n) /\ ~ComeUp(n)>>_accountsVars
    \/ []<>SecretUnusable

\* A replica that has logged "finished setting up admin account" has one under the
\* email it was configured with.  The code breaks this: when a user has registered
\* that email, the user's password is replaced and no row gets the role.
FinishedMeansAdmin ==
  \A n \in Replicas : replica[n].phase = "up" =>
    \E u \in Owner(replica[n].secret.email) : users[u].roles = Roles

=============================================================================
