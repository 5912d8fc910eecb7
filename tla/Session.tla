------------------------------- MODULE Session -------------------------------
(***************************************************************************)
(* How the program starts and who works in which company: Auth and         *)
(* CompanyService, from main.bootstrap to the first page, over crashes in  *)
(* the migrations, restarts and reloads of the page.                       *)
(*                                                                         *)
(* A password is "strong" or "default", the one that earlier versions      *)
(* shipped. A row is one of the stores that earlier versions filled        *)
(* without a company.                                                      *)
(***************************************************************************)
EXTENDS Integers, FiniteSets, FiniteSetsExt

CONSTANTS Users, Manager,       \* ids; Manager is user_admin
          Companies, Default,   \* ids; Default is company_default
          First,                \* the company that getAll lists first
          Rows,                 \* rows of earlier versions
          None,
          MaxUsers, MaxCompanies,
          Earlier               \* the users an earlier version may have left

\* What the constants must be; the module that instantiates this one assumes it.
SessionAssumption ==
  /\ Manager \in Users /\ Default \in Companies /\ First \in Companies
  /\ MaxUsers \in Nat /\ MaxCompanies \in Nat

VARIABLES phase,      \* where bootstrap stands
          user,       \* the users store
          snapshot,   \* the users that the lock screen was shown with
          mode,       \* of the lock screen
          setting,    \* the user the lock screen sets a password for
          session,    \* the user id in sessionStorage
          current,    \* Auth.currentUser
          companies,  \* the companies store
          company,    \* the companyId of each row
          marker,     \* company_scope_migration_v1
          remembered, \* finora_active_company
          active      \* CompanyService.activeCompanyId

vars == <<phase, user, snapshot, mode, setting, session, current,
          companies, company, marker, remembered, active>>
lock == <<snapshot, mode, setting>>
books == <<companies, company, marker, remembered, active>>

\* A row of the users store: plain is the text that earlier versions kept,
\* hash the password that was hashed.
User(name, role, plain, hash, must, allowed) ==
  [status |-> "present", name |-> name, role |-> role, plain |-> plain, hash |-> hash,
   must |-> must, companyIds |-> allowed]

Present(u) == user[u].status = "present"
All == {u \in Users : Present(u)}
NeedsPassword(row) == row.must \/ row.hash = None

Init ==
  /\ phase = "off" /\ user \in Earlier /\ snapshot = user /\ mode = "login" /\ setting = None
  /\ session = None /\ current = None
  /\ companies \in IF All = {} THEN {{}} ELSE {{}, {Default}}
  /\ company = [r \in Rows |-> None]
  /\ marker = FALSE /\ remembered = None /\ active = None

-----------------------------------------------------------------------------
(* Auth.init                                                               *)

Start ==
  /\ phase = "off" /\ phase' = "migrate"
  /\ UNCHANGED <<user, lock, session, current, books>>

\* What _migrateLegacyPasswords makes of a user.
Migrated(row) ==
  IF row.plain = "default" THEN [row EXCEPT !.plain = None, !.must = TRUE]
  ELSE [row EXCEPT !.plain = None, !.hash = row.plain, !.must = FALSE]

(* One put of _migrateLegacyPasswords.                                     *)
MigratePassword(u) ==
  /\ phase = "migrate" /\ Present(u) /\ user[u].plain # None
  /\ user' = [user EXCEPT ![u] = Migrated(@)]
  /\ UNCHANGED <<phase, lock, session, current, books>>

Renamable ==
  /\ Present(Manager) /\ user[Manager].role = "admin" /\ user[Manager].name = "admin"
  /\ \A u \in All \ {Manager} : user[u].name # "manager"

(* _migrateDefaultManagerUsername                                          *)
RenameManager ==
  /\ phase = "migrate" /\ \A u \in All : user[u].plain = None
  /\ phase' = "users"
  /\ user' = IF Renamable THEN [user EXCEPT ![Manager].name = "manager"] ELSE user
  /\ UNCHANGED <<lock, session, current, books>>

\* _restoreSession
Restorable(u) == u # None /\ Present(u) /\ ~NeedsPassword(user[u])

SignIn(u) == current' = u /\ session' = u /\ phase' = "company"

(* The first manager, and the session or the lock screen.                  *)
EnsureManager ==
  /\ phase = "users" /\ All = {}
  /\ user' = [user EXCEPT ![Manager] = User("manager", "admin", None, None, TRUE, {})]
  /\ UNCHANGED <<phase, lock, session, current, books>>

RestoreSession ==
  /\ phase = "users" /\ All # {} /\ Restorable(session)
  /\ SignIn(session)
  /\ UNCHANGED <<user, lock, books>>

ShowLockScreen ==
  /\ phase = "users" /\ All # {} /\ ~Restorable(session)
  /\ phase' = "lock" /\ snapshot' = user
  /\ LET only == CHOOSE u \in All : TRUE
         setup == Cardinality(All) = 1 /\ NeedsPassword(user[only])
     IN  mode' = (IF setup THEN "setup" ELSE "login") /\ setting' = (IF setup THEN only ELSE None)
  /\ UNCHANGED <<user, session, current, books>>

\* _setPassword writes the user as it was read.
SetPassword(u, password) ==
  user' = [user EXCEPT ![u] = [snapshot[u] EXCEPT !.hash = password, !.must = FALSE, !.plain = None]]

(* The form of the lock screen, for a user and a password typed into it.   *)
SubmitSetup(password) ==
  /\ phase = "lock" /\ mode = "setup" /\ password # "default"
  /\ SetPassword(setting, password) /\ SignIn(setting)
  /\ UNCHANGED <<lock, books>>

SubmitLogin(u, password) ==
  /\ phase = "lock" /\ mode = "login" /\ snapshot[u].status = "present"
  /\ IF NeedsPassword(snapshot[u])
     THEN mode' = "setup" /\ setting' = u /\ UNCHANGED <<phase, session, current, snapshot>>
     ELSE password = snapshot[u].hash /\ SignIn(u) /\ UNCHANGED lock
  /\ UNCHANGED <<user, books>>

-----------------------------------------------------------------------------
(* CompanyService.init                                                     *)

EnsureCompany ==
  /\ phase = "company" /\ companies = {}
  /\ companies' = {Default}
  /\ UNCHANGED <<phase, user, lock, session, current, company, marker, remembered, active>>

\* companies[0]
FirstCompany == IF First \in companies THEN First ELSE CHOOSE c \in companies : TRUE

(* One put of _migrateLegacy.                                              *)
MigrateRow(r) ==
  /\ phase = "company" /\ companies # {} /\ ~marker /\ company[r] = None
  /\ company' = [company EXCEPT ![r] = FirstCompany]
  /\ UNCHANGED <<phase, user, lock, session, current, companies, marker, remembered, active>>

\* allowedFor
AllowedFor(row) ==
  IF row.role = "admin" THEN companies
  ELSE IF row.companyIds = {} /\ Cardinality(companies) = 1 THEN companies
  ELSE companies \cap row.companyIds

Allowed == AllowedFor(user[current])

Ordered(set) == IF First \in set THEN First ELSE CHOOSE c \in set : TRUE

\* Mutant: the company of the last session, whoever it was.
ChooseRemembered ==
  IF remembered # None THEN remembered ELSE IF Allowed = {} THEN None ELSE Ordered(Allowed)

ChooseActive ==
  IF remembered \in Allowed THEN remembered ELSE IF Allowed = {} THEN None ELSE Ordered(Allowed)

FinishMigration ==
  /\ phase = "company" /\ companies # {} /\ (marker \/ \A r \in Rows : company[r] # None)
  /\ marker' = TRUE /\ phase' = "select"
  /\ active' = ChooseActive
  /\ remembered' = IF ChooseActive = None THEN remembered ELSE ChooseActive
  /\ UNCHANGED <<user, lock, session, current, companies, company>>

(* requireSelection: without a choice to make, or by the user's click.     *)
Enter ==
  /\ phase = "select" /\ Cardinality(Allowed) <= 1
  /\ active' = IF Allowed = {} THEN active ELSE Ordered(Allowed)
  /\ remembered' = IF Allowed = {} THEN remembered ELSE Ordered(Allowed)
  /\ phase' = "ready"
  /\ UNCHANGED <<user, lock, session, current, companies, company, marker>>

SelectCompany(c) ==
  /\ phase = "select" /\ Cardinality(Allowed) > 1 /\ c \in Allowed
  /\ active' = c /\ remembered' = c /\ phase' = "ready"
  /\ UNCHANGED <<user, lock, session, current, companies, company, marker>>

-----------------------------------------------------------------------------
(* The commands on users and companies                                     *)

\* CompanyService.current, which every command asks for its company.
Scope == IF active \in Allowed THEN active ELSE IF Allowed = {} THEN None ELSE Ordered(Allowed)

IsAdmin == phase = "ready" /\ user[current].role = "admin"

CreateCompany(c) ==
  /\ IsAdmin /\ c \notin companies /\ Cardinality(companies) < MaxCompanies
  /\ companies' = companies \cup {c}
  /\ UNCHANGED <<phase, user, lock, session, current, company, marker, remembered, active>>

\* A company of the manager's that he creates in another window meanwhile.
CompanyCreatedElsewhere(c) ==
  /\ phase = "ready" /\ Present(Manager) /\ ~NeedsPassword(user[Manager])
  /\ c \notin companies /\ Cardinality(companies) < MaxCompanies
  /\ companies' = companies \cup {c}
  /\ UNCHANGED <<phase, user, lock, session, current, company, marker, remembered, active>>

\* Eight characters are asked for, which the default password has.
CreateUser(u, name, role, password) ==
  /\ IsAdmin /\ ~Present(u) /\ Cardinality(All) < MaxUsers
  /\ role = "admin" => \A other \in All : user[other].role # "admin"
  /\ \A other \in All : user[other].name # name
  /\ user' = [user EXCEPT ![u] = User(name, role, None, password, FALSE, {})]
  /\ UNCHANGED <<phase, lock, session, current, books>>

\* Asks for eight characters as well.
ChangePassword(password) ==
  /\ phase = "ready"
  /\ user' = [user EXCEPT ![current].hash = password, ![current].must = FALSE]
  /\ UNCHANGED <<phase, lock, session, current, books>>

Stop(kept) ==
  /\ phase # "off" /\ phase' = "off" /\ current' = None /\ active' = None
  /\ session' = kept
  /\ UNCHANGED <<user, lock, companies, company, marker, remembered>>

Logout == phase = "ready" /\ Stop(None)
Reload == Stop(session)     \* the page is loaded anew
Restart == Stop(None)       \* the program ends, or dies

Names == {"manager", "clerk"}
Passwords == {"strong", "default"}

Boot ==
  \/ Start \/ RenameManager \/ EnsureManager \/ RestoreSession \/ ShowLockScreen
  \/ EnsureCompany \/ FinishMigration \/ Enter
  \/ (\E u \in Users : MigratePassword(u)) \/ (\E r \in Rows : MigrateRow(r))

Next ==
  \/ Boot
  \/ \E p \in Passwords : SubmitSetup(p) \/ \E u \in Users : SubmitLogin(u, p)
  \/ \E c \in Companies : SelectCompany(c) \/ CreateCompany(c) \/ CompanyCreatedElsewhere(c)
  \/ \E u \in Users, name \in Names, role \in {"admin", "user"}, p \in Passwords :
       CreateUser(u, name, role, p)
  \/ \E p \in Passwords : ChangePassword(p)
  \/ Logout \/ Reload \/ Restart

(* The steps of bootstrap are taken; what the user does, or a crash, is not*)
(* promised.                                                               *)
Spec == Init /\ [][Next]_vars /\ WF_vars(Boot)
-----------------------------------------------------------------------------
TypeOK ==
  /\ phase \in {"off", "migrate", "users", "lock", "company", "select", "ready"}
  /\ session \in Users \cup {None} /\ current \in Users \cup {None}
  /\ current # None <=> phase \in {"company", "select", "ready"}
  /\ companies \subseteq Companies /\ company \in [Rows -> Companies \cup {None}]
  /\ active \in Companies \cup {None} /\ remembered \in Companies \cup {None}
  /\ marker \in BOOLEAN /\ mode \in {"login", "setup"}
  /\ phase = "lock" /\ mode = "setup" => setting \in Users

(* Nobody works before he has set a password, whatever the migration was   *)
(* interrupted by (Auth.js:92-93).                                         *)
SignedInWithPassword ==
  current # None => Present(current) /\ ~NeedsPassword(user[current])

HasDefault(u) == Present(u) /\ user[u].hash = "default"

(* The password that earlier versions shipped becomes valid neither by a   *)
(* migration nor on the lock screen: somebody at work has to choose it, in *)
(* changePassword or createUser (Auth.js:92-93, 244, 305-338).             *)
DefaultChosen ==
  [][\A u \in Users : HasDefault(u)' /\ ~HasDefault(u) => phase = "ready" /\ phase' = "ready"]_vars

(* Once anyone works, no password is stored as text.                       *)
NoPlainPasswords == current # None => \A u \in All : user[u].plain = None

(* There is one manager, no name twice and no more users than are allowed  *)
(* (Auth.js:327-329).                                                      *)
UsersLimited ==
  /\ Cardinality(All) <= MaxUsers
  /\ \A u, v \in All : u # v => user[u].name # user[v].name
  /\ phase \notin {"off", "migrate", "users"} => Cardinality({u \in All : user[u].role = "admin"}) = 1

(* The rows of an earlier version all come to one company, however often   *)
(* the migration was interrupted, and none is left behind once anyone      *)
(* works.                                                                  *)
RowsTogether ==
  /\ \A r, s \in Rows : company[r] # None /\ company[s] # None => company[r] = company[s]
  /\ phase \in {"select", "ready"} => \A r \in Rows : company[r] # None

(* The company of the last session is not taken over by a user who may not *)
(* work in it.                                                             *)
ScopeAllowed ==
  /\ phase \in {"select", "ready"} /\ active # None => active \in companies
  /\ phase = "select" => active \in Allowed \/ Allowed = {}

(* Every command looks its company up anew; whatever companies and users   *)
(* are created meanwhile, here or in another window, it finds the one that *)
(* was chosen, or none and is refused, but never another                   *)
(* (CompanyService.js:31, DataScope.js:7-9).                               *)
ScopeStays ==
  [][phase = "ready" /\ phase' = "ready" /\ active # None /\ Scope = active
       => Scope' \in {active, None}]_vars

(* Bootstrap never hangs: it comes to the lock screen, to the choice of a  *)
(* company or to the first page, or the program is stopped.                *)
BootCompletes == phase = "migrate" ~> phase \in {"lock", "select", "ready", "off"}
=============================================================================
