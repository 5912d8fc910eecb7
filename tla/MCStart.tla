------------------------------ MODULE MCStart ------------------------------
(***************************************************************************)
(* What happens before and around the work, in seven worlds that do not    *)
(* interact: the database is opened; a user signs in and a company is      *)
(* chosen; the trial is counted, with and without faults, and a licence is *)
(* verified, also while invoices are issued; and the whole installation is restored from a file.           *)
(***************************************************************************)
EXTENDS StorageOpen

CONSTANTS Worlds, c1, c2, o1, o2, m, u1, u2, comp1, comp2, r1, r2, t1, t2, NoToken, Null, None,
          d1, d2, name1, name2

VARIABLE world

-----------------------------------------------------------------------------
(* Two users, two companies and two rows of an earlier version.            *)

VARIABLES phase, user, snapshot, mode, setting, session, current, companies, company, marker,
          remembered, active

sessionVars == <<phase, user, snapshot, mode, setting, session, current, companies, company,
                 marker, remembered, active>>

Row(name, role, plain, hash, allowed) ==
  [status |-> "present", name |-> name, role |-> role, plain |-> plain, hash |-> hash,
   must |-> FALSE, companyIds |-> allowed]
NoRow == [status |-> "absent"]

\* A new installation, one of an earlier version with its default manager, and
\* one with a clerk who works in the second company.
EarlierUsers ==
  {[u \in {m, u1} |-> NoRow],
   [u \in {m, u1} |-> IF u = m THEN Row("admin", "admin", "default", None, {}) ELSE NoRow],
   [u \in {m, u1} |-> IF u = m THEN Row("admin", "admin", "strong", None, {})
                               ELSE Row("clerk", "user", "default", None, {comp2})],
   [u \in {m, u1} |-> IF u = m THEN Row("admin", "admin", None, "strong", {})
                               ELSE Row("manager", "user", "strong", None, {})]}

SignIn == INSTANCE Session
  WITH Users <- {m, u1}, Manager <- m, Companies <- {comp1, comp2}, Default <- comp1,
       First <- comp2, Rows <- {r1, r2}, MaxUsers <- 2, MaxCompanies <- 2,
       Earlier <- EarlierUsers

ASSUME SignIn!SessionAssumption

-----------------------------------------------------------------------------
(* The trial, and a licence that ends or does not.                         *)

VARIABLES clock, disk, state, lease, clockRollback, writes, tasks, issued

licenseVars == <<clock, disk, state, lease, clockRollback, writes, tasks, issued>>

\* What an earlier version left: a trial whose beginning or whose counter is missing.
Malformed ==
  {[started |-> Null, count |-> 0, seen |-> Null, token |-> NoToken],
   [started |-> 0, count |-> Null, seen |-> 1, token |-> NoToken]}

\* One lease that ends, one without an end that was checked later.
Leases ==
  {[notBefore |-> 1, expires |-> 3, checked |-> 1, issued |-> 1],
   [notBefore |-> 0, expires |-> Null, checked |-> 2, issued |-> 2]}

Trial == INSTANCE License
  WITH Tasks <- {t1}, Tokens <- {}, Stored <- Malformed, Day <- 2, Tolerance <- 1,
       TRIAL_DAYS <- 2, TRIAL_INVOICE_LIMIT <- 2, OFFLINE_LEASE_DAYS <- 1, MaxClock <- 7,
       MaxIssued <- 3, Faults <- FALSE

Faulty == INSTANCE License
  WITH Tasks <- {t1, t2}, Tokens <- {}, Stored <- Malformed, Day <- 2, Tolerance <- 1,
       TRIAL_DAYS <- 2, TRIAL_INVOICE_LIMIT <- 2, OFFLINE_LEASE_DAYS <- 1, MaxClock <- 7,
       MaxIssued <- 3, Faults <- TRUE

Licensed == INSTANCE License
  WITH Tasks <- {t1}, Tokens <- Leases, Stored <- Malformed, Day <- 2, Tolerance <- 1,
       TRIAL_DAYS <- 2, TRIAL_INVOICE_LIMIT <- 2, OFFLINE_LEASE_DAYS <- 1, MaxClock <- 5,
       MaxIssued <- 3, Faults <- TRUE

\* A licence is activated while an invoice is issued.
Racing == INSTANCE License
  WITH Tasks <- {t1, t2}, Tokens <- {CHOOSE l \in Leases : l.expires = Null}, Stored <- {},
       Day <- 2, Tolerance <- 1,
       TRIAL_DAYS <- 2, TRIAL_INVOICE_LIMIT <- 2, OFFLINE_LEASE_DAYS <- 1, MaxClock <- 2,
       MaxIssued <- 3, Faults <- FALSE

ASSUME Trial!LicenseAssumption /\ Faulty!LicenseAssumption /\ Licensed!LicenseAssumption
ASSUME Racing!LicenseAssumption

-----------------------------------------------------------------------------
(* Two documents, two users and two files.                                 *)

VARIABLES doc, lines, chain, users, backups, uid

fullVars == <<doc, lines, chain, users, backups, uid>>

Full == INSTANCE FullRestore
  WITH user <- users, Docs <- {d1, d2}, Users <- {m, u1, u2}, Names <- {name1, name2},
       Manager <- m, MaxUsers <- 2, MaxBackups <- 2, MaxUid <- 5

ASSUME Full!FullRestoreAssumption

-----------------------------------------------------------------------------
WorldInit ==
  /\ world \in Worlds
  /\ Init /\ SignIn!Init /\ Full!Init
  /\ CASE world = "faulty" -> Faulty!Init
       [] world = "licensed" -> Licensed!Init
       [] world = "racing" -> Racing!Init
       [] OTHER -> Trial!Init
  \* What lies idle begins in one way only.
  /\ world # "open" => version = Current /\ others = [o \in Others |-> "closed"]
  /\ world # "session" => user = [u \in {m, u1} |-> NoRow]
  /\ world \notin {"trial", "faulty", "licensed", "racing"} => disk = Null

WorldNext ==
  /\ UNCHANGED world
  /\ \/ world = "open" /\ Next /\ UNCHANGED <<sessionVars, licenseVars, fullVars>>
     \/ world = "session" /\ SignIn!Next /\ UNCHANGED <<vars, licenseVars, fullVars>>
     \/ world = "trial" /\ Trial!Next /\ UNCHANGED <<vars, sessionVars, fullVars>>
     \/ world = "faulty" /\ Faulty!Next /\ UNCHANGED <<vars, sessionVars, fullVars>>
     \/ world = "licensed" /\ Licensed!Next /\ UNCHANGED <<vars, sessionVars, fullVars>>
     \/ world = "racing" /\ Racing!Next /\ UNCHANGED <<vars, sessionVars, fullVars>>
     \/ world = "full" /\ Full!Next /\ UNCHANGED <<vars, sessionVars, licenseVars>>

\* The fairness of StorageOpen and of Session, each in its world.
WorldSpec ==
  /\ WorldInit /\ [][WorldNext]_<<world, vars, sessionVars, licenseVars, fullVars>>
  /\ WF_vars(world = "open" /\ Browser)
  /\ \A r \in Requests : WF_vars(world = "open" /\ Timeout(r))
  /\ WF_sessionVars(world = "session" /\ SignIn!Boot)

-----------------------------------------------------------------------------
(* Whoever is signed in has set a password, kept as a hash, and the one of *)
(* earlier versions comes back by his choice only; the users stay within   *)
(* the limit, the rows of an earlier version go to one company together,   *)
(* and commands work in the company that was chosen or in none             *)
(* (Auth.js:60-190, CompanyService.js:12-46).                              *)
SignInSound ==
  /\ [](world = "session" =>
          /\ SignIn!TypeOK
          /\ SignIn!SignedInWithPassword /\ SignIn!NoPlainPasswords
          /\ SignIn!UsersLimited /\ SignIn!RowsTogether /\ SignIn!ScopeAllowed)
  /\ SignIn!DefaultChosen /\ SignIn!ScopeStays

(* Every caller of the storage is answered, another window's upgrade is    *)
(* granted, and a boot ends in a page (StorageService.js:98-180).          *)
EverybodyAnswered == CallersAnswered /\ UpgradesGranted /\ SignIn!BootCompletes

(* Until all is wiped the trial is one, it ends by its days or its         *)
(* invoices, an end once seen is final, and a restart loses no right       *)
(* (LicenseService.js:22-119).                                             *)
TrialSound ==
  /\ [](/\ world = "trial" => Trial!TrialLimitKept
        /\ world = "faulty" => Faulty!SeenEndIsFinal
        /\ world = "licensed" => Licensed!RestartKeepsRight)
  /\ [][/\ world = "faulty" => Faulty!OneTrial
        /\ world = "racing" => Racing!OneTrial]_<<world, licenseVars>>

(* The restore of an installation keeps the finalized documents, the limit *)
(* of users and the access of whoever had it, and gives back what was      *)
(* exported when all is empty (SettingsController.js:150-260).             *)
FullRestoreSound ==
  /\ [](world = "full" => Full!UsersLimited)
  /\ Full!FinalizedKept /\ Full!AccessKept /\ Full!RestoreGivesBack
=============================================================================
