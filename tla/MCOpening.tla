----------------------------- MODULE MCOpening -----------------------------
(***************************************************************************)
(* How accounting begins, in three worlds that do not interact: the        *)
(* opening file, posted by a user who waits for answers; the activation of *)
(* finance one command at a time, each of which may be cut short; and with *)
(* two commands that race.                                                 *)
(***************************************************************************)
EXTENDS OpeningFile, TLC

CONSTANTS Worlds, f1, f2, s1, s2, c1, c2, c3, d1, d2, d3, t1, t2, t3,
          Header, Trade, Capital

VARIABLES world, parent, postable, used, booked, cash, docs, enabled, tasks

activationVars == <<parent, postable, used, booked, cash, docs, enabled, tasks>>

Orderly == INSTANCE Activation
  WITH Subs <- {s1, s2}, CashIds <- {c1, c2}, DocIds <- {d1, d2},
       Kinds <- {"transaction", "expense", "cheque"}, Initials <- {0, 1}, Tasks <- {t1},
       Crashes <- TRUE

Racing == INSTANCE Activation
  WITH Subs <- {s1, s2}, CashIds <- {c3}, DocIds <- {d3}, Kinds <- {"transaction", "cheque"},
       Initials <- {0, 1}, Tasks <- {t2, t3}, Crashes <- TRUE

ASSUME Orderly!ActivationAssumption /\ Racing!ActivationAssumption

-----------------------------------------------------------------------------
WorldInit ==
  /\ world \in Worlds /\ Init
  /\ IF world = "racing" THEN Racing!Init ELSE Orderly!Init
  \* What lies idle begins in one way only.
  /\ world # "file" => agreeing = {}

WorldNext ==
  /\ UNCHANGED world
  /\ \/ world = "file" /\ Next /\ UNCHANGED activationVars
     \/ world = "orderly" /\ Orderly!Next /\ UNCHANGED vars
     \/ world = "racing" /\ Racing!Next /\ UNCHANGED vars

WorldSpec == WorldInit /\ [][WorldNext]_<<world, vars, activationVars>>

\* Ids are only compared.
ActivationSymmetry ==
  Permutations({s1, s2}) \cup Permutations({c1, c2}) \cup Permutations({d1, d2})

-----------------------------------------------------------------------------
(* With one command at a time, cut short anywhere, an active ledger has    *)
(* every cash account and every document in it, the balances agree and no  *)
(* account begins with an amount of its own; and however commands race or  *)
(* die, accounts in use stay leaves and 101 stays structural               *)
(* (RetailPostingService.js:85-150, TreasuryController.js:42-105).         *)
ActivationSound ==
  /\ world = "orderly" => /\ Orderly!TypeOK /\ Orderly!CashLinked /\ Orderly!AllPosted
                          /\ Orderly!BalancesAgree /\ Orderly!OpenedInOnePlace
  /\ world = "racing" => Racing!UsedStayLeaves /\ Racing!HeaderStructural
=============================================================================
