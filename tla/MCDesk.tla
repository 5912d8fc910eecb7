------------------------------- MODULE MCDesk -------------------------------
(***************************************************************************)
(* Invoices and what contacts owe, in five worlds that do not interact:    *)
(* the desk with finance, one command at a time, that may stop between any *)
(* two steps; the same with typed numbers and no crash, with and without   *)
(* finance; two commands that race and crash; and the cards of contacts.   *)
(***************************************************************************)
EXTENDS InvoiceDesk, TLC

CONSTANTS Worlds, i1, i2, i3, t1, t2, t3, sale, purchase, c1, c2

VARIABLES world, invoices2, moves2, nextNumber2, counted2, tasks2, docs, lines, enabled

vars2 == <<invoices2, moves2, nextNumber2, counted2, tasks2>>
cardVars == <<docs, lines, enabled>>

FinanceDesk == INSTANCE InvoiceDesk
  WITH invoices <- invoices2, moves <- moves2, nextNumber <- nextNumber2, counted <- counted2,
       tasks <- tasks2, Ids <- {i1, i2, i3}, Kinds <- {sale, purchase}, Tasks <- {t3},
       Typed <- {0, 2}, MaxNumber <- 4, MaxRow <- 3, V2 <- TRUE, Crashes <- FALSE

LegacyDesk == INSTANCE InvoiceDesk
  WITH invoices <- invoices2, moves <- moves2, nextNumber <- nextNumber2, counted <- counted2,
       tasks <- tasks2, Ids <- {i1, i2}, Kinds <- {sale, purchase}, Tasks <- {t3},
       Typed <- {0, 2}, MaxNumber <- 3, MaxRow <- 3, V2 <- FALSE, Crashes <- FALSE

RacingDesk == INSTANCE InvoiceDesk
  WITH invoices <- invoices2, moves <- moves2, nextNumber <- nextNumber2, counted <- counted2,
       tasks <- tasks2, Ids <- {i1, i2}, Kinds <- {sale}, Tasks <- {t1, t2},
       Typed <- {0}, MaxNumber <- 3, MaxRow <- 2, V2 <- TRUE, Crashes <- TRUE

Cards == INSTANCE ContactCard WITH Contacts <- {c1, c2}, Amounts <- {1}, MaxDocs <- 2

ASSUME FinanceDesk!DeskAssumption /\ LegacyDesk!DeskAssumption /\ RacingDesk!DeskAssumption
ASSUME Cards!ContactCardAssumption

WorldInit ==
  /\ world \in Worlds /\ Init /\ Cards!Init
  /\ IF world = "finance" THEN FinanceDesk!Init
     ELSE IF world = "races" THEN RacingDesk!Init ELSE LegacyDesk!Init

WorldNext ==
  /\ UNCHANGED world
  /\ \/ world = "stops" /\ Next /\ UNCHANGED <<vars2, cardVars>>
     \/ world = "finance" /\ FinanceDesk!Next /\ UNCHANGED <<vars, cardVars>>
     \/ world = "legacy" /\ LegacyDesk!Next /\ UNCHANGED <<vars, cardVars>>
     \/ world = "races" /\ RacingDesk!Next /\ UNCHANGED <<vars, cardVars>>
     \/ world = "cards" /\ Cards!Next /\ UNCHANGED <<vars, vars2>>

WorldSpec == WorldInit /\ [][WorldNext]_<<world, vars, vars2, cardVars>>

\* Ids, commands and contacts are only compared.
DeskSymmetry == Permutations({i1, i2}) \cup Permutations({t1, t2}) \cup Permutations({c1, c2})

-----------------------------------------------------------------------------
(* While nothing runs and no command was cut short, every issued invoice   *)
(* has been counted for the trial and the number offered next is free;     *)
(* without finance the stock follows the invoices too. And however two     *)
(* commands race or die, two issued invoices never have one number         *)
(* (InvoiceController.js:119-190).                                         *)
DocumentsFollow ==
  /\ world = "finance" => /\ FinanceDesk!TypeOK
                          /\ FinanceDesk!OfferedNumberFree /\ FinanceDesk!IssuesCounted
  /\ world = "legacy" => LegacyDesk!StockFollowsInvoices /\ LegacyDesk!IssuesCounted
  /\ world = "races" => RacingDesk!NumbersUnique

(* What a contact's card, its summary and the map of balances show is what *)
(* the posted documents and the ledger say (ContactController.js:125-330). *)
CardsAgree ==
  world = "cards" =>
    /\ Cards!MapIsBalance /\ Cards!PostedCardIsBalance
    /\ Cards!LedgerFollowsDocuments /\ Cards!CardFoots /\ Cards!SummaryNets
=============================================================================
