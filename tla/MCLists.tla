------------------------------ MODULE MCLists ------------------------------
(***************************************************************************)
(* The lists of products and contacts, in three worlds that do not         *)
(* interact: under entry and deletion of rows beside movements and         *)
(* documents, under imports of a product sheet from two dialogs that may   *)
(* be cut short, and under replacements by what was exported.              *)
(***************************************************************************)
EXTENDS MasterData, TLC

CONSTANTS Worlds, r1, r2, q1, q2, q3, q4, e1, e2, e3, t2

VARIABLES world, master2, refs2, enabled2, export2, reading2, dialogs2, raw2, tasks2

vars2 == <<master2, refs2, enabled2, export2, reading2, dialogs2, raw2, tasks2>>

NoFiles == [f \in {} |-> <<>>]

\* A product sheet: a good, a row without a name and a service.
ProductFile ==
  [file |-> [products |-> <<[name |-> "n1", key |-> "k1", kind |-> "good"],
                            [name |-> NoName, key |-> "k3", kind |-> "good"],
                            [name |-> "n2", key |-> "k2", kind |-> "service"]>>]]

Imports == INSTANCE MasterData
  WITH master <- master2, refs <- refs2, enabled <- enabled2, export <- export2,
       reading <- reading2, dialogs <- dialogs2, raw <- raw2, tasks <- tasks2,
       Ids <- {q1, q2, q3, q4}, Kinds <- {"good"}, Files <- ProductFile,
       Exports <- FALSE, Modes <- {"merge", "replace"}, MaxRefs <- 0, MaxQty <- 1,
       MaxDialogs <- 2, Tasks <- {t2}, Crashes <- TRUE

Exported == INSTANCE MasterData
  WITH master <- master2, refs <- refs2, enabled <- enabled2, export <- export2,
       reading <- reading2, dialogs <- dialogs2, raw <- raw2, tasks <- tasks2,
       Ids <- {e1, e2, e3}, Kinds <- {"service"}, Files <- NoFiles,
       Exports <- TRUE, Modes <- {"replace"}, MaxRefs <- 0, MaxQty <- 1,
       MaxDialogs <- 1, Tasks <- {t2}, Crashes <- FALSE

ASSUME Imports!MasterDataAssumption /\ Exported!MasterDataAssumption

-----------------------------------------------------------------------------
\* Idle variables hold None, so that no id is told apart by them.
WorldInit ==
  /\ world \in Worlds
  /\ Init
  /\ CASE world = "import" -> Imports!Init
       [] world = "export" -> Exported!Init
       [] OTHER ->
          /\ master2 = None /\ refs2 = None /\ enabled2 = None /\ export2 = None
          /\ reading2 = None /\ dialogs2 = None /\ raw2 = None /\ tasks2 = None

WorldNext ==
  /\ UNCHANGED world
  /\ \/ world = "entry" /\ Next /\ UNCHANGED vars2
     \/ world = "import" /\ Imports!Next /\ UNCHANGED vars
     \/ world = "export" /\ Exported!Next /\ UNCHANGED vars

WorldSpec == WorldInit /\ [][WorldNext]_<<world, vars, vars2>>

\* Ids are only compared.
ListSymmetry == Permutations(Ids) \cup Permutations({q1, q2, q3, q4}) \cup Permutations({e1, e2, e3})

-----------------------------------------------------------------------------
(* A merge of a keyed sheet adds new rows only, also when it is started    *)
(* over after a crash, and a replacement that ends leaves the rows of its  *)
(* sheet and no other, whichever button the file was chosen with and       *)
(* whatever other dialog is open (SettingsView.js:271-317,                 *)
(* ExcelController.js:456-560); and with finance the stock in the list of  *)
(* products is the kardex's.                                               *)
ListsExact ==
  /\ [](world = "entry" => TypeOK /\ PostedStockIsKardex)
  /\ [][/\ world = "import" => Imports!KeyedMergeStep /\ Imports!ReplaceStep
        /\ world = "export" => Exported!ReplaceStep]_<<world, vars2>>
=============================================================================
