------------------------------ MODULE MCLedger ------------------------------
(***************************************************************************)
(* One small ledger in two worlds that do not interact: two journals under *)
(* everything that may happen to them, and two journals with profit and    *)
(* loss for the reports.  A behaviour is of one of these worlds.           *)
(***************************************************************************)
EXTENDS LedgerReports, TLC

CONSTANTS Worlds, DocId

Row(code, level, parent, type, active) ==
  [code |-> code, level |-> level, parent |-> parent, type |-> type,
   active |-> active, postable |-> active]

MCDefaultRows ==
  {Row("1", 0, None, "asset", TRUE), Row("101", 1, "1", "asset", TRUE),
   Row("3", 0, None, "equity", TRUE), Row("301", 1, "3", "equity", TRUE),
   Row("4", 0, None, "revenue", TRUE), Row("401", 1, "4", "revenue", TRUE),
   Row("5", 0, None, "expense", TRUE), Row("501", 1, "5", "expense", TRUE)}

\* A custom subsidiary under 101, and a closed account nobody may post to.
MCAccountRows == {Row("101001", 2, "101", "asset", TRUE), Row("109", 1, "1", "asset", FALSE)}

Entry(account, amount) == [account |-> account, amount |-> amount]

\* Ledger: a sale into the subsidiary. Reports: a sale, its cost paid in by the
\* owner. Both: a sale given back, and a list that only a draft may have.
LedgerLines == {<<Entry("101001", 1), Entry("401", -1)>>}
ReportLines == {<<Entry("101", 2), Entry("401", -2)>>, <<Entry("501", 1), Entry("301", -1)>>}
MCLineLists ==
  LedgerLines \cup ReportLines \cup {<<Entry("401", 1), Entry("101", -1)>>, <<Entry("101", 1)>>}

MCManualSources == {[type |-> "manual", id |-> DocId]}
MCCommercialSources == {[type |-> "invoice", id |-> DocId]}

-----------------------------------------------------------------------------
VARIABLE world

\* The journals have no lines that the other world may have.
Without(lists) ==
  \A j \in JournalIds :
    journal[j].lines \notin lists \cup {ReversingLines(lines) : lines \in lists}

\* The reports are about the default chart, and about journals alone.
ReportsOnly ==
  /\ Without(LedgerLines)
  /\ chart \subseteq DefaultRows
  /\ \A s \in StocktakeIds : stocktake[s].status = "absent"
  /\ \A j \in JournalIds : journal[j].source.type \in {"none", "journal_reversal"}

WorldInit == world \in Worlds /\ Init

WorldNext ==
  /\ Next /\ UNCHANGED world
  /\ IF world = "ledger" THEN Without(ReportLines)' ELSE ReportsOnly'

WorldSpec == WorldInit /\ [][WorldNext]_<<world, vars>>

JournalSymmetry == Permutations(JournalIds)
=============================================================================
