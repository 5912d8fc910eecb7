----------------------------- MODULE MCRecovery -----------------------------
(***************************************************************************)
(* Backup and restore of small companies, in four worlds that do not       *)
(* interact: the accounting stores; the commercial stores under restores   *)
(* of both modes, under merges of one file while stock is counted, and of  *)
(* two files in turn.                                                      *)
(***************************************************************************)
EXTENDS LedgerRecovery, TLC

CONSTANTS Worlds, DocId, j1, j2, w1, i1, i2, i3, w2, c1, a1, t1, s2, prod, p1

Row(code, level, parent) ==
  [code |-> code, level |-> level, parent |-> parent, type |-> "asset",
   active |-> TRUE, postable |-> TRUE]

MCDefaultRows == {Row("1", 0, None), Row("101", 1, "1"), Row("102", 1, "1")}
MCAccountRows == {Row("101001", 2, "101")}

Entry(account, amount) == [account |-> account, amount |-> amount]

\* A balanced list, and one that only a draft may have.
MCLineLists == {<<Entry("101", 1), Entry("102", -1)>>, <<Entry("101", 1)>>}

MCManualSources == {[type |-> "manual", id |-> DocId]}
MCCommercialSources == {[type |-> "invoice", id |-> DocId]}
NoRows == {}

-----------------------------------------------------------------------------
VARIABLES world, journals, invoices, treasury, expenses, cheques, stock, movements, stocktakes,
          closed, receipts, wiped, files

retailVars == <<journals, invoices, treasury, expenses, cheques, stock, movements, stocktakes,
                closed, receipts, wiped, files>>

Invoice(kind, units, total, down) ==
  [kind |-> kind, items |-> <<[item |-> prod, units |-> units, total |-> total]>>,
   discount |-> 0, vat |-> 0, paid |-> down]

\* Goods bought on account and sold, the sale partly paid.
RetailForms == {Invoice("purchase", 2, 3, 0), Invoice("sale", 1, 2, 1)}
CreditForms == {Invoice("purchase", 2, 3, 0)}
OnePeriod == [d \in {1} |-> p1]

Shop == INSTANCE RetailRecovery
  WITH chain <- receipts, backups <- files,
       InvoiceIds <- {i1, i2}, ExpenseIds <- {}, ChequeIds <- {c1}, StocktakeIds <- {},
       TransferIds <- {}, CashAccounts <- {a1}, Warehouses <- {w1}, Products <- {prod},
       Services <- {}, Periods <- {p1}, Dates <- {1}, PeriodOf <- OnePeriod,
       InvoiceForms <- RetailForms, CashAmounts <- {1}, Quantities <- {0}, UnitCosts <- {},
       QtyScale <- 2, MaxTreasury <- 1, MaxBackups <- 1, MaxRestores <- 1,
       Modes <- {"merge", "replace"}

\* One file, merged after purchases, sales and counts.
Count == INSTANCE RetailRecovery
  WITH chain <- receipts, backups <- files,
       InvoiceIds <- {i1, i2, i3}, ExpenseIds <- {}, ChequeIds <- {}, StocktakeIds <- {s2},
       TransferIds <- {}, CashAccounts <- {a1}, Warehouses <- {w1}, Products <- {prod},
       Services <- {}, Periods <- {p1}, Dates <- {1}, PeriodOf <- OnePeriod,
       InvoiceForms <- RetailForms, CashAmounts <- {1}, Quantities <- {0, 3}, UnitCosts <- {},
       QtyScale <- 2, MaxTreasury <- 1, MaxBackups <- 1, MaxRestores <- 1, Modes <- {"merge"}

\* Two files of different days, merged one over the other, around a transfer
\* and a count, neither of which is audited.
Merge == INSTANCE RetailRecovery
  WITH chain <- receipts, backups <- files,
       InvoiceIds <- {i1}, ExpenseIds <- {}, ChequeIds <- {}, StocktakeIds <- {s2},
       TransferIds <- {t1}, CashAccounts <- {a1}, Warehouses <- {w1, w2}, Products <- {prod},
       Services <- {}, Periods <- {p1}, Dates <- {1}, PeriodOf <- OnePeriod,
       InvoiceForms <- CreditForms, CashAmounts <- {1}, Quantities <- {1}, UnitCosts <- {},
       QtyScale <- 2, MaxTreasury <- 1, MaxBackups <- 2, MaxRestores <- 2, Modes <- {"merge"}

ASSUME Shop!ModesAssumption /\ Count!ModesAssumption /\ Merge!ModesAssumption

-----------------------------------------------------------------------------
WorldInit ==
  /\ world \in Worlds /\ InitRecovery
  /\ CASE world = "count" -> Count!InitRecovery
       [] world = "merge" -> Merge!InitRecovery
       [] OTHER -> Shop!InitRecovery

WorldNext ==
  /\ UNCHANGED world
  /\ \/ world = "ledger" /\ RecoveryNext /\ UNCHANGED retailVars
     \/ world = "shop" /\ Shop!RecoveryNext /\ UNCHANGED recoveryVars
     \/ world = "count" /\ Count!RecoveryNext /\ UNCHANGED recoveryVars
     \/ world = "merge" /\ Merge!RecoveryNext /\ UNCHANGED recoveryVars

WorldSpec == WorldInit /\ [][WorldNext]_<<world, recoveryVars, retailVars>>

RecoverySymmetry == Permutations({j1, j2}) \cup Permutations({i1, i2, i3})

-----------------------------------------------------------------------------
(* After every restore a document is posted at most once, the settlements  *)
(* of the shop agree with its invoices, and stock and counts survive the   *)
(* merges of two files in turn (CompanyBackupService.js:64-257).           *)
RecoveredSound ==
  /\ [](/\ world = "ledger" => RecoveryTypeOK /\ SourcePostedOnce
        /\ world = "shop" => Shop!SettlementsAgree)
  /\ [][/\ world = "count" => Count!MergesKeepGoods
        /\ world = "merge" => Merge!MergesKeepGoods]_<<world, retailVars>>

(* A file restored into emptied stores gives back the company exported;    *)
(* restored once more, it changes nothing but the receipt; and no document *)
(* of the shop that was there is touched (CompanyBackupService.js:100-160).*)
RestoresFaithful ==
  /\ RestoreGivesBack
  /\ RestoreIdempotent
  /\ [][/\ world = "shop" => Shop!GivesBack /\ Shop!KeepsDocuments
        /\ world = "merge" => Merge!GivesBack]_<<world, retailVars>>
=============================================================================
