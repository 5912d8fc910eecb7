--------------------------- MODULE RetailRecovery ---------------------------
(***************************************************************************)
(* Backup, wipe and restore of the commercial stores, beside the commands  *)
(* of RetailPosting: what restoreCompanyBackup protects (documents, money, *)
(* movements) and what it takes for replaceable (balances of the stock,    *)
(* stocktakes, fiscal periods).                                            *)
(*                                                                         *)
(* A file is a snapshot taken in one read transaction. After a wipe the    *)
(* company has neither chart nor periods; what is modelled of it then is   *)
(* the restore, since a company set up anew has accounts of its own, and   *)
(* no file with the old ones is taken (module LedgerRecovery).             *)
(***************************************************************************)
EXTENDS RetailPosting, TLC

CONSTANTS MaxBackups,  \* bound on the files exported
          MaxRestores, \* bound on the receipts of restores
          Modes        \* the modes a restore may be asked for

\* What the constants must be; the module that instantiates this one assumes it.
ModesAssumption ==
  /\ Modes \subseteq {"merge", "replace"}
  /\ MaxBackups \in Nat /\ MaxRestores \in Nat

VARIABLES chain,    \* the audit events: the source of each journal, or what was closed
          wiped,    \* whether the stores have been emptied
          backups

recoveryVars == <<vars, chain, wiped, backups>>

Company ==
  [journals |-> journals, invoices |-> invoices, treasury |-> treasury,
   expenses |-> expenses, cheques |-> cheques, stock |-> stock, movements |-> movements,
   stocktakes |-> stocktakes, closed |-> closed, chain |-> chain]

InitRecovery == Init /\ chain = <<>> /\ wiped = FALSE /\ backups = {}

\* Every journal and every closing appends its event.
Audited == {j.source : j \in journals' \ journals}
           \cup {<<"close-period", p>> : p \in closed' \ closed}

\* A uid is drawn once: nothing new takes the id of a row that some file has.
FreshIds ==
  \A b \in backups :
    /\ \A i \in InvoiceIds : invoices[i] = NoInvoice /\ invoices'[i] # NoInvoice
                              => b.invoices[i] = NoInvoice
    /\ \A c \in ChequeIds : cheques[c] = NoCheque /\ cheques'[c] # NoCheque
                              => b.cheques[c] = NoCheque
    /\ \A s \in StocktakeIds : stocktakes[s] = NoStocktake /\ stocktakes'[s] # NoStocktake
                              => b.stocktakes[s] = NoStocktake
    /\ \A doc \in Documents : movements[doc] = <<>> /\ movements'[doc] # <<>>
                              => b.movements[doc] = <<>>
    /\ expenses' \cap b.expenses \subseteq expenses
    /\ Len(treasury') > Len(treasury) => Len(b.treasury) <= Len(treasury)

CommandAudited ==
  /\ ~wiped
  /\ Next /\ FreshIds
  /\ chain' = chain \o SetToSeq(Audited)
  /\ UNCHANGED <<wiped, backups>>

ExportBackup ==
  /\ ~wiped /\ Cardinality(backups) < MaxBackups
  /\ backups' = backups \cup {Company}
  /\ UNCHANGED <<vars, chain, wiped>>

WipeAll ==
  /\ wiped' = TRUE /\ chain' = <<>>
  /\ journals' = {} /\ treasury' = <<>> /\ expenses' = {} /\ closed' = {}
  /\ invoices' = [i \in InvoiceIds |-> NoInvoice]
  /\ cheques' = [c \in ChequeIds |-> NoCheque]
  /\ stock' = [w \in Warehouses |-> [p \in Products |-> NoStock]]
  /\ movements' = [doc \in Documents |-> <<>>]
  /\ stocktakes' = [s \in StocktakeIds |-> NoStocktake]
  /\ UNCHANGED backups

-----------------------------------------------------------------------------
\* Rows that are there in the file and in the company must be the same.
Same(absent, mine, theirs) == absent \in {mine, theirs} \/ mine = theirs

(* protectedPosted. Journals, treasury transactions, settlements, expenses *)
(* and movements never change once written; an invoice does when it is     *)
(* paid and a cheque when it is settled, and then no older file is taken.  *)
SamePosted(b) ==
  /\ \A i \in InvoiceIds : Same(NoInvoice, invoices[i], b.invoices[i])
  /\ \A c \in ChequeIds : Same(NoCheque, cheques[c], b.cheques[c])

SameHistory(b) == IsPrefix(b.chain, chain) \/ IsPrefix(chain, b.chain)

\* The row of a store that a restore leaves: put when missing, and put over
\* another one by a replace.
Put(mode, absent, mine, theirs) ==
  IF theirs # absent /\ (mode = "replace" \/ mine = absent) THEN theirs ELSE mine

\* Whether a balance row for p in w was in the file.
Moved(moves, w, p) ==
  \E doc \in Documents : \E k \in DOMAIN moves[doc] :
    moves[doc][k].warehouse = w /\ moves[doc][k].product = p

\* Mutant: a merge overwrites the balances as well.
PutAnyBalance(b, mode, w, p) ==
  IF Moved(b.movements, w, p) THEN b.stock[w][p] ELSE stock[w][p]

PutBalance(b, mode, w, p) ==
  IF Moved(b.movements, w, p) /\ (mode = "replace" \/ ~HasBalance(w, p))
  THEN b.stock[w][p] ELSE stock[w][p]

\* A session and its lines are rows of two stores.
PutStocktake(b, mode, s) ==
  LET mine == stocktakes[s]
      theirs == b.stocktakes[s]
      put == Put(mode, NoStocktake, mine, theirs)
  IN  [put EXCEPT !.lines =
         IF mode = "replace" THEN theirs.lines @@ mine.lines ELSE mine.lines @@ theirs.lines]

PutClosed(b, mode) == IF mode = "replace" \/ wiped THEN b.closed ELSE closed

Restored(b, mode) ==
  [journals |-> journals \cup b.journals,
   invoices |-> [i \in InvoiceIds |-> Put(mode, NoInvoice, invoices[i], b.invoices[i])],
   treasury |-> IF Len(b.treasury) > Len(treasury) THEN b.treasury ELSE treasury,
   expenses |-> expenses \cup b.expenses,
   cheques |-> [c \in ChequeIds |-> Put(mode, NoCheque, cheques[c], b.cheques[c])],
   stock |-> [w \in Warehouses |-> [p \in Products |-> PutBalance(b, mode, w, p)]],
   movements |-> [doc \in Documents |-> Put(mode, <<>>, movements[doc], b.movements[doc])],
   stocktakes |-> [s \in StocktakeIds |-> PutStocktake(b, mode, s)],
   closed |-> PutClosed(b, mode),
   chain |-> IF Len(b.chain) > Len(chain) THEN b.chain ELSE chain]

\* The posted journal of a document.
Posted(c, kind, id) == \E j \in c.journals : j.source = <<kind, id>>

(* What a restored row refers to must be there once all rows are in: the   *)
(* journal of every document and transaction, the invoice of a settlement. *)
References(b, after) ==
  /\ \A i \in InvoiceIds : b.invoices[i] # NoInvoice => Posted(after, "invoice", i)
  /\ \A e \in b.expenses : Posted(after, "expense", e)
  /\ \A c \in ChequeIds :
       /\ b.cheques[c] # NoCheque => Posted(after, "cheque", c)
       /\ b.cheques[c].status \notin {"absent", "pending"} => Posted(after, "cheque_status", c)
  /\ \A k \in DOMAIN b.treasury :
       LET kind == IF b.treasury[k].ref = None THEN "none" ELSE b.treasury[k].ref[1]
           id == b.treasury[k].ref[2]
       IN  CASE kind = "expense" -> Posted(after, "expense", id)
             [] kind = "cheque" -> Posted(after, "cheque_status", id)
             [] OTHER -> /\ Posted(after, "treasury", k)
                         /\ kind = "invoice" => after.invoices[id] # NoInvoice

\* The uid of the next receipt.
NextReceipt ==
  1 + Max({0} \cup {n \in 1 .. MaxRestores :
        \E c \in {Company} \cup backups : <<"restore", n>> \in ToSet(c.chain)})

Restore(b, mode) ==
  LET after == Restored(b, mode)
  IN  /\ SamePosted(b) /\ SameHistory(b) /\ References(b, after)
      /\ journals' = after.journals /\ invoices' = after.invoices
      /\ treasury' = after.treasury /\ expenses' = after.expenses
      /\ cheques' = after.cheques /\ closed' = after.closed
      /\ stock' = after.stock /\ movements' = after.movements
      /\ stocktakes' = after.stocktakes
      /\ chain' = Append(after.chain, <<"restore", NextReceipt>>)
      /\ wiped' = FALSE
      /\ UNCHANGED backups

Recover == \E b \in backups, mode \in Modes : NextReceipt <= MaxRestores /\ Restore(b, mode)

RecoveryNext == CommandAudited \/ ExportBackup \/ WipeAll \/ Recover

RecoverySpec == InitRecovery /\ [][RecoveryNext]_recoveryVars
-----------------------------------------------------------------------------
(* A file restored into the emptied stores gives back the company that was *)
(* exported, with its receipt.                                             *)
GivesBack ==
  wiped => \A b \in backups, mode \in Modes :
    Restore(b, mode) => Company' = [b EXCEPT !.chain = Append(@, <<"restore", NextReceipt>>)]

(* A restore leaves every document, movement and journal that was there as *)
(* it was, and takes none of them away (CompanyBackupService.js:100-141).  *)
KeepsDocuments ==
  Recover =>
    /\ journals \subseteq journals' /\ IsPrefix(treasury, treasury')
    /\ expenses \subseteq expenses'
    /\ \A i \in InvoiceIds : invoices[i] # NoInvoice => invoices'[i] = invoices[i]
    /\ \A c \in ChequeIds : cheques[c] # NoCheque => cheques'[c] = cheques[c]
    /\ \A doc \in Documents : movements[doc] # <<>> => movements'[doc] = movements[doc]

\* The file has a transfer or a stocktake that the company lacks. Neither
\* leaves an audit event when it is begun, so the chain does not tell.
HasUnaudited(b) ==
  \/ \E t \in TransferIds : movements[t] = <<>> /\ b.movements[t] # <<>>
  \/ \E s \in StocktakeIds : stocktakes[s] = NoStocktake /\ b.stocktakes[s] # NoStocktake

\* What an open session noted down is still the balance.
SnapshotsHold ==
  \A s \in StocktakeIds : stocktakes[s].status = "draft" =>
    /\ Open(stocktakes[s].date)
    /\ \A p \in DOMAIN stocktakes[s].lines :
         stock[stocktakes[s].warehouse][p]
           = [units |-> stocktakes[s].lines[p].units, value |-> stocktakes[s].lines[p].value]

GoodsSound == InventoryAgrees /\ SnapshotsHold /\ CountedSessionFinishes

(* Through every order of commands, wipes and merges of several files the  *)
(* stock is what was moved and a counted session can be finished, unless a *)
(* file is merged into a company that lacks a transfer or a stocktake of   *)
(* the file: the balance that is there is kept and the movements are added *)
(* (CompanyBackupService.js:142-149).                                      *)
MergesKeepGoods ==
  GoodsSound /\ (Recover => \A b \in backups : Restore(b, "merge") => wiped \/ ~HasUnaudited(b))
  => GoodsSound'
=============================================================================
