--------------------------- MODULE LedgerRecovery ---------------------------
(***************************************************************************)
(* Backup, wipe and restore of the general ledger while it is being used:  *)
(* SettingsController's exportBackup, importBackup and wipeAll over        *)
(* CompanyBackupService.restoreCompanyBackup and the audit chain.          *)
(*                                                                         *)
(* A file is a snapshot of the stores, taken in one read transaction and   *)
(* protected by its digest and by the anchor of its chain, so it is one of *)
(* the values exported. A restore is one transaction, guarded by all that  *)
(* would abort it. Beyond the state of Ledger it tells rows apart by their *)
(* uid: an audit event, an account, and the lines of a journal, which      *)
(* every edit of a draft deletes and writes anew.                          *)
(***************************************************************************)
EXTENDS Ledger, SequencesExt

CONSTANTS MaxBackups,   \* bound on the files exported
          MaxUid        \* bound on the uids drawn

ASSUME RecoveryAssumption == MaxBackups \in Nat /\ MaxUid \in Nat

VARIABLES accountId,   \* the uid of the account with a code, 0 when there is none
          batches,     \* the lines of each journal, by the command that wrote them
          chain,       \* the uids of the audit events, in the order of chainIndex
          backups      \* the files exported so far

side == <<accountId, batches, chain>>
recoveryVars == <<vars, side, backups>>

\* COMPANY_BACKUP_STORES, as far as the ledger has them.
Company ==
  [chart |-> chart, accountId |-> accountId, period |-> period, journal |-> journal,
   batches |-> batches, stocktake |-> stocktake, commands |-> commands, chain |-> chain]

Present(row) == row.status \notin {"absent", "discarded"}

Uids(c) ==
  ToSet(c.chain) \cup {c.accountId[code] : code \in Codes}
  \cup UNION {{batch.uid : batch \in c.batches[j]} : j \in JournalIds}

\* StorageService.uid: one that neither the company nor a file has.
NextUid ==
  CHOOSE uid \in 1 .. MaxUid + 1 :
    uid \notin Uids(Company) /\ \A b \in backups : uid \notin Uids(b)

\* The rows of a store come in the order of their keys.
InKeyOrder(written) ==
  CHOOSE f \in [1 .. Cardinality(written) -> written] :
    \A i, k \in DOMAIN f : i < k => f[i].uid < f[k].uid

LinesOf(written) == FlattenSeq([k \in 1 .. Cardinality(written) |-> InKeyOrder(written)[k].lines])

InitRecovery ==
  /\ Init
  /\ accountId = [code \in Codes |-> 0]
  /\ batches = [j \in JournalIds |-> {}]
  /\ chain = <<>>
  /\ backups = {}

-----------------------------------------------------------------------------
(* The commands of the ledger, with the uids they draw                     *)

HasCode(code) == \E a \in chart : a.code = code

\* A row that a file has keeps its uid: a new row never takes it.
FreshRows ==
  \A b \in backups :
    /\ \A j \in JournalIds : journal[j].status = "absent" /\ b.journal[j].status # "absent"
                               => journal'[j].status = "absent"
    /\ \A p \in PeriodIds : period[p].status = "absent" /\ b.period[p].status # "absent"
                              => period'[p].status = "absent"
    /\ \A s \in StocktakeIds : stocktake[s].status = "absent" /\ b.stocktake[s].status # "absent"
                                 => stocktake'[s].status = "absent"

EditDraftRows ==
  /\ \E j \in JournalIds, p \in PeriodIds, d \in Dates, lines \in LineLists, post \in BOOLEAN :
       /\ UpdateDraftJournal(j, p, d, lines, post)
       /\ batches' = [batches EXCEPT ![j] = {[uid |-> NextUid, lines |-> lines]}]
  /\ chain' = Append(chain, NextUid)
  /\ UNCHANGED <<accountId, backups>>

CommandRows ==
  /\ OtherCommand
  /\ FreshRows
  /\ accountId' = [code \in Codes |-> IF HasCode(code)' /\ ~HasCode(code)
                                      THEN NextUid ELSE accountId[code]]
  /\ batches' = [j \in JournalIds |->
       IF ~Present(journal'[j]) THEN {}
       ELSE IF journal'[j].lines = journal[j].lines THEN batches[j]
       ELSE {[uid |-> NextUid, lines |-> journal'[j].lines]}]
  /\ chain' = IF commands' = commands THEN chain ELSE Append(chain, NextUid)
  /\ UNCHANGED backups

(* exportBackup                                                            *)
ExportBackup ==
  /\ Cardinality(backups) < MaxBackups
  /\ backups' = backups \cup {Company}
  /\ UNCHANGED <<vars, side>>

(* wipeAll clears every store; the files remain.                           *)
WipeAll ==
  /\ chart' = {} /\ commands' = {} /\ chain' = <<>>
  /\ period' = [p \in PeriodIds |-> NoPeriod]
  /\ journal' = [j \in JournalIds |-> NoJournal("absent")]
  /\ stocktake' = [s \in StocktakeIds |-> NoStocktake]
  /\ accountId' = [code \in Codes |-> 0]
  /\ batches' = [j \in JournalIds |-> {}]
  /\ UNCHANGED backups

-----------------------------------------------------------------------------
(* restoreCompanyBackup                                                    *)

\* A row of the file is put where there is none, and over another one only by
\* a replace.
Put(mode, old, new) ==
  IF Present(new) /\ (mode = "replace" \/ ~Present(old)) THEN new
  ELSE IF old.status = "absent" /\ ~Present(new) THEN new
  ELSE old

\* Mutant: the rows a company has are put again.
PutBatchesAgain(b, j) == batches[j] \cup {[batch EXCEPT !.uid = NextUid] : batch \in b.batches[j]}

\* journal_lines are rows of their own: those the company has are kept.
PutBatches(b, j) == batches[j] \cup b.batches[j]

\* The company that a restore leaves behind, but for its audit receipt.
Restored(b, mode) ==
  LET rows == [j \in JournalIds |-> PutBatches(b, j)]
  IN  [chart |-> chart \cup b.chart,
       accountId |-> [code \in Codes |->
          IF accountId[code] = 0 THEN b.accountId[code] ELSE accountId[code]],
       period |-> [p \in PeriodIds |-> Put(mode, period[p], b.period[p])],
       journal |-> [j \in JournalIds |->
          [Put(mode, journal[j], b.journal[j]) EXCEPT !.lines = LinesOf(rows[j])]],
       batches |-> rows,
       stocktake |-> [s \in StocktakeIds |-> Put(mode, stocktake[s], b.stocktake[s])],
       commands |-> commands \cup b.commands,
       chain |-> IF Len(b.chain) > Len(chain) THEN b.chain ELSE chain]

Header(row) == [row EXCEPT !.lines = <<>>]

\* Mutant: a journal is protected only while the file has it as posted.
OnlyFilePosted(b, j) ==
  Live(j) /\ b.journal[j].status = "posted" => Header(journal[j]) = Header(b.journal[j])

\* protectedPosted: a posted journal, here or in the file, is never rewritten.
SamePosted(b, j) ==
  /\ Live(j) /\ Present(b.journal[j])
  /\ Posted(j) \/ b.journal[j].status = "posted"
  => Header(journal[j]) = Header(b.journal[j])

\* restoreHistorical: an event of the file is there already, or it is the next
\* one of the chain.
SameHistory(b) == IsPrefix(b.chain, chain) \/ IsPrefix(chain, b.chain)

SameAccounts(b) ==
  \A code \in Codes : 0 \in {accountId[code], b.accountId[code]}
                      \/ accountId[code] = b.accountId[code]

\* The unique index on sourceKey.
SourcesUnique(rows) ==
  \A i, j \in JournalIds :
    i # j /\ Present(rows[i]) /\ Present(rows[j]) /\ rows[i].source # NoSource
      => rows[i].source # rows[j].source

\* Mutant: a draft has to balance like a posted journal.
RestoredBalanced(b) == \A j \in JournalIds : Live(j) => Balanced(journal[j].lines)

(* The checks on the company as restored, before the commit.               *)
RestoredValid(b) ==
  /\ \A row \in chart : ValidAccount(row, chart \ {row})
  /\ \A p, q \in PeriodIds :
       p # q /\ Present(period[p]) /\ Present(period[q])
         => ~(period[p].start <= period[q].end /\ period[p].end >= period[q].start)
  /\ \A j \in JournalIds : Present(b.journal[j]) =>
       /\ \E p \in PeriodIds : p = journal[j].period /\ Present(period[p])
       /\ InPeriod(journal[j].period, journal[j].date)
       /\ ValidJournalLines(journal[j].lines, TRUE)
       /\ Posted(j) => Balanced(journal[j].lines)

HasV2(b) == b.chart # {} \/ (\E p \in PeriodIds : Present(b.period[p]))
                         \/ (\E j \in JournalIds : Present(b.journal[j]))

\* They are made when the file has a row of the accounting stores.
CheckRestored(b) == HasV2(b) => RestoredValid(b)'

Restore(b, mode) ==
  LET after == Restored(b, mode)
  IN  /\ SameHistory(b)
      /\ SameAccounts(b)
      /\ \A j \in JournalIds : SamePosted(b, j)
      /\ SourcesUnique(after.journal)
      /\ chart' = after.chart
      /\ accountId' = after.accountId
      /\ period' = after.period
      /\ journal' = after.journal
      /\ batches' = after.batches
      /\ stocktake' = after.stocktake
      /\ commands' = after.commands
      /\ chain' = Append(after.chain, NextUid)
      /\ CheckRestored(b)
      /\ UNCHANGED backups

Modes == {"merge", "replace"}

Command == NextUid <= MaxUid /\ (EditDraftRows \/ CommandRows)

Recover == NextUid <= MaxUid /\ \E b \in backups, mode \in Modes : Restore(b, mode)

RecoveryNext == Command \/ ExportBackup \/ WipeAll \/ Recover

RecoverySpec == InitRecovery /\ [][RecoveryNext]_recoveryVars
-----------------------------------------------------------------------------
RecoveryTypeOK ==
  /\ TypeOK
  /\ accountId \in [Codes -> 0 .. MaxUid] /\ \A code \in Codes : accountId[code] # 0 <=> HasCode(code)
  /\ ToSet(chain) \subseteq 1 .. MaxUid /\ Cardinality(ToSet(chain)) = Len(chain)
  /\ \A j \in JournalIds : journal[j].lines = LinesOf(batches[j])
  /\ Cardinality(backups) <= MaxBackups

HistoryKept ==
  /\ \A j \in JournalIds : Posted(j) => journal'[j] = journal[j] /\ batches'[j] = batches[j]
  /\ IsPrefix(chain, chain')

(* No restore, of any file in any mode, changes a posted journal or one of *)
(* its lines, nor an event of the audit log (CompanyBackupService.js:100). *)
RestoreKeepsHistory == [][Recover => HistoryKept]_recoveryVars

Emptied ==
  /\ chart = {} /\ chain = <<>>
  /\ \A j \in JournalIds : ~Live(j)
  /\ \A p \in PeriodIds : ~Present(period[p])
  /\ \A s \in StocktakeIds : ~Present(stocktake[s])

GivesBack ==
  Emptied => \A b \in backups, mode \in Modes :
    Restore(b, mode) => Company' = [b EXCEPT !.chain = Append(b.chain, NextUid)]

(* A file restored into an emptied company gives back exactly the company  *)
(* that was exported, plus the receipt of the restore.                     *)
RestoreGivesBack == [][GivesBack]_recoveryVars

(* Whatever was exported, an emptied company takes it: no state that the   *)
(* commands can reach is refused by the checks of the restore, whose rules *)
(* are written apart from theirs (CompanyBackupService.js:192-230).        *)
ExportsRestorable ==
  Emptied /\ NextUid <= MaxUid =>
    \A b \in backups, mode \in Modes : ENABLED Restore(b, mode)

\* What a file adds to the company restored from it.
NothingMissing ==
  \A b \in backups, mode \in Modes : Restore(b, mode) => Restored(b, mode)' = Company'

(* Restoring the same file once more changes nothing but the receipt.      *)
RestoreIdempotent == [][NothingMissing]_recoveryVars

=============================================================================
