------------------------------- MODULE Ledger -------------------------------
(***************************************************************************)
(* The general ledger of one company: AccountingService.js over the        *)
(* validators of AccountingCore.mjs, with the commercial entry points of   *)
(* RetailPostingService.js that share its stores: journal(), and the       *)
(* stocktake sessions that closePeriod looks at.                           *)
(*                                                                         *)
(* Every command of the code runs in one IndexedDB transaction that is     *)
(* rolled back when it throws, so a command is one action and its guard is *)
(* the conjunction of the checks that would throw.                         *)
(***************************************************************************)
EXTENDS Integers, Sequences, FiniteSets, Functions

CONSTANTS JournalIds,         \* uids of journal_entries rows
          PeriodIds,          \* uids of fiscal_periods rows
          StocktakeIds,       \* uids of stocktakes rows
          Warehouses,
          Dates,              \* business dates, ordered as numbers
          AccountRows,        \* rows addAccount may be asked to add
          DefaultRows,        \* DEFAULT_CHART
          LineLists,          \* line lists a command may carry
          ManualSources,      \* sources a manual journal may name
          CommercialSources,  \* sources of posted commercial documents
          None                \* an absent reference

CommercialTypes ==
  {"invoice", "treasury", "expense", "cheque", "cheque_status", "stocktake"}

RESERVED_SOURCES == CommercialTypes \cup {"opening_balance"}

\* ACCOUNT_LEVELS numbers its levels group, general, subsidiary, detail.
Group == 0
General == 1

ACCOUNT_TYPES == {"asset", "liability", "equity", "revenue", "expense"}

Codes == {row.code : row \in AccountRows \cup DefaultRows}

\* A debit is a positive amount and a credit a negative one.
Line == [account: Codes, amount: Int]

ASSUME LedgerAssumption ==
  /\ None \notin JournalIds \cup PeriodIds \cup Codes
  /\ \A row \in DefaultRows : row.level \in {Group, General}
  /\ Dates \subseteq Nat \ {0}
  /\ LineLists \subseteq Seq(Line)
  /\ ManualSources \cap JournalIds = {}
  /\ \A src \in CommercialSources : src.type \in CommercialTypes \ {"stocktake"}

VARIABLES chart,      \* the account_chart rows
          period,     \* fiscal_periods: each period's status and date range
          journal,    \* journal_entries with their journal_lines
          stocktake,  \* stocktakes: each session's status, warehouse and date
          commands    \* the unique commandKeys of audit_events

vars == <<chart, period, journal, stocktake, commands>>

NoSource == [type |-> "none", id |-> None]
ReversalSource(j) == [type |-> "journal_reversal", id |-> j]
StocktakeSource(s) == [type |-> "stocktake", id |-> s]

AllCommercialSources == CommercialSources \cup {StocktakeSource(s) : s \in StocktakeIds}

NoPeriod == [status |-> "absent", start |-> 0, end |-> 0]

NewJournal(status, p, d, lines, src, of) ==
  [status |-> status, period |-> p, date |-> d, source |-> src, lines |-> lines,
   reversedBy |-> None, reversalOf |-> of]

NoJournal(status) == NewJournal(status, None, 0, <<>>, NoSource, None)

NoStocktake == [status |-> "absent", warehouse |-> None, date |-> 0]

Live(j) == journal[j].status \in {"draft", "posted"}
Posted(j) == journal[j].status = "posted"

-----------------------------------------------------------------------------
(* The validators of AccountingCore.mjs.                                   *)

InPeriod(p, d) == period[p].start <= d /\ d <= period[p].end

OpenFor(p, d) == period[p].status = "open" /\ InPeriod(p, d)

ValidFiscalPeriod(start, end) ==
  /\ start <= end
  /\ \A q \in PeriodIds :
       period[q].status # "absent" => ~(start <= period[q].end /\ end >= period[q].start)

ValidAccount(row, existing) ==
  /\ row.type \in ACCOUNT_TYPES
  /\ \A a \in existing : a.code # row.code
  /\ IF row.level = Group
     THEN row.parent = None
     ELSE \E parent \in existing :
            /\ parent.code = row.parent
            /\ parent.active
            /\ parent.level = row.level - 1
            /\ parent.type = row.type

HasChildren(code) == \E a \in chart : a.parent = code

\* historical: the allowInactive and allowParent options, which the code only
\* ever passes together (closePeriod and reverseJournal).
ValidLineAccount(code, historical) ==
  /\ \E a \in chart :
       /\ a.code = code
       /\ a.level # Group
       /\ historical \/ (a.active /\ a.postable)
  /\ historical \/ ~HasChildren(code)

ValidJournalLines(lines, historical) ==
  /\ Len(lines) >= 1
  /\ \A i \in DOMAIN lines :
       /\ lines[i].amount # 0
       /\ ValidLineAccount(lines[i].account, historical)

Total(lines) == SumFunction([i \in DOMAIN lines |-> lines[i].amount])

Balanced(lines) == Len(lines) >= 2 /\ Total(lines) = 0

ValidJournal(p, d, lines, historical) ==
  /\ OpenFor(p, d)
  /\ ValidJournalLines(lines, historical)
  /\ Balanced(lines)

ReversingLines(lines) ==
  [i \in DOMAIN lines |-> [account |-> lines[i].account, amount |-> -lines[i].amount]]

-----------------------------------------------------------------------------
(* AuditService.append: the unique index on commandKey aborts a replay.    *)
Audit(key) == key \notin commands /\ commands' = commands \cup {key}

SourceUsed(src) == \E j \in JournalIds : Live(j) /\ journal[j].source = src

\* Mutant: only posted lines keep an account from becoming a parent.
HasPostedLines(code) ==
  \E j \in JournalIds :
    Posted(j) /\ \E i \in DOMAIN journal[j].lines : journal[j].lines[i].account = code

HasLines(code) ==
  \E j \in JournalIds :
    Live(j) /\ \E i \in DOMAIN journal[j].lines : journal[j].lines[i].account = code

-----------------------------------------------------------------------------
Init ==
  /\ chart = {}
  /\ period = [p \in PeriodIds |-> NoPeriod]
  /\ journal = [j \in JournalIds |-> NoJournal("absent")]
  /\ stocktake = [s \in StocktakeIds |-> NoStocktake]
  /\ commands = {}

(* addAccount: an account with journal lines may not become a parent.      *)
AddAccount(row) ==
  /\ ValidAccount(row, chart)
  /\ row.parent # None => ~HasLines(row.parent)
  /\ chart' = chart \cup {row}
  /\ UNCHANGED <<period, journal, stocktake, commands>>

(* seedDefaultChart adds the missing rows of DEFAULT_CHART, in which a     *)
(* parent precedes its children, or none of them.                          *)
SeedDefaultChart ==
  LET missing == {row \in DefaultRows : \A a \in chart : a.code # row.code}
  IN  /\ missing # {}
      /\ \A row \in missing : ValidAccount(row, chart \cup (missing \ {row}))
      /\ chart' = chart \cup missing
      /\ UNCHANGED <<period, journal, stocktake, commands>>

CreatePeriod(p, start, end) ==
  /\ period[p].status = "absent"
  /\ ValidFiscalPeriod(start, end)
  /\ period' = [period EXCEPT ![p] = [status |-> "open", start |-> start, end |-> end]]
  /\ Audit(<<"open-period", p>>)
  /\ UNCHANGED <<chart, journal, stocktake>>

\* Mutant: a draft may stay behind in the period.
ClosePeriodOverDrafts(p) ==
  /\ period[p].status = "open"
  /\ \A s \in StocktakeIds : stocktake[s].status # "draft"
  /\ period' = [period EXCEPT ![p].status = "closed"]
  /\ Audit(<<"close-period", p>>)
  /\ UNCHANGED <<chart, journal, stocktake>>

(* closePeriod: every journal of the period is posted, dated inside it and *)
(* has valid balanced lines, and no stocktake of the company is open.      *)
ClosePeriod(p) ==
  /\ period[p].status = "open"
  /\ \A j \in JournalIds : Live(j) /\ journal[j].period = p =>
       /\ Posted(j)
       /\ InPeriod(p, journal[j].date)
       /\ ValidJournalLines(journal[j].lines, TRUE)
       /\ Balanced(journal[j].lines)
  /\ \A s \in StocktakeIds : stocktake[s].status # "draft"
  /\ period' = [period EXCEPT ![p].status = "closed"]
  /\ Audit(<<"close-period", p>>)
  /\ UNCHANGED <<chart, journal, stocktake>>

SaveDraftJournal(j, p, d, lines, src) ==
  /\ journal[j].status = "absent"
  /\ src.type \notin RESERVED_SOURCES
  /\ OpenFor(p, d)
  /\ ValidJournalLines(lines, FALSE)
  /\ src # NoSource => ~SourceUsed(src)
  /\ journal' = [journal EXCEPT ![j] = NewJournal("draft", p, d, lines, src, None)]
  /\ Audit(<<"draft-create", j>>)
  /\ UNCHANGED <<chart, period, stocktake>>

\* Mutant: a posted row is still editable.
UpdatePostedJournal(j, p, d, lines, post) ==
  /\ Live(j)
  /\ ValidJournal(p, d, lines, FALSE)
  /\ journal' = [journal EXCEPT ![j] = [@ EXCEPT !.period = p, !.date = d, !.lines = lines]]
  /\ UNCHANGED <<chart, period, stocktake, commands>>

(* updateDraftJournal replaces the lines, may move the draft to another    *)
(* open period and, with post, posts it. Its commandKey is a fresh uid.    *)
UpdateDraftJournal(j, p, d, lines, post) ==
  /\ journal[j].status = "draft"
  /\ IF post
     THEN ValidJournal(p, d, lines, FALSE)
     ELSE OpenFor(p, d) /\ ValidJournalLines(lines, FALSE)
  /\ journal' = [journal EXCEPT ![j] =
       [@ EXCEPT !.status = IF post THEN "posted" ELSE "draft",
                 !.period = p, !.date = d, !.lines = lines]]
  /\ UNCHANGED <<chart, period, stocktake, commands>>

PostDraftJournal(j) ==
  /\ journal[j].status = "draft"
  /\ ValidJournal(journal[j].period, journal[j].date, journal[j].lines, FALSE)
  /\ journal' = [journal EXCEPT ![j].status = "posted"]
  /\ Audit(<<"draft-finalize", j>>)
  /\ UNCHANGED <<chart, period, stocktake>>

\* Mutant: the discard leaves no audit record.
DiscardUnaudited(j) ==
  /\ journal[j].status = "draft"
  /\ journal' = [journal EXCEPT ![j] = NoJournal("discarded")]
  /\ UNCHANGED <<chart, period, stocktake, commands>>

(* A discarded row is deleted, and its uid is never drawn again.           *)
DiscardDraftJournal(j) ==
  /\ journal[j].status = "draft"
  /\ journal' = [journal EXCEPT ![j] = NoJournal("discarded")]
  /\ Audit(<<"draft-discard", j>>)
  /\ UNCHANGED <<chart, period, stocktake>>

PostJournal(j, p, d, lines, src) ==
  /\ journal[j].status = "absent"
  /\ src.type \notin RESERVED_SOURCES
  /\ ValidJournal(p, d, lines, FALSE)
  /\ src # NoSource => ~SourceUsed(src)
  /\ journal' = [journal EXCEPT ![j] = NewJournal("posted", p, d, lines, src, None)]
  /\ Audit(<<"manual-journal", IF src # NoSource THEN src ELSE j>>)
  /\ UNCHANGED <<chart, period, stocktake>>

\* Mutant: the lines are copied and not mirrored.
ReverseUnmirrored(original, j, p, d) ==
  /\ journal[j].status = "absent"
  /\ Posted(original)
  /\ journal[original].reversedBy = None /\ journal[original].reversalOf = None
  /\ LET lines == journal[original].lines
     IN  /\ ValidJournal(p, d, lines, TRUE)
         /\ journal' = [journal EXCEPT
              ![j] = NewJournal("posted", p, d, lines, ReversalSource(original), original),
              ![original].reversedBy = j]
  /\ Audit(<<"manual-reversal", original>>)
  /\ UNCHANGED <<chart, period, stocktake>>

(* reverseJournal posts the mirrored lines and marks the original.         *)
ReverseJournal(original, j, p, d) ==
  /\ journal[j].status = "absent"
  /\ Posted(original)
  /\ journal[original].reversedBy = None
  /\ journal[original].reversalOf = None
  /\ journal[original].source.type \notin CommercialTypes
  /\ LET lines == ReversingLines(journal[original].lines)
     IN  /\ ValidJournal(p, d, lines, TRUE)
         /\ ~SourceUsed(ReversalSource(original))
         /\ journal' = [journal EXCEPT
              ![j] = NewJournal("posted", p, d, lines, ReversalSource(original), original),
              ![original].reversedBy = j]
  /\ Audit(<<"manual-reversal", original>>)
  /\ UNCHANGED <<chart, period, stocktake>>

(* RetailPostingService.context and journal: the period is the one that    *)
(* holds the date.                                                         *)
CommercialJournal(j, p, d, lines, src) ==
  /\ journal[j].status = "absent"
  /\ ValidJournal(p, d, lines, FALSE)
  /\ ~SourceUsed(src)
  /\ journal' = [journal EXCEPT ![j] = NewJournal("posted", p, d, lines, src, None)]
  /\ Audit(<<"retail-journal", src>>)

PostCommercial(j, p, d, lines, src) ==
  /\ CommercialJournal(j, p, d, lines, src)
  /\ UNCHANGED <<chart, period, stocktake>>

NewStocktake(s, w, d) ==
  /\ stocktake[s].status = "absent"
  /\ \E p \in PeriodIds : OpenFor(p, d)
  /\ \A other \in StocktakeIds :
       ~(stocktake[other].status = "draft" /\ stocktake[other].warehouse = w)
  /\ stocktake' = [stocktake EXCEPT ![s] =
       [status |-> "draft", warehouse |-> w, date |-> d]]
  /\ UNCHANGED <<chart, period, journal, commands>>

(* finalizeStocktake posts an adjustment dated on the day of the session,  *)
(* or none when the count agrees. What is counted is RetailPosting's.      *)
FinalizeStocktake(s) ==
  /\ stocktake[s].status = "draft"
  /\ \E p \in PeriodIds :
       /\ OpenFor(p, stocktake[s].date)
       /\ \/ UNCHANGED <<journal, commands>>
          \/ \E j \in JournalIds, lines \in LineLists :
               CommercialJournal(j, p, stocktake[s].date, lines, StocktakeSource(s))
  /\ stocktake' = [stocktake EXCEPT ![s].status = "posted"]
  /\ UNCHANGED <<chart, period>>

EditDraft ==
  \E j \in JournalIds, p \in PeriodIds, d \in Dates, lines \in LineLists, post \in BOOLEAN :
    UpdateDraftJournal(j, p, d, lines, post)

OtherCommand ==
  \/ \E row \in AccountRows : AddAccount(row)
  \/ SeedDefaultChart
  \/ \E p \in PeriodIds, start, end \in Dates : CreatePeriod(p, start, end)
  \/ \E p \in PeriodIds : ClosePeriod(p)
  \/ \E j \in JournalIds, p \in PeriodIds, d \in Dates, lines \in LineLists :
       \/ \E src \in ManualSources \cup {NoSource} :
            \/ SaveDraftJournal(j, p, d, lines, src)
            \/ PostJournal(j, p, d, lines, src)
       \/ \E src \in CommercialSources : PostCommercial(j, p, d, lines, src)
  \/ \E j \in JournalIds : PostDraftJournal(j)
  \/ \E j \in JournalIds : DiscardDraftJournal(j)
  \/ \E original, j \in JournalIds, p \in PeriodIds, d \in Dates :
       ReverseJournal(original, j, p, d)
  \/ \E s \in StocktakeIds, w \in Warehouses, d \in Dates : NewStocktake(s, w, d)
  \/ \E s \in StocktakeIds : FinalizeStocktake(s)

Next == EditDraft \/ OtherCommand

Spec == Init /\ [][Next]_vars

-----------------------------------------------------------------------------
TypeOK ==
  /\ chart \subseteq AccountRows \cup DefaultRows
  /\ period \in [PeriodIds ->
       [status: {"absent", "open", "closed"}, start: Dates \cup {0}, end: Dates \cup {0}]]
  /\ journal \in [JournalIds ->
       [status: {"absent", "draft", "posted", "discarded"},
        period: PeriodIds \cup {None}, date: Dates \cup {0},
        source: {NoSource} \cup ManualSources \cup AllCommercialSources
                \cup {ReversalSource(j) : j \in JournalIds},
        lines: Seq(Line),
        reversedBy: JournalIds \cup {None}, reversalOf: JournalIds \cup {None}]]
  /\ stocktake \in [StocktakeIds ->
       [status: {"absent", "draft", "posted"}, warehouse: Warehouses \cup {None},
        date: Dates \cup {0}]]

(* A closed period holds no draft, so nothing in it can still change: a    *)
(* draft may be moved between periods, posted or dropped at any time, and  *)
(* closePeriod is the only place that looks (AccountingService.js:147).    *)
ClosedPeriodSettled ==
  \A j \in JournalIds :
    Live(j) /\ period[journal[j].period].status = "closed" => Posted(j)

(* Periods never overlap, and every live journal is dated inside the       *)
(* period it names, although an edit chooses both afresh.                  *)
DatedInPeriod ==
  /\ \A p, q \in PeriodIds :
       p # q /\ period[p].status # "absent" /\ period[q].status # "absent"
         => period[p].end < period[q].start \/ period[q].end < period[p].start
  /\ \A j \in JournalIds :
       Live(j) => /\ journal[j].period \in PeriodIds
                  /\ period[journal[j].period].status # "absent"
                  /\ InPeriod(journal[j].period, journal[j].date)

(* A business source is journalled at most once, whichever of the manual,  *)
(* draft, reversal and commercial commands claims it first.                *)
SourcePostedOnce ==
  \A i, j \in JournalIds :
    /\ i # j /\ Live(i) /\ Live(j)
    /\ journal[i].source # NoSource
    => journal[i].source # journal[j].source

(* A reversal and its original name each other, cancel account by account, *)
(* and neither is reversed again; a commercial journal is never reversed.  *)
ReversalPaired ==
  \A o, r \in JournalIds :
    /\ journal[o].reversedBy = r <=> journal[r].reversalOf = o
    /\ journal[o].reversedBy = r =>
         /\ Posted(o) /\ Posted(r)
         /\ journal[r].lines = ReversingLines(journal[o].lines)
         /\ journal[o].reversalOf = None /\ journal[r].reversedBy = None
         /\ journal[o].source.type \notin CommercialTypes

(* An account with lines of a live journal stays a leaf of the chart, so   *)
(* its balance stays attributable and closePeriod can always validate it.  *)
LinesOnLeaves ==
  \A j \in JournalIds :
    Live(j) => \A i \in DOMAIN journal[j].lines :
      /\ \E a \in chart : a.code = journal[j].lines[i].account /\ a.level # Group
      /\ ~HasChildren(journal[j].lines[i].account)

(* Every posted journal balances, on each of the four ways to post one.    *)
PostedBalanced == \A j \in JournalIds : Posted(j) => Balanced(journal[j].lines)

(* The audit log and the ledger tell the same story: a unique commandKey   *)
(* is spent exactly when its effect is in the stores, so no closing,       *)
(* reversal, discard or posting goes unrecorded, and none that is still    *)
(* legal is refused as a replay (AuditService.js:49).                      *)
AuditMatchesState ==
  /\ \A p \in PeriodIds :
       /\ <<"open-period", p>> \in commands <=> period[p].status # "absent"
       /\ <<"close-period", p>> \in commands <=> period[p].status = "closed"
  /\ \A j \in JournalIds :
       /\ <<"draft-create", j>> \in commands => journal[j].status # "absent"
       /\ <<"draft-finalize", j>> \in commands => Posted(j)
       /\ <<"draft-discard", j>> \in commands <=> journal[j].status = "discarded"
       /\ <<"manual-reversal", j>> \in commands <=> journal[j].reversedBy # None
  /\ \A src \in ManualSources :
       <<"manual-journal", src>> \in commands =>
         \E j \in JournalIds : Posted(j) /\ journal[j].source = src
  /\ \A src \in AllCommercialSources :
       <<"retail-journal", src>> \in commands <=>
         \E j \in JournalIds : Posted(j) /\ journal[j].source = src

(* An open stocktake is dated in an open period and is alone in its        *)
(* warehouse: closing a period cannot strand a count that blocks the stock.*)
OpenStocktakeFinalizable ==
  \A s \in StocktakeIds :
    stocktake[s].status = "draft" =>
      /\ \E p \in PeriodIds : OpenFor(p, stocktake[s].date)
      /\ \A t \in StocktakeIds \ {s} :
           ~(stocktake[t].status = "draft" /\ stocktake[t].warehouse = stocktake[s].warehouse)
      /\ ~SourceUsed(StocktakeSource(s))

(* Closing settles a period for good: what is in it is posted, dated in it *)
(* and in no other, and no count is left outside a period it can be        *)
(* finished in, whatever was drafted, moved and counted meanwhile.         *)
PeriodsHold == ClosedPeriodSettled /\ DatedInPeriod /\ OpenStocktakeFinalizable

(* Every posting is balanced, on leaves of the chart, and the only one of  *)
(* its source, although four commands write journals and two the chart.    *)
PostingsSound == PostedBalanced /\ LinesOnLeaves /\ SourcePostedOnce

(* The general ledger is an append-only book with lockable periods.        *)
Book == INSTANCE PostedBook WITH
  BalancedLines <- {lines \in LineLists \cup {ReversingLines(l) : l \in LineLists} :
                      Balanced(lines)},
  book   <- {[id |-> j, period |-> journal[j].period, lines |-> journal[j].lines] :
               j \in {k \in JournalIds : Posted(k)}},
  locked <- {p \in PeriodIds : period[p].status = "closed"}

(* What is posted stays as posted and what is closed stays closed, across  *)
(* every interleaving of edits, reversals and closings.                    *)
AppendOnlyBook == Book!BookSpec
=============================================================================
