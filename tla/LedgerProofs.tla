---------------------------- MODULE LedgerProofs ----------------------------
(***************************************************************************)
(* Machine-checked proofs about Ledger for every set of journals, periods, *)
(* accounts, line lists and sources.                                       *)
(*                                                                         *)
(* The first part is about LedgerInv, the inductive invariant of journals  *)
(* and periods. The second adds BookInv: lines stay on leaves of the       *)
(* chart, open stocktakes stay finalizable, the audit log matches the      *)
(* stores, the ledger implements PostedBook, and the trial balance of a    *)
(* closed period never changes. The third is about the sums of reports:    *)
(* ReportInv says which lines there are to be summed, and that the reports *)
(* agree follows from it without another step.                             *)
(***************************************************************************)
EXTENDS LedgerReports, SumTheorems

LEMMA ReversingLinesType ==
  ASSUME NEW lines \in Seq(Line)
  PROVE  ReversingLines(lines) \in Seq(Line)
<1>1. PICK n \in Nat : lines \in [1..n -> Line]
  OBVIOUS
<1>2. DOMAIN lines = 1..n
  BY <1>1
<1>3. ReversingLines(lines) \in [1..n -> Line]
  BY <1>1, <1>2 DEF ReversingLines, Line
<1> QED
  BY <1>1, <1>3

(* The shape of a journal_entries row, as TypeOK states it.                *)
JournalRow ==
  [status: {"absent", "draft", "posted", "discarded"},
   period: PeriodIds \cup {None}, date: Dates \cup {0},
   source: {NoSource} \cup ManualSources \cup AllCommercialSources
           \cup {ReversalSource(j) : j \in JournalIds},
   lines: Seq(Line),
   reversedBy: JournalIds \cup {None}, reversalOf: JournalIds \cup {None}]

LEMMA NoJournalType ==
  ASSUME NEW status \in {"absent", "discarded"}
  PROVE  NoJournal(status) \in JournalRow
<1>1. <<>> \in Seq(Line)
  OBVIOUS
<1> QED
  BY <1>1 DEF NoJournal, NewJournal, JournalRow

LEMMA NewJournalType ==
  ASSUME NEW status \in {"draft", "posted"},
         NEW p \in PeriodIds, NEW d \in Dates \cup {0}, NEW lines \in Seq(Line),
         NEW src \in {NoSource} \cup ManualSources \cup AllCommercialSources
                     \cup {ReversalSource(j) : j \in JournalIds},
         NEW of \in JournalIds \cup {None}
  PROVE  NewJournal(status, p, d, lines, src, of) \in JournalRow
  BY DEF NewJournal, JournalRow

(* Every command keeps every row well formed.                              *)
LEMMA TypeStep ==
  ASSUME TypeOK, [Next]_vars
  PROVE  TypeOK'
<1> DEFINE JOK == journal \in [JournalIds -> JournalRow]
<1>a. JOK
  BY DEF TypeOK, JournalRow
<1>b. /\ chart \subseteq AccountRows \cup DefaultRows
      /\ period \in [PeriodIds ->
           [status: {"absent", "open", "closed"}, start: Dates \cup {0}, end: Dates \cup {0}]]
      /\ stocktake \in [StocktakeIds ->
           [status: {"absent", "draft", "posted"}, warehouse: Warehouses \cup {None},
            date: Dates \cup {0}]]
  BY DEF TypeOK
<1>c. LineLists \subseteq Seq(Line)
  BY LedgerAssumption
<1>0. CASE UNCHANGED vars
  BY <1>0, <1>a, <1>b DEF vars, TypeOK, JournalRow
<1>1. ASSUME NEW row \in AccountRows, AddAccount(row) PROVE TypeOK'
  BY <1>1, <1>a, <1>b DEF AddAccount, TypeOK, JournalRow
<1>2. CASE SeedDefaultChart
  BY <1>2, <1>a, <1>b DEF SeedDefaultChart, TypeOK, JournalRow
<1>3. ASSUME NEW p \in PeriodIds, NEW start \in Dates, NEW end \in Dates,
             CreatePeriod(p, start, end)
      PROVE  TypeOK'
  BY <1>3, <1>a, <1>b DEF CreatePeriod, TypeOK, JournalRow
<1>4. ASSUME NEW p \in PeriodIds, ClosePeriod(p) PROVE TypeOK'
  BY <1>4, <1>a, <1>b DEF ClosePeriod, TypeOK, JournalRow
<1>5. ASSUME NEW j \in JournalIds, NEW p \in PeriodIds, NEW d \in Dates,
             NEW lines \in LineLists, NEW src \in ManualSources \cup {NoSource},
             SaveDraftJournal(j, p, d, lines, src)
      PROVE  TypeOK'
  <2>1. JOK'
    BY <1>5, <1>a, <1>c, NewJournalType DEF SaveDraftJournal
  <2> QED
    BY <2>1, <1>5, <1>b DEF SaveDraftJournal, TypeOK, JournalRow
<1>6. ASSUME NEW j \in JournalIds, NEW p \in PeriodIds, NEW d \in Dates,
             NEW lines \in LineLists, NEW src \in ManualSources \cup {NoSource},
             PostJournal(j, p, d, lines, src)
      PROVE  TypeOK'
  <2>1. JOK'
    BY <1>6, <1>a, <1>c, NewJournalType DEF PostJournal
  <2> QED
    BY <2>1, <1>6, <1>b DEF PostJournal, TypeOK, JournalRow
<1>7. ASSUME NEW j \in JournalIds, NEW p \in PeriodIds, NEW d \in Dates,
             NEW lines \in LineLists, NEW post \in BOOLEAN,
             UpdateDraftJournal(j, p, d, lines, post)
      PROVE  TypeOK'
  <2>1. [journal[j] EXCEPT !.status = IF post THEN "posted" ELSE "draft",
                           !.period = p, !.date = d, !.lines = lines] \in JournalRow
    BY <1>a, <1>c, ZenonT(40) DEF JournalRow
  <2>2. JOK'
    BY <1>7, <1>a, <2>1 DEF UpdateDraftJournal
  <2> QED
    BY <2>2, <1>7, <1>b DEF UpdateDraftJournal, TypeOK, JournalRow
<1>8. ASSUME NEW j \in JournalIds, NEW p \in PeriodIds, NEW d \in Dates,
             NEW lines \in LineLists, NEW src \in CommercialSources,
             PostCommercial(j, p, d, lines, src)
      PROVE  TypeOK'
  <2>1. JOK'
    BY <1>8, <1>a, <1>c, NewJournalType DEF PostCommercial, CommercialJournal, AllCommercialSources
  <2> QED
    BY <2>1, <1>8, <1>b DEF PostCommercial, TypeOK, JournalRow
<1>9. ASSUME NEW j \in JournalIds, PostDraftJournal(j) PROVE TypeOK'
  <2>1. JOK'
    BY <1>9, <1>a DEF PostDraftJournal, JournalRow
  <2> QED
    BY <2>1, <1>9, <1>b DEF PostDraftJournal, TypeOK, JournalRow
<1>10. ASSUME NEW j \in JournalIds, DiscardDraftJournal(j) PROVE TypeOK'
  <2>1. JOK'
    BY <1>10, <1>a, NoJournalType DEF DiscardDraftJournal
  <2> QED
    BY <2>1, <1>10, <1>b DEF DiscardDraftJournal, TypeOK, JournalRow
<1>11. ASSUME NEW original \in JournalIds, NEW j \in JournalIds,
              NEW p \in PeriodIds, NEW d \in Dates,
              ReverseJournal(original, j, p, d)
       PROVE  TypeOK'
  <2> DEFINE lines == ReversingLines(journal[original].lines)
             row == NewJournal("posted", p, d, lines, ReversalSource(original), original)
             marked == [journal[original] EXCEPT !.reversedBy = j]
  <2>1. lines \in Seq(Line)
    BY <1>a, ReversingLinesType DEF JournalRow
  <2>2. row \in JournalRow
    BY <2>1, NewJournalType
  <2>3. marked \in JournalRow
    BY <1>a DEF JournalRow
  <2>4. journal' = [[journal EXCEPT ![j] = row] EXCEPT ![original] = marked]
    BY <1>11, <1>a DEF ReverseJournal, Posted
  <2>5. JOK'
    <3> HIDE DEF row, marked
    <3> QED BY <2>2, <2>3, <2>4, <1>a
  <2> QED
    BY <2>5, <1>11, <1>b DEF ReverseJournal, TypeOK, JournalRow
<1>12. ASSUME NEW s \in StocktakeIds, NEW w \in Warehouses, NEW d \in Dates,
              NewStocktake(s, w, d)
       PROVE  TypeOK'
  BY <1>12, <1>a, <1>b DEF NewStocktake, TypeOK, JournalRow
<1>13. ASSUME NEW s \in StocktakeIds, FinalizeStocktake(s) PROVE TypeOK'
  <2>1. PICK p \in PeriodIds :
          /\ OpenFor(p, stocktake[s].date)
          /\ \/ UNCHANGED <<journal, commands>>
             \/ \E j \in JournalIds, lines \in LineLists :
                  CommercialJournal(j, p, stocktake[s].date, lines, StocktakeSource(s))
    BY <1>13 DEF FinalizeStocktake
  <2>2. stocktake[s].date \in Dates \cup {0}
    BY <1>b, <1>13 DEF FinalizeStocktake
  <2>3. CASE UNCHANGED <<journal, commands>>
    BY <2>3, <1>13, <1>a, <1>b DEF FinalizeStocktake, TypeOK, JournalRow
  <2>4. ASSUME NEW j \in JournalIds, NEW lines \in LineLists,
               CommercialJournal(j, p, stocktake[s].date, lines, StocktakeSource(s))
        PROVE  TypeOK'
    <3>1. StocktakeSource(s) \in AllCommercialSources
      BY DEF AllCommercialSources
    <3>2. NewJournal("posted", p, stocktake[s].date, lines, StocktakeSource(s), None) \in JournalRow
      BY <2>2, <3>1, <1>c, NewJournalType
    <3>3. JOK'
      BY <2>4, <3>2, <1>a DEF CommercialJournal
    <3> QED
      BY <3>3, <1>13, <1>b DEF FinalizeStocktake, TypeOK, JournalRow
  <2> QED
    BY <2>1, <2>3, <2>4
<1> QED
  BY <1>0, <1>1, <1>2, <1>3, <1>4, <1>5, <1>6, <1>7, <1>8, <1>9, <1>10, <1>11,
     <1>12, <1>13 DEF Next, EditDraft, OtherCommand

-----------------------------------------------------------------------------
(* What a command may do to the journals, one row at a time.               *)

Others(j) == \A k \in JournalIds \ {j} : journal'[k] = journal[k]

\* A posted or draft row as the validators let it in.
Accepted(status, p, d, lines) ==
  /\ status \in {"draft", "posted"}
  /\ p \in PeriodIds /\ OpenFor(p, d)
  /\ ValidJournalLines(lines, FALSE)
  /\ status = "posted" => Balanced(lines)

Created(j, status, p, d, lines, src) ==
  /\ journal[j].status = "absent"
  /\ Accepted(status, p, d, lines)
  /\ src # NoSource => ~SourceUsed(src)
  /\ Others(j) /\ journal'[j] = NewJournal(status, p, d, lines, src, None)

Edited(j, status, p, d, lines) ==
  /\ journal[j].status = "draft"
  /\ Accepted(status, p, d, lines)
  /\ Others(j)
  /\ journal'[j].status = status /\ journal'[j].period = p
  /\ journal'[j].date = d /\ journal'[j].lines = lines
  /\ journal'[j].source = journal[j].source
  /\ journal'[j].reversedBy = journal[j].reversedBy
  /\ journal'[j].reversalOf = journal[j].reversalOf

Discarded(j) ==
  /\ journal[j].status = "draft"
  /\ Others(j) /\ journal'[j] = NoJournal("discarded")

Reversed(o, j, p, d) ==
  /\ o # j /\ journal[j].status = "absent"
  /\ Posted(o) /\ journal[o].reversedBy = None /\ journal[o].reversalOf = None
  /\ journal[o].source.type \notin CommercialTypes
  /\ OpenFor(p, d)
  /\ ValidJournalLines(ReversingLines(journal[o].lines), TRUE)
  /\ Balanced(ReversingLines(journal[o].lines))
  /\ ~SourceUsed(ReversalSource(o))
  /\ \A k \in JournalIds \ {o, j} : journal'[k] = journal[k]
  /\ journal'[j] = NewJournal("posted", p, d, ReversingLines(journal[o].lines),
                              ReversalSource(o), o)
  /\ journal'[o] = [journal[o] EXCEPT !.reversedBy = j]

JournalStep ==
  \/ \E j \in JournalIds, status \in {"draft", "posted"}, p \in PeriodIds,
        d \in Dates \cup {0}, lines \in LineLists,
        src \in {NoSource} \cup ManualSources \cup AllCommercialSources :
       Created(j, status, p, d, lines, src)
  \/ \E j \in JournalIds, status \in {"draft", "posted"}, p \in PeriodIds,
        d \in Dates \cup {0} :
       \E lines \in LineLists \cup {journal[j].lines} : Edited(j, status, p, d, lines)
  \/ \E j \in JournalIds : Discarded(j)
  \/ \E o, j \in JournalIds, p \in PeriodIds, d \in Dates : Reversed(o, j, p, d)

(* A step leaves the journals alone, or leaves the chart and the periods   *)
(* alone and creates, edits, discards or reverses one journal.             *)
LEMMA StepSummary ==
  ASSUME TypeOK, DatedInPeriod, [Next]_vars
  PROVE  UNCHANGED journal \/ (UNCHANGED <<chart, period>> /\ JournalStep)
<1>a. journal \in [JournalIds -> JournalRow]
  BY DEF TypeOK, JournalRow
<1>0. CASE UNCHANGED vars
  BY <1>0 DEF vars
<1>1. ASSUME NEW j \in JournalIds, NEW p \in PeriodIds, NEW d \in Dates,
             NEW lines \in LineLists, NEW src \in ManualSources \cup {NoSource},
             SaveDraftJournal(j, p, d, lines, src)
      PROVE  UNCHANGED <<chart, period>> /\ JournalStep
  <2>1. Created(j, "draft", p, d, lines, src)
    BY <1>1, <1>a DEF SaveDraftJournal, Created, Accepted, Others
  <2> QED
    BY <2>1, <1>1 DEF SaveDraftJournal, JournalStep
<1>2. ASSUME NEW j \in JournalIds, NEW p \in PeriodIds, NEW d \in Dates,
             NEW lines \in LineLists, NEW src \in ManualSources \cup {NoSource},
             PostJournal(j, p, d, lines, src)
      PROVE  UNCHANGED <<chart, period>> /\ JournalStep
  <2>1. Created(j, "posted", p, d, lines, src)
    BY <1>2, <1>a DEF PostJournal, ValidJournal, Created, Accepted, Others
  <2> QED
    BY <2>1, <1>2 DEF PostJournal, JournalStep
<1>3. ASSUME NEW j \in JournalIds, NEW p \in PeriodIds, NEW d \in Dates \cup {0},
             NEW lines \in LineLists, NEW src \in AllCommercialSources,
             CommercialJournal(j, p, d, lines, src)
      PROVE  JournalStep
  <2>1. Created(j, "posted", p, d, lines, src)
    BY <1>3, <1>a DEF CommercialJournal, ValidJournal, Created, Accepted, Others
  <2> QED
    BY <2>1 DEF JournalStep
<1>4. ASSUME NEW j \in JournalIds, NEW p \in PeriodIds, NEW d \in Dates,
             NEW lines \in LineLists, NEW src \in CommercialSources,
             PostCommercial(j, p, d, lines, src)
      PROVE  UNCHANGED <<chart, period>> /\ JournalStep
  BY <1>3, <1>4 DEF PostCommercial, AllCommercialSources
<1>5. ASSUME NEW s \in StocktakeIds, FinalizeStocktake(s)
      PROVE  UNCHANGED journal \/ (UNCHANGED <<chart, period>> /\ JournalStep)
  <2>1. StocktakeSource(s) \in AllCommercialSources
    BY DEF AllCommercialSources
  <2>2. stocktake[s].date \in Dates \cup {0}
    BY DEF TypeOK
  <2>3. CASE UNCHANGED <<journal, commands>>
    BY <2>3
  <2>4. ASSUME NEW p \in PeriodIds, NEW j \in JournalIds, NEW lines \in LineLists,
               CommercialJournal(j, p, stocktake[s].date, lines, StocktakeSource(s))
        PROVE  UNCHANGED <<chart, period>> /\ JournalStep
    BY <2>1, <2>2, <2>4, <1>3, <1>5 DEF FinalizeStocktake
  <2> QED
    BY <2>3, <2>4, <1>5 DEF FinalizeStocktake
<1>6. ASSUME NEW j \in JournalIds, NEW p \in PeriodIds, NEW d \in Dates,
             NEW lines \in LineLists, NEW post \in BOOLEAN,
             UpdateDraftJournal(j, p, d, lines, post)
      PROVE  UNCHANGED <<chart, period>> /\ JournalStep
  <2> DEFINE status == IF post THEN "posted" ELSE "draft"
  <2>1. Accepted(status, p, d, lines)
    BY <1>6 DEF UpdateDraftJournal, ValidJournal, Accepted
  <2>2. Edited(j, status, p, d, lines)
    <3>1. Others(j)
      BY <1>6, <1>a DEF UpdateDraftJournal, Others
    <3>2. journal'[j] = [journal[j] EXCEPT !.status = status, !.period = p,
                                           !.date = d, !.lines = lines]
      BY <1>6, <1>a DEF UpdateDraftJournal
    <3>3. journal[j] \in JournalRow /\ journal[j].status = "draft"
      BY <1>6, <1>a DEF UpdateDraftJournal
    <3> HIDE DEF status
    <3> QED
      BY <2>1, <3>1, <3>2, <3>3 DEF Edited, JournalRow
  <2>3. status \in {"draft", "posted"}
    OBVIOUS
  <2>4. JournalStep
    BY <2>2, <2>3 DEF JournalStep
  <2> QED
    BY <2>4, <1>6 DEF UpdateDraftJournal
<1>7. ASSUME NEW j \in JournalIds, PostDraftJournal(j)
      PROVE  UNCHANGED <<chart, period>> /\ JournalStep
  <2> DEFINE row == journal[j]
  <2>1. row \in JournalRow /\ row.status = "draft"
    BY <1>7, <1>a DEF PostDraftJournal
  <2>2. journal'[j] = [row EXCEPT !.status = "posted"] /\ Others(j)
    BY <1>7, <1>a DEF PostDraftJournal, Others
  <2>3. row.period \in PeriodIds
    BY <2>1 DEF DatedInPeriod, Live
  <2>4. Accepted("posted", row.period, row.date, row.lines)
    BY <1>7, <2>3 DEF PostDraftJournal, ValidJournal, Accepted
  <2>5. Edited(j, "posted", row.period, row.date, row.lines)
    <3> HIDE DEF row
    <3>1. row = journal[j]
      BY DEF row
    <3> QED
      BY <2>1, <2>2, <2>4, <3>1 DEF Edited, JournalRow
  <2>6. row.date \in Dates \cup {0}
    BY <2>1 DEF JournalRow
  <2>7. JournalStep
    BY <2>3, <2>5, <2>6 DEF JournalStep
  <2> QED
    BY <2>7, <1>7 DEF PostDraftJournal
<1>8. ASSUME NEW j \in JournalIds, DiscardDraftJournal(j)
      PROVE  UNCHANGED <<chart, period>> /\ JournalStep
  BY <1>8, <1>a DEF DiscardDraftJournal, Discarded, Others, JournalStep
<1>9. ASSUME NEW o \in JournalIds, NEW j \in JournalIds,
             NEW p \in PeriodIds, NEW d \in Dates, ReverseJournal(o, j, p, d)
      PROVE  UNCHANGED <<chart, period>> /\ JournalStep
  <2> DEFINE row == NewJournal("posted", p, d, ReversingLines(journal[o].lines),
                               ReversalSource(o), o)
             marked == [journal[o] EXCEPT !.reversedBy = j]
  <2>1. journal' = [[journal EXCEPT ![j] = row] EXCEPT ![o] = marked] /\ o # j
    BY <1>9, <1>a DEF ReverseJournal, Posted
  <2>2. /\ journal'[j] = row /\ journal'[o] = marked
        /\ \A k \in JournalIds \ {o, j} : journal'[k] = journal[k]
    <3> HIDE DEF row, marked
    <3> QED BY <2>1, <1>a
  <2>3. Reversed(o, j, p, d)
    BY <2>1, <2>2, <1>9 DEF ReverseJournal, ValidJournal, Reversed
  <2> QED
    BY <2>3, <1>9 DEF ReverseJournal, JournalStep
<1>10. ASSUME \/ \E row \in AccountRows : AddAccount(row)
              \/ SeedDefaultChart
              \/ \E p \in PeriodIds, start, end \in Dates : CreatePeriod(p, start, end)
              \/ \E p \in PeriodIds : ClosePeriod(p)
              \/ \E s \in StocktakeIds, w \in Warehouses, d \in Dates : NewStocktake(s, w, d)
       PROVE  UNCHANGED journal
  BY <1>10 DEF AddAccount, SeedDefaultChart, CreatePeriod, ClosePeriod, NewStocktake
<1> QED
  BY <1>0, <1>1, <1>2, <1>4, <1>5, <1>6, <1>7, <1>8, <1>9, <1>10 DEF Next, EditDraft, OtherCommand
-----------------------------------------------------------------------------
(* The ledger's inductive invariant, conjunct by conjunct.                 *)

(* Draft and unused rows take no part in a reversal. *)
PlainUnlessPosted ==
  \A j \in JournalIds :
    ~Posted(j) => journal[j].reversedBy = None /\ journal[j].reversalOf = None

LEMMA PlainStep ==
  ASSUME TypeOK, DatedInPeriod, PlainUnlessPosted, [Next]_vars
  PROVE  PlainUnlessPosted'
<1> USE DEF PlainUnlessPosted, Posted
<1>1. CASE UNCHANGED journal
  BY <1>1
<1>2. CASE JournalStep
  <2>1. ASSUME NEW j \in JournalIds, NEW status, NEW p, NEW d, NEW lines, NEW src,
               Created(j, status, p, d, lines, src)
        PROVE  PlainUnlessPosted'
    BY <2>1 DEF Created, Others, NewJournal
  <2>2. ASSUME NEW j \in JournalIds, NEW status, NEW p, NEW d, NEW lines,
               Edited(j, status, p, d, lines)
        PROVE  PlainUnlessPosted'
    BY <2>2 DEF Edited, Others
  <2>3. ASSUME NEW j \in JournalIds, Discarded(j) PROVE PlainUnlessPosted'
    BY <2>3 DEF Discarded, Others, NoJournal, NewJournal
  <2>4. ASSUME NEW o \in JournalIds, NEW j \in JournalIds, NEW p \in PeriodIds,
               NEW d \in Dates, Reversed(o, j, p, d)
        PROVE  PlainUnlessPosted'
    <3>1. journal'[o].status = "posted" /\ journal'[j].status = "posted"
      BY <2>4 DEF Reversed, NewJournal, TypeOK
    <3> QED
      BY <2>4, <3>1, ZenonT(40) DEF Reversed
  <2> QED
    BY <1>2, <2>1, <2>2, <2>3, <2>4 DEF JournalStep
<1> QED
  BY <1>1, <1>2, StepSummary

LEMMA PeriodSummary ==
  ASSUME [Next]_vars
  PROVE  \/ UNCHANGED period
         \/ UNCHANGED journal /\ \E p \in PeriodIds, start, end \in Dates : CreatePeriod(p, start, end)
         \/ UNCHANGED journal /\ \E p \in PeriodIds : ClosePeriod(p)
<1>1. CASE UNCHANGED vars
  BY <1>1 DEF vars
<1>2. ASSUME NEW p \in PeriodIds, NEW start \in Dates, NEW end \in Dates,
             CreatePeriod(p, start, end)
      PROVE  UNCHANGED journal
  BY <1>2 DEF CreatePeriod
<1>3. ASSUME NEW p \in PeriodIds, ClosePeriod(p) PROVE UNCHANGED journal
  BY <1>3 DEF ClosePeriod
<1>4. ASSUME NEW s \in StocktakeIds, FinalizeStocktake(s) PROVE UNCHANGED period
  BY <1>4 DEF FinalizeStocktake
<1>5. ASSUME NEW o \in JournalIds, NEW j \in JournalIds, NEW p \in PeriodIds, NEW d \in Dates,
             ReverseJournal(o, j, p, d)
      PROVE  UNCHANGED period
  BY <1>5 DEF ReverseJournal
<1>6. ASSUME NEW j \in JournalIds, NEW p \in PeriodIds, NEW d \in Dates, NEW lines \in LineLists,
             \/ \E src \in ManualSources \cup {NoSource} :
                  \/ SaveDraftJournal(j, p, d, lines, src)
                  \/ PostJournal(j, p, d, lines, src)
             \/ \E post \in BOOLEAN : UpdateDraftJournal(j, p, d, lines, post)
             \/ \E src \in CommercialSources : PostCommercial(j, p, d, lines, src)
      PROVE  UNCHANGED period
  BY <1>6 DEF SaveDraftJournal, PostJournal, UpdateDraftJournal, PostCommercial
<1>7. ASSUME \/ \E row \in AccountRows : AddAccount(row)
             \/ SeedDefaultChart
             \/ \E j \in JournalIds : PostDraftJournal(j)
             \/ \E j \in JournalIds : DiscardDraftJournal(j)
             \/ \E s \in StocktakeIds, w \in Warehouses, d \in Dates : NewStocktake(s, w, d)
      PROVE  UNCHANGED period
  BY <1>7 DEF AddAccount, SeedDefaultChart, PostDraftJournal, DiscardDraftJournal, NewStocktake
<1> QED
  BY <1>1, <1>2, <1>3, <1>4, <1>5, <1>6, <1>7 DEF Next, EditDraft, OtherCommand

(* Whatever is written is written for an open period. *)
LEMMA WrittenWhileOpen ==
  ASSUME TypeOK, JournalStep, NEW k \in JournalIds, Live(k)'
  PROVE  \/ /\ journal'[k].period \in PeriodIds
            /\ OpenFor(journal'[k].period, journal'[k].date)
         \/ /\ journal'[k].status = journal[k].status
            /\ journal'[k].period = journal[k].period
            /\ journal'[k].date = journal[k].date
<1> DEFINE InOpen == /\ journal'[k].period \in PeriodIds
                     /\ OpenFor(journal'[k].period, journal'[k].date)
           Same == /\ journal'[k].status = journal[k].status
                   /\ journal'[k].period = journal[k].period
                   /\ journal'[k].date = journal[k].date
<1> SUFFICES InOpen \/ Same
  OBVIOUS
<1>1. ASSUME NEW j \in JournalIds, NEW status, NEW p, NEW d, NEW lines, NEW src,
             Created(j, status, p, d, lines, src)
      PROVE  InOpen \/ Same
  BY <1>1 DEF Created, NewJournal, Accepted, Others
<1>2. ASSUME NEW j \in JournalIds, NEW status, NEW p, NEW d, NEW lines,
             Edited(j, status, p, d, lines)
      PROVE  InOpen \/ Same
  BY <1>2 DEF Edited, Accepted, Others
<1>3. ASSUME NEW j \in JournalIds, Discarded(j) PROVE Same
  BY <1>3 DEF Discarded, NoJournal, NewJournal, Others, Live
<1>4. ASSUME NEW o \in JournalIds, NEW j \in JournalIds, NEW p \in PeriodIds,
             NEW d \in Dates, Reversed(o, j, p, d)
      PROVE  InOpen \/ Same
  <2>1. CASE k = j
    BY <1>4, <2>1 DEF Reversed, NewJournal
  <2>2. CASE k = o
    BY <1>4, <2>2 DEF Reversed, TypeOK
  <2>3. CASE k \notin {o, j}
    BY <1>4, <2>3 DEF Reversed
  <2> QED
    BY <2>1, <2>2, <2>3
<1> HIDE DEF InOpen, Same
<1> QED
  BY <1>1, <1>2, <1>3, <1>4 DEF JournalStep

(* The journals of a period change only while it is open. *)
LEMMA PeriodStep ==
  ASSUME TypeOK, DatedInPeriod, ClosedPeriodSettled, [Next]_vars
  PROVE  DatedInPeriod' /\ ClosedPeriodSettled'
<1> USE DEF Live, Posted, InPeriod
<1>d. Dates \cup {0} \subseteq Int
  BY LedgerAssumption
<1>1. ASSUME UNCHANGED period, JournalStep
      PROVE  DatedInPeriod' /\ ClosedPeriodSettled'
  <2>1. ASSUME NEW k \in JournalIds, Live(k)'
        PROVE  /\ journal'[k].period \in PeriodIds
               /\ period'[journal'[k].period].status # "absent"
               /\ InPeriod(journal[k].period, journal[k].date)'
               /\ period'[journal'[k].period].status = "closed" => Posted(k)'
    <3>1. CASE /\ journal'[k].period \in PeriodIds
               /\ OpenFor(journal'[k].period, journal'[k].date)
      BY <1>1, <3>1 DEF OpenFor
    <3>2. CASE /\ journal'[k].status = journal[k].status
               /\ journal'[k].period = journal[k].period
               /\ journal'[k].date = journal[k].date
      BY <1>1, <2>1, <3>2 DEF DatedInPeriod, ClosedPeriodSettled
    <3> QED
      BY <1>1, <2>1, <3>1, <3>2, WrittenWhileOpen
  <2> QED
    BY <1>1, <2>1 DEF DatedInPeriod, ClosedPeriodSettled
<1>2. ASSUME UNCHANGED <<period, journal>>
      PROVE  DatedInPeriod' /\ ClosedPeriodSettled'
  BY <1>2 DEF DatedInPeriod, ClosedPeriodSettled
<1>3. ASSUME UNCHANGED journal,
             NEW p \in PeriodIds, NEW start \in Dates, NEW end \in Dates,
             CreatePeriod(p, start, end)
      PROVE  DatedInPeriod' /\ ClosedPeriodSettled'
  <2>1. /\ period'[p].status = "open" /\ period'[p].start = start /\ period'[p].end = end
        /\ \A q \in PeriodIds \ {p} : period'[q] = period[q]
    BY <1>3 DEF CreatePeriod, TypeOK
  <2>2. \A q \in PeriodIds : period[q].start \in Int /\ period[q].end \in Int
    <3>1. \A q \in PeriodIds : period[q].start \in Dates \cup {0} /\ period[q].end \in Dates \cup {0}
      BY DEF TypeOK
    <3> QED BY <3>1, <1>d
  <2>3. \A j \in JournalIds : Live(j) => journal[j].period # p
    BY <1>3 DEF CreatePeriod, DatedInPeriod
  <2>4. ASSUME NEW a \in PeriodIds, NEW b \in PeriodIds, a # b,
               period'[a].status # "absent", period'[b].status # "absent"
        PROVE  period'[a].end < period'[b].start \/ period'[b].end < period'[a].start
    BY <1>3, <2>1, <2>2, <2>4, <1>d DEF CreatePeriod, ValidFiscalPeriod, DatedInPeriod
  <2>5. \A j \in JournalIds : Live(j) => period'[journal[j].period] = period[journal[j].period]
    BY <2>1, <2>3 DEF DatedInPeriod
  <2> QED
    BY <1>3, <2>4, <2>5 DEF DatedInPeriod, ClosedPeriodSettled
<1>4. ASSUME UNCHANGED journal, NEW p \in PeriodIds, ClosePeriod(p)
      PROVE  DatedInPeriod' /\ ClosedPeriodSettled'
  <2>1. /\ period'[p].status = "closed"
        /\ \A q \in PeriodIds : period'[q].start = period[q].start /\ period'[q].end = period[q].end
        /\ \A q \in PeriodIds \ {p} : period'[q].status = period[q].status
    BY <1>4 DEF ClosePeriod, TypeOK
  <2>2. \A q \in PeriodIds : period'[q].status # "absent" => period[q].status # "absent"
    BY <1>4, <2>1 DEF ClosePeriod
  <2>3. \A j \in JournalIds : Live(j) /\ journal[j].period = p => Posted(j)
    BY <1>4 DEF ClosePeriod
  <2>4. DatedInPeriod'
    BY <1>4, <2>1, <2>2 DEF DatedInPeriod
  <2>5. ClosedPeriodSettled'
    BY <1>4, <2>1, <2>3 DEF ClosedPeriodSettled, DatedInPeriod
  <2> QED
    BY <2>4, <2>5
<1> QED
  BY <1>1, <1>2, <1>3, <1>4, StepSummary, PeriodSummary

(* No source is journalled twice and nothing unbalanced is posted. *)
LEMMA SourceStep ==
  ASSUME TypeOK, DatedInPeriod, SourcePostedOnce, PostedBalanced, [Next]_vars
  PROVE  SourcePostedOnce' /\ PostedBalanced'
<1> USE DEF Live, Posted
<1>1. CASE UNCHANGED journal
  BY <1>1 DEF SourcePostedOnce, PostedBalanced
<1>2. ASSUME NEW j \in JournalIds, NEW status, NEW p, NEW d, NEW lines, NEW src,
             Created(j, status, p, d, lines, src)
      PROVE  SourcePostedOnce' /\ PostedBalanced'
  <2>1. /\ journal'[j].source = src /\ journal'[j].lines = lines /\ journal'[j].status = status
        /\ status = "posted" => Balanced(lines)
    BY <1>2 DEF Created, NewJournal, Accepted
  <2>2. SourcePostedOnce'
    BY <1>2, <2>1 DEF Created, Others, SourceUsed, SourcePostedOnce
  <2>3. PostedBalanced'
    BY <1>2, <2>1 DEF Created, Others, PostedBalanced
  <2> QED
    BY <2>2, <2>3
<1>3. ASSUME NEW j \in JournalIds, NEW status, NEW p, NEW d, NEW lines,
             Edited(j, status, p, d, lines)
      PROVE  SourcePostedOnce' /\ PostedBalanced'
  <2>1. SourcePostedOnce'
    BY <1>3 DEF Edited, Others, SourcePostedOnce
  <2>2. PostedBalanced'
    BY <1>3 DEF Edited, Others, Accepted, PostedBalanced
  <2> QED
    BY <2>1, <2>2
<1>4. ASSUME NEW j \in JournalIds, Discarded(j)
      PROVE  SourcePostedOnce' /\ PostedBalanced'
  <2>1. journal'[j].status = "discarded" /\ Others(j)
    BY <1>4 DEF Discarded, NoJournal, NewJournal
  <2> QED
    BY <2>1 DEF Others, SourcePostedOnce, PostedBalanced
<1>5. ASSUME NEW o \in JournalIds, NEW j \in JournalIds, NEW p \in PeriodIds,
             NEW d \in Dates, Reversed(o, j, p, d)
      PROVE  SourcePostedOnce' /\ PostedBalanced'
  <2>1. /\ journal'[j].source = ReversalSource(o)
        /\ journal'[j].lines = ReversingLines(journal[o].lines)
        /\ Balanced(journal'[j].lines) /\ ~SourceUsed(ReversalSource(o))
    BY <1>5 DEF Reversed, NewJournal
  <2>2. \A k \in JournalIds \ {j} : /\ journal'[k].status = journal[k].status
                                   /\ journal'[k].source = journal[k].source
                                   /\ journal'[k].lines = journal[k].lines
    BY <1>5, SMTT(40) DEF Reversed, TypeOK
  <2>3. SourcePostedOnce'
    BY <2>1, <2>2 DEF SourceUsed, SourcePostedOnce
  <2>4. PostedBalanced'
    BY <2>1, <2>2 DEF PostedBalanced
  <2> QED
    BY <2>3, <2>4
<1> QED
  BY <1>1, <1>2, <1>3, <1>4, <1>5, StepSummary DEF JournalStep

(* A reversal and its original stay paired: an unposted row is linked to   *)
(* nothing, and the links and lines of a posted row are never rewritten.   *)
LEMMA ReversalStep ==
  ASSUME TypeOK, DatedInPeriod, PlainUnlessPosted, ReversalPaired, [Next]_vars
  PROVE  ReversalPaired'
<1> USE DEF Posted
<1>n. None \notin JournalIds
  BY LedgerAssumption
<1>1. CASE UNCHANGED journal
  BY <1>1 DEF ReversalPaired
<1>2. ASSUME NEW j \in JournalIds, ~Posted(j), Others(j),
             journal'[j].reversedBy = None, journal'[j].reversalOf = None
      PROVE  ReversalPaired'
  <2>1. \A k \in JournalIds : journal[k].reversedBy # j /\ journal[k].reversalOf # j
    BY <1>2 DEF ReversalPaired
  <2>2. ASSUME NEW o \in JournalIds, NEW r \in JournalIds
        PROVE  journal'[o].reversedBy = r <=> journal'[r].reversalOf = o
    BY <1>2, <1>n, <2>1 DEF Others, ReversalPaired
  <2>3. ASSUME NEW o \in JournalIds, NEW r \in JournalIds, journal'[o].reversedBy = r
        PROVE  o # j /\ r # j /\ journal[o].reversedBy = r
    BY <1>2, <1>n, <2>1, <2>3 DEF Others
  <2> QED
    BY <1>2, <2>2, <2>3 DEF Others, ReversalPaired
<1>3. ASSUME NEW j \in JournalIds, NEW status, NEW p, NEW d, NEW lines, NEW src,
             Created(j, status, p, d, lines, src)
      PROVE  ReversalPaired'
  BY <1>2, <1>3 DEF Created, NewJournal
<1>4. ASSUME NEW j \in JournalIds, NEW status, NEW p, NEW d, NEW lines,
             Edited(j, status, p, d, lines)
      PROVE  ReversalPaired'
  BY <1>2, <1>4 DEF Edited, PlainUnlessPosted
<1>5. ASSUME NEW j \in JournalIds, Discarded(j) PROVE ReversalPaired'
  BY <1>2, <1>5 DEF Discarded, NoJournal, NewJournal
<1>6. ASSUME NEW o \in JournalIds, NEW j \in JournalIds, NEW p \in PeriodIds,
             NEW d \in Dates, Reversed(o, j, p, d)
      PROVE  ReversalPaired'
  <2>1. /\ journal'[j].reversedBy = None /\ journal'[j].reversalOf = o
        /\ journal'[j].status = "posted"
        /\ journal'[j].lines = ReversingLines(journal[o].lines)
    BY <1>6 DEF Reversed, NewJournal
  <2>2. /\ journal'[o].reversedBy = j /\ journal'[o].reversalOf = None
        /\ journal'[o].status = "posted"
        /\ journal'[o].lines = journal[o].lines /\ journal'[o].source = journal[o].source
    BY <1>6 DEF Reversed, TypeOK
  <2>3. /\ o # j /\ journal[o].source.type \notin CommercialTypes
        /\ \A k \in JournalIds \ {o, j} : journal'[k] = journal[k]
        /\ ~Posted(j) /\ journal[o].reversedBy = None /\ journal[o].reversalOf = None
    BY <1>6 DEF Reversed
  <2>4. \A k \in JournalIds : journal[k].reversedBy # j /\ journal[k].reversalOf # j
    BY <2>3 DEF ReversalPaired
  <2>5. \A k \in JournalIds : journal[k].reversedBy # o /\ journal[k].reversalOf # o
    BY <2>3, <1>n DEF ReversalPaired
  <2>6. ASSUME NEW a \in JournalIds, NEW b \in JournalIds
        PROVE  journal'[a].reversedBy = b <=> journal'[b].reversalOf = a
    BY <1>n, <2>1, <2>2, <2>3, <2>4, <2>5 DEF ReversalPaired
  <2>7. ASSUME NEW a \in JournalIds, NEW b \in JournalIds, journal'[a].reversedBy = b
        PROVE  \/ a = o /\ b = j
               \/ a \notin {o, j} /\ b \notin {o, j} /\ journal[a].reversedBy = b
    BY <1>n, <2>1, <2>2, <2>3, <2>4, <2>5, <2>7
  <2>8. ASSUME NEW a \in JournalIds, NEW b \in JournalIds, journal'[a].reversedBy = b
        PROVE  /\ Posted(a)' /\ Posted(b)'
               /\ journal'[b].lines = ReversingLines(journal'[a].lines)
               /\ journal'[a].reversalOf = None /\ journal'[b].reversedBy = None
               /\ journal'[a].source.type \notin CommercialTypes
    BY <2>1, <2>2, <2>3, <2>7, <2>8 DEF ReversalPaired
  <2> QED
    BY <2>6, <2>8 DEF ReversalPaired, ReversingLines
<1> QED
  BY <1>1, <1>3, <1>4, <1>5, <1>6, StepSummary DEF JournalStep

-----------------------------------------------------------------------------
LedgerInv ==
  TypeOK /\ DatedInPeriod /\ ClosedPeriodSettled /\ PlainUnlessPosted
  /\ SourcePostedOnce /\ PostedBalanced /\ ReversalPaired

LEMMA LedgerInvHolds == Spec => []LedgerInv
<1>1. Init => LedgerInv
  <2> SUFFICES ASSUME Init PROVE LedgerInv
    OBVIOUS
  <2>1. TypeOK
    BY NoJournalType DEF Init, TypeOK, JournalRow, NoPeriod, NoStocktake
  <2>2. \A j \in JournalIds : /\ journal[j].status = "absent"
                              /\ journal[j].reversedBy = None /\ journal[j].reversalOf = None
    BY DEF Init, NoJournal, NewJournal
  <2>3. \A p \in PeriodIds : period[p].status = "absent"
    BY DEF Init, NoPeriod
  <2> QED
    BY <2>1, <2>2, <2>3, LedgerAssumption
       DEF LedgerInv, DatedInPeriod, ClosedPeriodSettled, PlainUnlessPosted,
           SourcePostedOnce, PostedBalanced, ReversalPaired, Live, Posted
<1>2. LedgerInv /\ [Next]_vars => LedgerInv'
  BY TypeStep, PeriodStep, PlainStep, SourceStep, ReversalStep DEF LedgerInv
<1> QED
  BY <1>1, <1>2, PTL DEF Spec

(* TypeOK (Ledger): every row of the five stores has its declared shape in *)
(* every reachable state, whatever the constants.                          *)
THEOREM TypeCorrect == Spec => []TypeOK
  BY LedgerInvHolds, PTL DEF LedgerInv

(* ClosedPeriodSettled: no draft is ever left or moved into a period that  *)
(* closePeriod has closed.                                                 *)
THEOREM ClosedPeriodCorrect == Spec => []ClosedPeriodSettled
  BY LedgerInvHolds, PTL DEF LedgerInv

(* DatedInPeriod: periods never overlap and journals stay dated inside the *)
(* period they name.                                                       *)
THEOREM DatesCorrect == Spec => []DatedInPeriod
  BY LedgerInvHolds, PTL DEF LedgerInv

(* SourcePostedOnce: manual, draft, reversal and commercial commands never *)
(* journal one source twice.                                               *)
THEOREM SourceCorrect == Spec => []SourcePostedOnce
  BY LedgerInvHolds, PTL DEF LedgerInv

(* PostedBalanced: nothing unbalanced is ever posted.                      *)
THEOREM BalanceCorrect == Spec => []PostedBalanced
  BY LedgerInvHolds, PTL DEF LedgerInv

(* ReversalPaired: a journal is reversed at most once, by its mirror image,*)
(* and neither a reversal nor a commercial journal is reversed.            *)
THEOREM ReversalCorrect == Spec => []ReversalPaired
  BY LedgerInvHolds, PTL DEF LedgerInv

-----------------------------------------------------------------------------
(* The chart.                                                              *)

CodesUnique == \A a, b \in chart : a.code = b.code => a = b

LEMMA ChartSummary ==
  ASSUME [Next]_vars
  PROVE  \/ UNCHANGED chart
         \/ UNCHANGED journal /\ \E row \in AccountRows : AddAccount(row)
         \/ UNCHANGED journal /\ SeedDefaultChart
<1>1. ASSUME NEW row \in AccountRows, AddAccount(row) PROVE UNCHANGED journal
  BY <1>1 DEF AddAccount
<1>2. CASE SeedDefaultChart
  BY <1>2 DEF SeedDefaultChart
<1>3. ASSUME NEW j \in JournalIds, NEW p \in PeriodIds, NEW d \in Dates, NEW lines \in LineLists,
             \/ \E src \in ManualSources \cup {NoSource} :
                  \/ SaveDraftJournal(j, p, d, lines, src)
                  \/ PostJournal(j, p, d, lines, src)
             \/ \E post \in BOOLEAN : UpdateDraftJournal(j, p, d, lines, post)
             \/ \E src \in CommercialSources : PostCommercial(j, p, d, lines, src)
      PROVE  UNCHANGED chart
  BY <1>3 DEF SaveDraftJournal, PostJournal, UpdateDraftJournal, PostCommercial
<1>4. ASSUME NEW o \in JournalIds, NEW j \in JournalIds, NEW p \in PeriodIds, NEW d \in Dates,
             ReverseJournal(o, j, p, d)
      PROVE  UNCHANGED chart
  BY <1>4 DEF ReverseJournal
<1>5. ASSUME NEW s \in StocktakeIds, FinalizeStocktake(s) PROVE UNCHANGED chart
  BY <1>5 DEF FinalizeStocktake
<1>6. ASSUME \/ \E p \in PeriodIds, start, end \in Dates : CreatePeriod(p, start, end)
             \/ \E p \in PeriodIds : ClosePeriod(p)
             \/ \E j \in JournalIds : PostDraftJournal(j)
             \/ \E j \in JournalIds : DiscardDraftJournal(j)
             \/ \E s \in StocktakeIds, w \in Warehouses, d \in Dates : NewStocktake(s, w, d)
      PROVE  UNCHANGED chart
  BY <1>6 DEF CreatePeriod, ClosePeriod, PostDraftJournal, DiscardDraftJournal, NewStocktake
<1>7. CASE UNCHANGED vars
  BY <1>7 DEF vars
<1> QED
  BY <1>1, <1>2, <1>3, <1>4, <1>5, <1>6, <1>7 DEF Next, EditDraft, OtherCommand

\* The account of a line is a leaf.
Leaf(code) == (\E a \in chart : a.code = code /\ a.level # Group) /\ ~HasChildren(code)

OnLeaves(lines) == \A i \in DOMAIN lines : Leaf(lines[i].account)

(* New rows of the chart never get under an account with lines.            *)
LEMMA ChartStep ==
  ASSUME TypeOK, CodesUnique, LinesOnLeaves, [Next]_vars, UNCHANGED journal
  PROVE  CodesUnique' /\ LinesOnLeaves'
<1>l. \A j \in JournalIds : Live(j) =>
        \A i \in DOMAIN journal[j].lines : journal[j].lines[i].account \in Codes
  <2> SUFFICES ASSUME NEW j \in JournalIds, NEW i \in DOMAIN journal[j].lines
               PROVE  journal[j].lines[i].account \in Codes
    OBVIOUS
  <2>1. journal[j].lines \in Seq(Line)
    BY DEF TypeOK
  <2>2. journal[j].lines[i] \in Line
    BY <2>1
  <2> QED
    BY <2>2 DEF Line
<1>1. CASE UNCHANGED chart
  BY <1>1 DEF CodesUnique, LinesOnLeaves, HasChildren, Live
<1>2. ASSUME NEW row \in AccountRows, AddAccount(row)
      PROVE  CodesUnique' /\ LinesOnLeaves'
  <2>1. /\ chart' = chart \cup {row} /\ \A a \in chart : a.code # row.code
        /\ row.parent # None => ~HasLines(row.parent)
    BY <1>2 DEF AddAccount, ValidAccount
  <2>2. CodesUnique'
    BY <2>1 DEF CodesUnique
  <2>3. ASSUME NEW j \in JournalIds, Live(j), NEW i \in DOMAIN journal[j].lines
        PROVE  row.parent # journal[j].lines[i].account
    BY <2>1, <2>3, <1>l, LedgerAssumption DEF HasLines
  <2>4. LinesOnLeaves'
    BY <2>1, <2>3 DEF LinesOnLeaves, HasChildren, Live
  <2> QED
    BY <2>2, <2>4
<1>3. CASE SeedDefaultChart
  <2> DEFINE missing == {row \in DefaultRows : \A a \in chart : a.code # row.code}
  <2>1. /\ chart' = chart \cup missing
        /\ \A row \in missing : ValidAccount(row, chart \cup (missing \ {row}))
        /\ \A row \in missing : row \in DefaultRows /\ \A a \in chart : a.code # row.code
    BY <1>3 DEF SeedDefaultChart
  <2> HIDE DEF missing
  <2>2. \A row \in missing, other \in missing : row.code = other.code => row = other
    BY <2>1 DEF ValidAccount
  <2>3. CodesUnique'
    BY <2>1, <2>2 DEF CodesUnique
  <2>4. ASSUME NEW row \in missing, NEW j \in JournalIds, Live(j),
               NEW i \in DOMAIN journal[j].lines
        PROVE  row.parent # journal[j].lines[i].account
    <3> DEFINE code == journal[j].lines[i].account
    <3>1. code \in Codes /\ code # None
      BY <2>4, <1>l, LedgerAssumption
    <3>2. PICK a \in chart : a.code = code /\ a.level # Group
      BY <2>4 DEF LinesOnLeaves
    <3> HIDE DEF code
    <3>3. SUFFICES ASSUME row.parent = code PROVE FALSE
      BY DEF code
    <3>4. row.level = General /\ row.level # Group
      BY <3>1, <3>3, <2>1, LedgerAssumption DEF ValidAccount, Group, General
    <3>5. PICK parent \in chart \cup (missing \ {row}) :
            parent.code = code /\ parent.level = row.level - 1
      BY <3>3, <3>4, <2>1 DEF ValidAccount
    <3>6. parent.level = Group
      BY <3>4, <3>5 DEF Group, General
    <3>7. parent \in chart
      BY <3>2, <3>5, <2>1
    <3> QED
      BY <3>2, <3>5, <3>6, <3>7 DEF CodesUnique
  <2>5. LinesOnLeaves'
    BY <2>1, <2>4, <1>3 DEF LinesOnLeaves, HasChildren, Live
  <2> QED
    BY <2>3, <2>5
<1> QED
  BY <1>1, <1>2, <1>3, ChartSummary

(* A journal is written on leaves, and a reversal on its original's.       *)
LEMMA LeavesStep ==
  ASSUME TypeOK, DatedInPeriod, CodesUnique, LinesOnLeaves, [Next]_vars
  PROVE  CodesUnique' /\ LinesOnLeaves'
<1>v. ASSUME NEW status, NEW p, NEW d, NEW lines, Accepted(status, p, d, lines)
      PROVE  OnLeaves(lines)
  BY <1>v DEF Accepted, ValidJournalLines, ValidLineAccount, OnLeaves, Leaf
<1>o. ASSUME NEW j \in JournalIds, Live(j) PROVE OnLeaves(journal[j].lines)
  BY <1>o DEF LinesOnLeaves, OnLeaves, Leaf
<1>s. ASSUME UNCHANGED chart, \A k \in JournalIds : Live(k)' => OnLeaves(journal'[k].lines)
      PROVE  CodesUnique' /\ LinesOnLeaves'
  BY <1>s DEF CodesUnique, LinesOnLeaves, OnLeaves, Leaf, HasChildren
<1>1. ASSUME NEW j \in JournalIds, NEW status, NEW p, NEW d, NEW lines, NEW src,
             Created(j, status, p, d, lines, src), NEW k \in JournalIds, Live(k)'
      PROVE  OnLeaves(journal'[k].lines)
  <2>1. k = j => journal'[k].lines = lines /\ OnLeaves(lines)
    BY <1>1, <1>v DEF Created, NewJournal
  <2>2. k # j => Live(k) /\ journal'[k].lines = journal[k].lines
    BY <1>1 DEF Created, Others, Live
  <2> QED
    BY <2>1, <2>2, <1>o
<1>2. ASSUME NEW j \in JournalIds, NEW status, NEW p, NEW d, NEW lines,
             Edited(j, status, p, d, lines), NEW k \in JournalIds, Live(k)'
      PROVE  OnLeaves(journal'[k].lines)
  <2>1. k = j => journal'[k].lines = lines /\ OnLeaves(lines)
    BY <1>2, <1>v DEF Edited
  <2>2. k # j => Live(k) /\ journal'[k].lines = journal[k].lines
    BY <1>2 DEF Edited, Others, Live
  <2> QED
    BY <2>1, <2>2, <1>o
<1>3. ASSUME NEW j \in JournalIds, Discarded(j), NEW k \in JournalIds, Live(k)'
      PROVE  OnLeaves(journal'[k].lines)
  <2>1. k # j /\ Live(k) /\ journal'[k].lines = journal[k].lines
    BY <1>3 DEF Discarded, Others, NoJournal, NewJournal, Live
  <2> QED
    BY <2>1, <1>o
<1>4. ASSUME NEW o \in JournalIds, NEW j \in JournalIds, NEW p \in PeriodIds, NEW d \in Dates,
             Reversed(o, j, p, d), NEW k \in JournalIds, Live(k)'
      PROVE  OnLeaves(journal'[k].lines)
  <2>1. OnLeaves(journal[o].lines)
    BY <1>4, <1>o DEF Reversed, Live, Posted
  <2>2. CASE k = j
    <3>1. journal'[k].lines = ReversingLines(journal[o].lines)
      BY <1>4, <2>2 DEF Reversed, NewJournal
    <3> QED
      BY <2>1, <3>1 DEF OnLeaves, ReversingLines
  <2>3. CASE k = o
    BY <1>4, <2>1, <2>3, SMTT(30) DEF Reversed, TypeOK
  <2>4. CASE k \notin {o, j}
    <3>1. Live(k) /\ journal'[k].lines = journal[k].lines
      BY <1>4, <2>4 DEF Reversed, Live
    <3> QED
      BY <3>1, <1>o
  <2> QED
    BY <2>2, <2>3, <2>4
<1>5. ASSUME JournalStep, NEW k \in JournalIds, Live(k)'
      PROVE  OnLeaves(journal'[k].lines)
  <2> HIDE DEF Live
  <2> QED
    BY <1>1, <1>2, <1>3, <1>4, <1>5 DEF JournalStep
<1>6. CASE UNCHANGED journal
  BY <1>6, ChartStep
<1> QED
  BY <1>5, <1>6, <1>s, StepSummary

-----------------------------------------------------------------------------
(* The sources of stocktakes.                                              *)

\* Only a session that was finished has a journal.
SessionSources ==
  \A s \in StocktakeIds : SourceUsed(StocktakeSource(s)) => stocktake[s].status = "posted"

LEMMA SourceSummary ==
  ASSUME TypeOK, DatedInPeriod, [Next]_vars, NEW s \in StocktakeIds,
         SourceUsed(StocktakeSource(s))'
  PROVE  SourceUsed(StocktakeSource(s)) \/ FinalizeStocktake(s)
<1> DEFINE src == StocktakeSource(s)
<1>j. journal \in [JournalIds -> JournalRow]
  BY DEF TypeOK, JournalRow
<1>t. src.type = "stocktake" /\ src.id = s
  BY DEF StocktakeSource
<1>a. ASSUME NEW j \in JournalIds, Others(j), Live(j)' => journal'[j].source # src
      PROVE  SourceUsed(src)
  BY <1>a DEF SourceUsed, Others, Live
<1>b. ASSUME NEW j \in JournalIds, Others(j), Live(j), journal'[j].source = journal[j].source
      PROVE  SourceUsed(src)
  BY <1>b DEF SourceUsed, Others, Live
<1> HIDE DEF src
<1>1. ASSUME NEW j \in JournalIds, NEW p, NEW d, NEW lines, NEW other,
             SaveDraftJournal(j, p, d, lines, other) \/ PostJournal(j, p, d, lines, other)
      PROVE  SourceUsed(src)
  <2>1. other.type # "stocktake"
    BY <1>1 DEF SaveDraftJournal, PostJournal, RESERVED_SOURCES, CommercialTypes
  <2>2. CASE SaveDraftJournal(j, p, d, lines, other)
    <3>1. Others(j) /\ journal'[j].source = other
      BY <2>2, <1>j DEF SaveDraftJournal, Others, NewJournal
    <3> QED
      BY <2>1, <3>1, <1>a, <1>t
  <2>3. CASE PostJournal(j, p, d, lines, other)
    <3>1. Others(j) /\ journal'[j].source = other
      BY <2>3, <1>j DEF PostJournal, Others, NewJournal
    <3> QED
      BY <2>1, <3>1, <1>a, <1>t
  <2> QED
    BY <1>1, <2>2, <2>3
<1>2. ASSUME NEW j \in JournalIds, NEW p, NEW d, NEW lines, NEW other,
             CommercialJournal(j, p, d, lines, other), other # src
      PROVE  SourceUsed(src)
  <2>1. Others(j) /\ journal'[j].source = other
    BY <1>2 DEF CommercialJournal, Others, NewJournal, TypeOK
  <2> QED
    BY <2>1, <1>2, <1>a
<1>3. ASSUME NEW j \in JournalIds, NEW p, NEW d, NEW lines, NEW post,
             UpdateDraftJournal(j, p, d, lines, post)
      PROVE  SourceUsed(src)
  <2>1. Others(j) /\ Live(j) /\ journal'[j].source = journal[j].source
    BY <1>3 DEF UpdateDraftJournal, Others, Live, TypeOK
  <2> QED
    BY <2>1, <1>b
<1>4. ASSUME NEW j \in JournalIds, PostDraftJournal(j) \/ DiscardDraftJournal(j)
      PROVE  SourceUsed(src)
  <2>1. CASE PostDraftJournal(j)
    <3>1. Others(j) /\ Live(j) /\ journal'[j].source = journal[j].source
      BY <2>1 DEF PostDraftJournal, Others, Live, TypeOK
    <3> QED
      BY <3>1, <1>b
  <2>2. CASE DiscardDraftJournal(j)
    <3>1. Others(j) /\ journal'[j].status = "discarded"
      BY <2>2 DEF DiscardDraftJournal, Others, NoJournal, NewJournal, TypeOK
    <3> QED
      BY <3>1, <1>a DEF Live
  <2> QED
    BY <1>4, <2>1, <2>2
<1>5. ASSUME NEW o \in JournalIds, NEW j \in JournalIds, NEW p \in PeriodIds, NEW d \in Dates,
             ReverseJournal(o, j, p, d)
      PROVE  SourceUsed(src)
  <2> DEFINE row == NewJournal("posted", p, d, ReversingLines(journal[o].lines),
                               ReversalSource(o), o)
             marked == [journal[o] EXCEPT !.reversedBy = j]
  <2>1. o # j /\ Live(o) /\ journal' = [[journal EXCEPT ![j] = row] EXCEPT ![o] = marked]
    BY <1>5 DEF ReverseJournal, Posted, Live, TypeOK
  <2>2. row.source # src
    BY <1>t DEF NewJournal, ReversalSource
  <2>3. marked.source = journal[o].source
    BY DEF TypeOK
  <2>4. journal'[j] = row /\ journal'[o] = marked
        /\ \A k \in JournalIds \ {o, j} : journal'[k] = journal[k]
    <3> HIDE DEF row, marked
    <3> QED BY <2>1 DEF TypeOK
  <2> HIDE DEF row, marked
  <2>5. PICK k \in JournalIds : Live(k)' /\ journal'[k].source = src
    BY DEF SourceUsed, src
  <2>6. k # j
    BY <2>2, <2>4, <2>5
  <2> QED
    BY <2>1, <2>3, <2>4, <2>5, <2>6 DEF SourceUsed, Live
<1>6. ASSUME UNCHANGED journal PROVE SourceUsed(src)
  BY <1>6 DEF SourceUsed, Live, src
<1>7. ASSUME NEW j \in JournalIds, NEW p \in PeriodIds, NEW d \in Dates,
             NEW lines \in LineLists, NEW other \in CommercialSources,
             PostCommercial(j, p, d, lines, other)
      PROVE  SourceUsed(src)
  <2>1. other # src
    BY <1>t, LedgerAssumption
  <2> QED
    BY <2>1, <1>2, <1>7 DEF PostCommercial
<1>8. ASSUME NEW t \in StocktakeIds, FinalizeStocktake(t)
      PROVE  SourceUsed(src) \/ t = s
  <2> SUFFICES ASSUME t # s PROVE SourceUsed(src)
    OBVIOUS
  <2>1. StocktakeSource(t) # src
    BY <1>t DEF StocktakeSource
  <2>2. UNCHANGED journal \/ \E p \in PeriodIds, j \in JournalIds, lines \in LineLists :
          CommercialJournal(j, p, stocktake[t].date, lines, StocktakeSource(t))
    BY <1>8 DEF FinalizeStocktake
  <2>3. ASSUME NEW p \in PeriodIds, NEW j \in JournalIds, NEW lines \in LineLists,
               CommercialJournal(j, p, stocktake[t].date, lines, StocktakeSource(t))
        PROVE  SourceUsed(src)
    BY <2>1, <2>3, <1>2
  <2> QED
    BY <2>2, <2>3, <1>6
<1>9. ASSUME \/ \E row \in AccountRows : AddAccount(row)
             \/ SeedDefaultChart
             \/ \E p \in PeriodIds, start, end \in Dates : CreatePeriod(p, start, end)
             \/ \E p \in PeriodIds : ClosePeriod(p)
             \/ \E t \in StocktakeIds, w \in Warehouses, d \in Dates : NewStocktake(t, w, d)
             \/ UNCHANGED vars
      PROVE  UNCHANGED journal
  BY <1>9 DEF AddAccount, SeedDefaultChart, CreatePeriod, ClosePeriod, NewStocktake, vars
<1> QED
  BY <1>1, <1>3, <1>4, <1>5, <1>6, <1>7, <1>8, <1>9 DEF Next, EditDraft, OtherCommand, src

LEMMA SessionStep ==
  ASSUME TypeOK, DatedInPeriod, SessionSources, OpenStocktakeFinalizable, [Next]_vars
  PROVE  SessionSources' /\ OpenStocktakeFinalizable'
<1>s. stocktake \in [StocktakeIds ->
        [status: {"absent", "draft", "posted"}, warehouse: Warehouses \cup {None},
         date: Dates \cup {0}]]
  BY DEF TypeOK
<1>u. ASSUME NEW s \in StocktakeIds, SourceUsed(StocktakeSource(s))'
      PROVE  SourceUsed(StocktakeSource(s)) \/ FinalizeStocktake(s)
  BY <1>u, SourceSummary
\* A session as it was, with the periods its date may be in still open.
<1>k. ASSUME NEW s \in StocktakeIds, stocktake'[s].status = "draft",
             stocktake[s] = stocktake'[s], UNCHANGED period,
             \A t \in StocktakeIds \ {s} : stocktake'[t].status = "draft" => stocktake'[t] = stocktake[t]
      PROVE  /\ \E p \in PeriodIds : OpenFor(p, stocktake[s].date)'
             /\ \A t \in StocktakeIds \ {s} :
                  ~(stocktake'[t].status = "draft" /\ stocktake'[t].warehouse = stocktake'[s].warehouse)
  BY <1>k DEF OpenStocktakeFinalizable, OpenFor, InPeriod
<1>1. ASSUME UNCHANGED stocktake, ~\E s \in StocktakeIds : FinalizeStocktake(s)
      PROVE  /\ SessionSources'
             /\ \A s \in StocktakeIds :
                  stocktake'[s].status = "draft" => ~SourceUsed(StocktakeSource(s))'
  <2>1. \A s \in StocktakeIds : SourceUsed(StocktakeSource(s))' => SourceUsed(StocktakeSource(s))
    BY <1>1, <1>u
  <2> QED
    BY <1>1, <2>1 DEF SessionSources, OpenStocktakeFinalizable
<1>2. ASSUME UNCHANGED <<stocktake, period>>, ~\E s \in StocktakeIds : FinalizeStocktake(s)
      PROVE  SessionSources' /\ OpenStocktakeFinalizable'
  BY <1>1, <1>2, <1>k DEF OpenStocktakeFinalizable
<1>3. ASSUME NEW s \in StocktakeIds, FinalizeStocktake(s)
      PROVE  SessionSources' /\ OpenStocktakeFinalizable'
  <2>1. /\ stocktake'[s].status = "posted" /\ UNCHANGED period
        /\ \A t \in StocktakeIds \ {s} : stocktake'[t] = stocktake[t]
    BY <1>3, <1>s DEF FinalizeStocktake
  <2>2. ASSUME NEW t \in StocktakeIds \ {s}, SourceUsed(StocktakeSource(t))'
        PROVE  SourceUsed(StocktakeSource(t))
    <3>1. CASE FinalizeStocktake(t)
      <4>1. stocktake'[t].status = "posted" /\ stocktake[t].status = "draft"
        BY <3>1, <1>s DEF FinalizeStocktake
      <4> QED
        BY <4>1, <2>1
    <3> QED
      BY <3>1, <2>2, <1>u
  <2>3. SessionSources'
    BY <2>1, <2>2 DEF SessionSources
  <2>4. OpenStocktakeFinalizable'
    BY <2>1, <2>2, <1>k DEF OpenStocktakeFinalizable
  <2> QED
    BY <2>3, <2>4
<1>4. ASSUME NEW s \in StocktakeIds, NEW w \in Warehouses, NEW d \in Dates, NewStocktake(s, w, d)
      PROVE  SessionSources' /\ OpenStocktakeFinalizable'
  <2>1. /\ stocktake'[s].status = "draft" /\ stocktake'[s].warehouse = w /\ stocktake'[s].date = d
        /\ stocktake[s].status = "absent"
        /\ \A t \in StocktakeIds \ {s} : stocktake'[t] = stocktake[t]
        /\ UNCHANGED <<period, journal>>
        /\ \E p \in PeriodIds : OpenFor(p, d)
        /\ \A t \in StocktakeIds \ {s} : ~(stocktake[t].status = "draft" /\ stocktake[t].warehouse = w)
    BY <1>4, <1>s DEF NewStocktake
  <2>2. \A t \in StocktakeIds : SourceUsed(StocktakeSource(t))' <=> SourceUsed(StocktakeSource(t))
    BY <2>1 DEF SourceUsed, Live
  <2>3. ~SourceUsed(StocktakeSource(s))
    BY <2>1 DEF SessionSources
  <2>4. SessionSources'
    BY <2>1, <2>2, <2>3 DEF SessionSources
  <2>5. \A t \in StocktakeIds : stocktake'[t].status = "draft" =>
          /\ \E p \in PeriodIds : OpenFor(p, stocktake[t].date)'
          /\ ~SourceUsed(StocktakeSource(t))'
    BY <2>1, <2>2, <2>3 DEF OpenStocktakeFinalizable, OpenFor, InPeriod
  <2>6. \A t \in StocktakeIds, u \in StocktakeIds : t # u =>
          ~(/\ stocktake'[t].status = "draft" /\ stocktake'[u].status = "draft"
            /\ stocktake'[u].warehouse = stocktake'[t].warehouse)
    BY <2>1 DEF OpenStocktakeFinalizable
  <2>7. OpenStocktakeFinalizable'
    BY <2>5, <2>6 DEF OpenStocktakeFinalizable
  <2> QED
    BY <2>4, <2>7
<1>5. ASSUME NEW p \in PeriodIds,
             ClosePeriod(p) \/ \E start, end \in Dates : CreatePeriod(p, start, end)
      PROVE  SessionSources' /\ OpenStocktakeFinalizable'
  <2>1. UNCHANGED <<stocktake, journal>>
    BY <1>5 DEF ClosePeriod, CreatePeriod
  <2>2. \A s \in StocktakeIds : SourceUsed(StocktakeSource(s))' <=> SourceUsed(StocktakeSource(s))
    BY <2>1 DEF SourceUsed, Live
  <2>3. ASSUME NEW s \in StocktakeIds, stocktake[s].status = "draft",
               NEW q \in PeriodIds, OpenFor(q, stocktake[s].date)
        PROVE  OpenFor(q, stocktake[s].date)'
    <3>1. q # p
      BY <1>5, <2>3 DEF ClosePeriod, CreatePeriod, OpenFor
    <3>2. period'[q] = period[q]
      BY <3>1, <1>5 DEF ClosePeriod, CreatePeriod, TypeOK
    <3> QED
      BY <2>1, <2>3, <3>2 DEF OpenFor, InPeriod
  <2>4. \A s \in StocktakeIds : stocktake[s].status = "draft" =>
          \E q \in PeriodIds : OpenFor(q, stocktake[s].date)'
    BY <2>3 DEF OpenStocktakeFinalizable
  <2> QED
    BY <2>1, <2>2, <2>4 DEF SessionSources, OpenStocktakeFinalizable
<1>6. \/ UNCHANGED <<stocktake, period>>
      \/ \E s \in StocktakeIds : FinalizeStocktake(s)
      \/ \E s \in StocktakeIds, w \in Warehouses, d \in Dates : NewStocktake(s, w, d)
      \/ \E p \in PeriodIds :
           ClosePeriod(p) \/ \E start, end \in Dates : CreatePeriod(p, start, end)
  <2>1. ASSUME NEW j \in JournalIds, NEW p \in PeriodIds, NEW d \in Dates, NEW lines \in LineLists,
               \/ \E src \in ManualSources \cup {NoSource} :
                    \/ SaveDraftJournal(j, p, d, lines, src)
                    \/ PostJournal(j, p, d, lines, src)
               \/ \E post \in BOOLEAN : UpdateDraftJournal(j, p, d, lines, post)
               \/ \E src \in CommercialSources : PostCommercial(j, p, d, lines, src)
        PROVE  UNCHANGED <<stocktake, period>>
    BY <2>1 DEF SaveDraftJournal, PostJournal, UpdateDraftJournal, PostCommercial
  <2>2. ASSUME NEW o \in JournalIds, NEW j \in JournalIds, NEW p \in PeriodIds, NEW d \in Dates,
               ReverseJournal(o, j, p, d)
        PROVE  UNCHANGED <<stocktake, period>>
    BY <2>2 DEF ReverseJournal
  <2>3. ASSUME \/ \E row \in AccountRows : AddAccount(row)
               \/ SeedDefaultChart
               \/ \E j \in JournalIds : PostDraftJournal(j)
               \/ \E j \in JournalIds : DiscardDraftJournal(j)
               \/ UNCHANGED vars
        PROVE  UNCHANGED <<stocktake, period>>
    BY <2>3 DEF AddAccount, SeedDefaultChart, PostDraftJournal, DiscardDraftJournal, vars
  <2> QED
    BY <2>1, <2>2, <2>3 DEF Next, EditDraft, OtherCommand
<1> QED
  BY <1>2, <1>3, <1>4, <1>5, <1>6

-----------------------------------------------------------------------------
(* The book of posted journals.                                            *)

\* A journal holds the lines of a command, or of the journal it reverses.
LinesGiven ==
  \A j \in JournalIds : Live(j) /\ journal[j].reversalOf = None => journal[j].lines \in LineLists

BookLines == {lines \in LineLists \cup {ReversingLines(l) : l \in LineLists} : Balanced(lines)}

\* At most one journal is posted by a step, and every posted one stays.
PostsOne(j) ==
  /\ ~Posted(j) /\ Posted(j)'
  /\ journal'[j].period \in PeriodIds /\ period[journal'[j].period].status = "open"
  /\ journal'[j].lines \in BookLines
  /\ \A k \in JournalIds \ {j} : /\ Posted(k)' <=> Posted(k)
                                 /\ Posted(k) => /\ journal'[k].period = journal[k].period
                                                 /\ journal'[k].lines = journal[k].lines

PostsNone ==
  \A k \in JournalIds : /\ Posted(k)' <=> Posted(k)
                        /\ Posted(k) => /\ journal'[k].period = journal[k].period
                                        /\ journal'[k].lines = journal[k].lines

LEMMA BookGrows ==
  ASSUME TypeOK, DatedInPeriod, PlainUnlessPosted, LinesGiven, [Next]_vars
  PROVE  LinesGiven' /\ (PostsNone \/ \E j \in JournalIds : PostsOne(j))
<1> DEFINE Goal == LinesGiven' /\ (PostsNone \/ \E j \in JournalIds : PostsOne(j))
<1>1. CASE UNCHANGED journal
  BY <1>1 DEF LinesGiven, PostsNone, Live, Posted
<1>2. ASSUME NEW j \in JournalIds, NEW status \in {"draft", "posted"}, NEW p \in PeriodIds,
             NEW d, NEW lines \in LineLists,
             ~Posted(j), Others(j), Accepted(status, p, d, lines), journal'[j].status = status,
             journal'[j].period = p, journal'[j].lines = lines
      PROVE  Goal
  <2>1. LinesGiven'
    BY <1>2 DEF LinesGiven, Live, Others
  <2>2. CASE status = "draft"
    BY <1>2, <2>1, <2>2 DEF PostsNone, Posted, Others
  <2>3. CASE status = "posted"
    <3>1. Balanced(lines) /\ period[p].status = "open"
      BY <1>2, <2>3 DEF Accepted, OpenFor
    <3>2. lines \in BookLines
      BY <3>1 DEF BookLines
    <3>3. PostsOne(j)
      BY <1>2, <2>3, <3>1, <3>2 DEF PostsOne, Posted, Others
    <3> QED
      BY <2>1, <3>3
  <2> QED
    BY <2>2, <2>3
<1>3. ASSUME NEW j \in JournalIds, NEW status \in {"draft", "posted"}, NEW p \in PeriodIds, NEW d,
             NEW lines \in LineLists, NEW src, Created(j, status, p, d, lines, src)
      PROVE  Goal
  <2>1. ~Posted(j) /\ Others(j) /\ Accepted(status, p, d, lines)
        /\ journal'[j].status = status /\ journal'[j].period = p /\ journal'[j].lines = lines
    BY <1>3 DEF Created, NewJournal, Posted
  <2> QED
    BY <2>1, <1>2
<1>4. ASSUME NEW j \in JournalIds, NEW status \in {"draft", "posted"}, NEW p \in PeriodIds, NEW d,
             NEW lines \in LineLists \cup {journal[j].lines}, Edited(j, status, p, d, lines)
      PROVE  Goal
  <2>1. ~Posted(j) /\ Others(j) /\ Accepted(status, p, d, lines)
        /\ journal'[j].status = status /\ journal'[j].period = p /\ journal'[j].lines = lines
    BY <1>4 DEF Edited, Posted
  <2>2. lines \in LineLists
    BY <1>4 DEF Edited, LinesGiven, PlainUnlessPosted, Live, Posted
  <2> QED
    BY <2>1, <2>2, <1>2
<1>5. ASSUME NEW j \in JournalIds, Discarded(j) PROVE Goal
  <2>1. journal'[j].status = "discarded" /\ Others(j) /\ journal[j].status = "draft"
    BY <1>5 DEF Discarded, NoJournal, NewJournal
  <2> QED
    BY <2>1 DEF Others, LinesGiven, PostsNone, Live, Posted
<1>6. ASSUME NEW o \in JournalIds, NEW j \in JournalIds, NEW p \in PeriodIds, NEW d \in Dates,
             Reversed(o, j, p, d)
      PROVE  Goal
  <2> DEFINE lines == ReversingLines(journal[o].lines)
  <2>1. /\ journal'[j].status = "posted" /\ journal'[j].period = p /\ journal'[j].lines = lines
        /\ journal'[j].reversalOf = o
    BY <1>6 DEF Reversed, NewJournal
  <2>2. /\ journal'[o].status = "posted" /\ journal'[o].period = journal[o].period
        /\ journal'[o].lines = journal[o].lines /\ journal'[o].reversalOf = None
    BY <1>6 DEF Reversed, TypeOK, Posted
  <2>3. /\ o # j /\ Posted(o) /\ ~Posted(j) /\ journal[o].reversalOf = None
        /\ period[p].status = "open" /\ Balanced(lines)
        /\ \A k \in JournalIds \ {o, j} : journal'[k] = journal[k]
    BY <1>6 DEF Reversed, Posted, OpenFor
  <2>4. journal[o].lines \in LineLists
    BY <2>3 DEF LinesGiven, Live, Posted
  <2>5. lines \in BookLines
    BY <2>3, <2>4 DEF BookLines
  <2> HIDE DEF lines
  <2>6. PostsOne(j)
    BY <2>1, <2>2, <2>3, <2>5 DEF PostsOne, Posted
  <2>7. LinesGiven'
    BY <2>1, <2>2, <2>3, <2>4, LedgerAssumption DEF LinesGiven, Live
  <2> QED
    BY <2>6, <2>7
<1> QED
  BY <1>1, <1>3, <1>4, <1>5, <1>6, StepSummary DEF JournalStep

PostedRow(j) == [id |-> j, period |-> journal[j].period, lines |-> journal[j].lines]
PostedRows == {PostedRow(j) : j \in {k \in JournalIds : Posted(k)}}
Locked == {p \in PeriodIds : period[p].status = "closed"}

(* Every step of the ledger is one of the book, or none.                   *)
LEMMA BookStep ==
  ASSUME TypeOK, DatedInPeriod, PlainUnlessPosted, LinesGiven, [Next]_vars
  PROVE  Book!BookNext \/ UNCHANGED <<PostedRows, Locked>>
<1>1. ASSUME PostsNone PROVE PostedRows' = PostedRows
  BY <1>1 DEF PostsNone, PostedRows, PostedRow, Posted
<1>2. ASSUME NEW j \in JournalIds, PostsOne(j)
      PROVE  /\ PostedRows' = PostedRows \cup {PostedRow(j)'}
             /\ PostedRow(j)' \in [id: JournalIds, period: PeriodIds, lines: BookLines]
             /\ \A other \in PostedRows : other.id # j
  <2>1. \A k \in JournalIds \ {j} : Posted(k) => PostedRow(k)' = PostedRow(k)
    BY <1>2 DEF PostsOne, PostedRow
  <2>2. PostedRows' = PostedRows \cup {PostedRow(j)'}
    <3>1. \A row \in PostedRows' : row \in PostedRows \cup {PostedRow(j)'}
      BY <1>2, <2>1 DEF PostsOne, PostedRows
    <3>2. \A row \in PostedRows : row \in PostedRows'
      BY <1>2, <2>1 DEF PostsOne, PostedRows
    <3>3. PostedRow(j)' \in PostedRows'
      BY <1>2 DEF PostsOne, PostedRows
    <3> QED
      BY <3>1, <3>2, <3>3
  <2> QED
    BY <1>2, <2>2 DEF PostsOne, PostedRow, PostedRows
<1>3. CASE UNCHANGED period
  <2>1. Locked' = Locked
    BY <1>3 DEF Locked
  <2>2. ASSUME NEW j \in JournalIds, PostsOne(j), NEW e, e = PostedRow(j)'
        PROVE  Book!Post(e)
    <3>1. e.id = j /\ e.period \notin Locked
      BY <2>2 DEF PostsOne, PostedRow, Locked
    <3> QED
      BY <1>2, <2>1, <2>2, <3>1 DEF Book!Post, PostedRows, PostedRow, Locked
  <2>3. ASSUME NEW j \in JournalIds, PostsOne(j) PROVE Book!BookNext
    <3>1. PICK e : e = PostedRow(j)'
      OBVIOUS
    <3>2. e \in [id: JournalIds, period: PeriodIds, lines: BookLines]
      BY <2>3, <3>1, <1>2
    <3> QED
      BY <2>2, <2>3, <3>1, <3>2 DEF Book!BookNext, Book!Posting, BookLines
  <2>4. ASSUME PostsNone PROVE UNCHANGED <<PostedRows, Locked>>
    BY <1>1, <2>1, <2>4 DEF PostedRows, PostedRow, Locked
  <2> QED
    BY <2>3, <2>4, BookGrows
<1>4. ASSUME UNCHANGED journal, NEW p \in PeriodIds, NEW start \in Dates, NEW end \in Dates,
             CreatePeriod(p, start, end)
      PROVE  UNCHANGED <<PostedRows, Locked>>
  <2>1. /\ period[p].status # "closed" /\ period'[p].status # "closed"
        /\ \A q \in PeriodIds \ {p} : period'[q] = period[q]
    BY <1>4 DEF CreatePeriod, TypeOK
  <2>2. Locked' = Locked
    BY <2>1 DEF Locked
  <2>3. PostedRows' = PostedRows
    BY <1>4 DEF PostedRows, PostedRow, Posted
  <2> QED
    BY <2>2, <2>3 DEF PostedRows, PostedRow, Locked
<1>5. ASSUME UNCHANGED journal, NEW p \in PeriodIds, ClosePeriod(p)
      PROVE  Book!BookNext
  <2>1. /\ period'[p].status = "closed"
        /\ \A q \in PeriodIds \ {p} : period'[q] = period[q]
    BY <1>5 DEF ClosePeriod, TypeOK
  <2>2. Locked' = Locked \cup {p}
    BY <2>1 DEF Locked
  <2>3. PostedRows' = PostedRows
    BY <1>5 DEF PostedRows, PostedRow, Posted
  <2>4. Book!Lock(p)
    BY <2>2, <2>3 DEF Book!Lock, PostedRows, PostedRow, Locked
  <2> QED
    BY <2>4 DEF Book!BookNext
<1> QED
  BY <1>3, <1>4, <1>5, PeriodSummary

-----------------------------------------------------------------------------
(* The audit log, conjunct by conjunct of AuditMatchesState.               *)

PeriodsAudited ==
  \A p \in PeriodIds :
    /\ <<"open-period", p>> \in commands <=> period[p].status # "absent"
    /\ <<"close-period", p>> \in commands <=> period[p].status = "closed"

JournalAudited(j) ==
  /\ <<"draft-create", j>> \in commands => journal[j].status # "absent"
  /\ <<"draft-finalize", j>> \in commands => Posted(j)
  /\ <<"draft-discard", j>> \in commands <=> journal[j].status = "discarded"
  /\ <<"manual-reversal", j>> \in commands <=> journal[j].reversedBy # None

PostedFrom(src) == \E j \in JournalIds : Posted(j) /\ journal[j].source = src

ManualAudited == \A src \in ManualSources : <<"manual-journal", src>> \in commands => PostedFrom(src)

CommercialAudited ==
  \A src \in AllCommercialSources : <<"retail-journal", src>> \in commands <=> PostedFrom(src)

\* No draft has a source of the commercial commands.
DraftsManual == \A j \in JournalIds : journal[j].status = "draft" => journal[j].source.type \notin RESERVED_SOURCES

AuditInv ==
  /\ PeriodsAudited /\ \A j \in JournalIds : JournalAudited(j)
  /\ ManualAudited /\ CommercialAudited /\ DraftsManual

LEMMA CommercialReserved ==
  ASSUME NEW src \in AllCommercialSources
  PROVE  src.type \in CommercialTypes
  BY LedgerAssumption DEF AllCommercialSources, StocktakeSource, CommercialTypes

(* The part of a new row that the audit log is about.                      *)
LEMMA AuditCreate ==
  ASSUME TypeOK, PlainUnlessPosted, AuditInv, UNCHANGED period,
         NEW j \in JournalIds, NEW src, NEW key, NEW status \in {"draft", "posted"},
         journal[j].status = "absent", Others(j),
         journal'[j].status = status, journal'[j].source = src, journal'[j].reversedBy = None,
         commands' = commands \cup {key},
         \/ /\ key = <<"draft-create", j>> /\ status = "draft" /\ src.type \notin RESERVED_SOURCES
         \/ /\ status = "posted" /\ src.type \notin RESERVED_SOURCES
            /\ key = <<"manual-journal", IF src # NoSource THEN src ELSE j>>
         \/ /\ status = "posted" /\ key = <<"retail-journal", src>>
  PROVE  AuditInv'
<1> USE DEF Posted
<1>0. /\ \A x \in JournalIds :
           /\ x # j => (<<"draft-create", x>> \in commands' <=> <<"draft-create", x>> \in commands)
           /\ <<"draft-finalize", x>> \in commands' <=> <<"draft-finalize", x>> \in commands
           /\ <<"draft-discard", x>> \in commands' <=> <<"draft-discard", x>> \in commands
           /\ <<"manual-reversal", x>> \in commands' <=> <<"manual-reversal", x>> \in commands
      /\ \A p \in PeriodIds :
           /\ <<"open-period", p>> \in commands' <=> <<"open-period", p>> \in commands
           /\ <<"close-period", p>> \in commands' <=> <<"close-period", p>> \in commands
  <2>1. PICK kind, y : /\ kind \in {"draft-create", "manual-journal", "retail-journal"}
                       /\ key = <<kind, y>> /\ (kind = "draft-create" => y = j)
    <3>1. CASE key = <<"draft-create", j>>
      BY <3>1
    <3>2. CASE key = <<"manual-journal", IF src # NoSource THEN src ELSE j>>
      BY <3>2
    <3>3. CASE key = <<"retail-journal", src>>
      BY <3>3
    <3> QED
      BY <3>1, <3>2, <3>3
  <2> QED
    BY <2>1
<1>1. PeriodsAudited'
  <2>1. PeriodsAudited /\ UNCHANGED period
    BY DEF AuditInv
  <2>2. \A p \in PeriodIds :
          /\ <<"open-period", p>> \in commands' <=> <<"open-period", p>> \in commands
          /\ <<"close-period", p>> \in commands' <=> <<"close-period", p>> \in commands
    BY <1>0
  <2> QED
    BY ONLY <2>1, <2>2 DEF PeriodsAudited
<1>2. ASSUME NEW k \in JournalIds PROVE JournalAudited(k)'
  <2>1. JournalAudited(k)
    BY DEF AuditInv
  <2>2. CASE k = j
    BY <1>0, <2>1, <2>2 DEF JournalAudited, PlainUnlessPosted
  <2>3. CASE k # j
    BY <1>0, <2>1, <2>3 DEF JournalAudited, Others
  <2> QED
    BY <2>2, <2>3
<1>3. \A other : PostedFrom(other) => PostedFrom(other)'
  BY DEF PostedFrom, Others
<1>4. \A other : PostedFrom(other)' => PostedFrom(other) \/ (status = "posted" /\ other = src)
  BY DEF PostedFrom, Others
<1>5. status = "posted" => PostedFrom(src)'
  BY DEF PostedFrom
<1>6. ManualAudited'
  <2> SUFFICES ASSUME NEW other \in ManualSources, <<"manual-journal", other>> \in commands'
               PROVE  PostedFrom(other)'
    BY DEF ManualAudited
  <2>1. CASE <<"manual-journal", other>> \in commands
    BY <2>1, <1>3 DEF AuditInv, ManualAudited
  <2>2. CASE <<"manual-journal", other>> = key
    <3>1. other \notin JournalIds
      BY LedgerAssumption
    <3> QED
      BY <2>2, <3>1, <1>5
  <2> QED
    BY <2>1, <2>2
<1>7. CommercialAudited'
  <2> SUFFICES ASSUME NEW other \in AllCommercialSources
               PROVE  <<"retail-journal", other>> \in commands' <=> PostedFrom(other)'
    BY DEF CommercialAudited
  <2>1. other.type \in RESERVED_SOURCES
    BY CommercialReserved DEF RESERVED_SOURCES
  <2>2. <<"retail-journal", other>> \in commands <=> PostedFrom(other)
    BY DEF AuditInv, CommercialAudited
  <2> QED
    BY <2>1, <2>2, <1>3, <1>4, <1>5
<1>8. DraftsManual'
  BY DEF AuditInv, DraftsManual, Others
<1> QED
  BY <1>1, <1>2, <1>6, <1>7, <1>8 DEF AuditInv

(* A draft is posted, kept or dropped.                                     *)
LEMMA AuditDraft ==
  ASSUME TypeOK, PlainUnlessPosted, AuditInv, UNCHANGED period,
         NEW j \in JournalIds, NEW status \in {"draft", "posted", "discarded"},
         journal[j].status = "draft", Others(j),
         journal'[j].status = status, journal'[j].reversedBy = None,
         status # "discarded" => journal'[j].source = journal[j].source,
         \/ status # "discarded" /\ UNCHANGED commands
         \/ status = "posted" /\ commands' = commands \cup {<<"draft-finalize", j>>}
         \/ status = "discarded" /\ commands' = commands \cup {<<"draft-discard", j>>}
  PROVE  AuditInv'
<1> USE DEF Posted
<1>0. /\ \A x \in JournalIds :
           /\ <<"draft-create", x>> \in commands' <=> <<"draft-create", x>> \in commands
           /\ <<"manual-reversal", x>> \in commands' <=> <<"manual-reversal", x>> \in commands
           /\ x # j \/ status # "posted" =>
                (<<"draft-finalize", x>> \in commands' <=> <<"draft-finalize", x>> \in commands)
           /\ x # j \/ status # "discarded" =>
                (<<"draft-discard", x>> \in commands' <=> <<"draft-discard", x>> \in commands)
      /\ status = "discarded" => <<"draft-discard", j>> \in commands'
      /\ \A p \in PeriodIds :
           /\ <<"open-period", p>> \in commands' <=> <<"open-period", p>> \in commands
           /\ <<"close-period", p>> \in commands' <=> <<"close-period", p>> \in commands
      /\ \A src \in ManualSources :
           <<"manual-journal", src>> \in commands' <=> <<"manual-journal", src>> \in commands
      /\ \A src \in AllCommercialSources :
           <<"retail-journal", src>> \in commands' <=> <<"retail-journal", src>> \in commands
  OBVIOUS
<1>1. PeriodsAudited'
  <2>1. PeriodsAudited /\ UNCHANGED period
    BY DEF AuditInv
  <2>2. \A p \in PeriodIds :
          /\ <<"open-period", p>> \in commands' <=> <<"open-period", p>> \in commands
          /\ <<"close-period", p>> \in commands' <=> <<"close-period", p>> \in commands
    BY <1>0
  <2> QED
    BY ONLY <2>1, <2>2 DEF PeriodsAudited
<1>2. ASSUME NEW k \in JournalIds PROVE JournalAudited(k)'
  <2>1. JournalAudited(k)
    BY DEF AuditInv
  <2>2. CASE k = j
    <3>1. journal[j].reversedBy = None
      BY DEF PlainUnlessPosted
    <3> QED
      BY <1>0, <2>1, <2>2, <3>1 DEF JournalAudited
  <2>3. CASE k # j
    BY <1>0, <2>1, <2>3 DEF JournalAudited, Others
  <2> QED
    BY <2>2, <2>3
<1>3. \A src : PostedFrom(src) => PostedFrom(src)'
  BY DEF PostedFrom, Others
<1>4. ManualAudited'
  BY <1>0, <1>3 DEF AuditInv, ManualAudited
<1>5. \A src : PostedFrom(src)' => PostedFrom(src) \/ src.type \notin RESERVED_SOURCES
  BY DEF PostedFrom, Others, AuditInv, DraftsManual
<1>6. CommercialAudited'
  <2> SUFFICES ASSUME NEW src \in AllCommercialSources
               PROVE  <<"retail-journal", src>> \in commands' <=> PostedFrom(src)'
    BY DEF CommercialAudited
  <2>1. src.type \in RESERVED_SOURCES
    BY CommercialReserved DEF RESERVED_SOURCES
  <2>2. <<"retail-journal", src>> \in commands <=> PostedFrom(src)
    BY DEF AuditInv, CommercialAudited
  <2> QED
    BY <2>1, <2>2, <1>0, <1>3, <1>5
<1>7. DraftsManual'
  BY DEF AuditInv, DraftsManual, Others
<1> QED
  BY <1>1, <1>2, <1>4, <1>6, <1>7 DEF AuditInv

LEMMA AuditReversal ==
  ASSUME TypeOK, PlainUnlessPosted, AuditInv, UNCHANGED period,
         NEW o \in JournalIds, NEW j \in JournalIds, NEW p \in PeriodIds, NEW d \in Dates,
         Reversed(o, j, p, d), commands' = commands \cup {<<"manual-reversal", o>>}
  PROVE  AuditInv'
<1> USE DEF Posted
<1>1. /\ o # j /\ journal[j].status = "absent" /\ journal[o].status = "posted"
      /\ \A k \in JournalIds \ {o, j} : journal'[k] = journal[k]
      /\ journal'[j].status = "posted" /\ journal'[j].source = ReversalSource(o)
      /\ journal'[j].reversedBy = None
  BY DEF Reversed, NewJournal
<1>2. /\ journal'[o].status = "posted" /\ journal'[o].source = journal[o].source
      /\ journal'[o].reversedBy = j /\ j # None
  BY LedgerAssumption DEF Reversed, TypeOK
<1>3. PeriodsAudited'
  BY DEF AuditInv, PeriodsAudited
<1>4. \A k \in JournalIds : JournalAudited(k)'
  BY <1>1, <1>2, ZenonT(40) DEF AuditInv, JournalAudited, PlainUnlessPosted
<1>5. \A src : PostedFrom(src) => PostedFrom(src)'
  BY <1>1, <1>2 DEF PostedFrom
<1>6. \A src : PostedFrom(src)' => PostedFrom(src) \/ src.type = "journal_reversal"
  BY <1>1, <1>2 DEF PostedFrom, ReversalSource
<1>7. ManualAudited'
  BY <1>5 DEF AuditInv, ManualAudited
<1>8. CommercialAudited'
  BY <1>5, <1>6, CommercialReserved DEF AuditInv, CommercialAudited, CommercialTypes
<1>9. DraftsManual'
  BY <1>1, <1>2 DEF AuditInv, DraftsManual
<1> QED
  BY <1>3, <1>4, <1>7, <1>8, <1>9 DEF AuditInv

LEMMA AuditPeriod ==
  ASSUME TypeOK, AuditInv, UNCHANGED journal, NEW p \in PeriodIds,
         ClosePeriod(p) \/ \E start, end \in Dates : CreatePeriod(p, start, end)
  PROVE  AuditInv'
<1>1. PICK kind \in {"open-period", "close-period"} :
        /\ commands' = commands \cup {<<kind, p>>}
        /\ kind = "open-period" => period[p].status = "absent" /\ period'[p].status = "open"
        /\ kind = "close-period" => period[p].status = "open" /\ period'[p].status = "closed"
        /\ \A q \in PeriodIds \ {p} : period'[q] = period[q]
  <2>1. CASE ClosePeriod(p)
    BY <2>1 DEF ClosePeriod, Audit, TypeOK
  <2>2. ASSUME NEW start \in Dates, NEW end \in Dates, CreatePeriod(p, start, end)
        PROVE  /\ commands' = commands \cup {<<"open-period", p>>}
               /\ period[p].status = "absent" /\ period'[p].status = "open"
               /\ \A q \in PeriodIds \ {p} : period'[q] = period[q]
    BY <2>2 DEF CreatePeriod, Audit, TypeOK
  <2> QED
    BY <2>1, <2>2
<1>2. PeriodsAudited'
  <2> SUFFICES ASSUME NEW q \in PeriodIds
               PROVE  /\ <<"open-period", q>> \in commands' <=> period'[q].status # "absent"
                      /\ <<"close-period", q>> \in commands' <=> period'[q].status = "closed"
    BY DEF PeriodsAudited
  <2>1. /\ <<"open-period", q>> \in commands <=> period[q].status # "absent"
        /\ <<"close-period", q>> \in commands <=> period[q].status = "closed"
    BY DEF AuditInv, PeriodsAudited
  <2>2. CASE kind = "open-period"
    BY <1>1, <2>1, <2>2
  <2>3. CASE kind = "close-period"
    BY <1>1, <2>1, <2>3
  <2> QED
    BY <2>2, <2>3
<1>3. ASSUME NEW k \in JournalIds PROVE JournalAudited(k)'
  <2>1. JournalAudited(k)
    BY DEF AuditInv
  <2> QED
    BY <1>1, <2>1 DEF JournalAudited, Posted
<1>4. \A src : PostedFrom(src)' <=> PostedFrom(src)
  BY DEF PostedFrom, Posted
<1>5. ManualAudited'
  BY <1>1, <1>4 DEF AuditInv, ManualAudited
<1>6. CommercialAudited'
  BY <1>1, <1>4 DEF AuditInv, CommercialAudited
<1>7. DraftsManual'
  BY DEF AuditInv, DraftsManual
<1> QED
  BY <1>2, <1>3, <1>5, <1>6, <1>7 DEF AuditInv

LEMMA AuditCommercial ==
  ASSUME TypeOK, PlainUnlessPosted, AuditInv, UNCHANGED period,
         NEW j \in JournalIds, NEW p, NEW d, NEW lines, NEW src,
         CommercialJournal(j, p, d, lines, src)
  PROVE  AuditInv'
<1>1. journal \in [JournalIds -> JournalRow]
  BY DEF TypeOK, JournalRow
<1>2. /\ journal[j].status = "absent" /\ Others(j)
      /\ journal'[j].status = "posted" /\ journal'[j].source = src /\ journal'[j].reversedBy = None
      /\ commands' = commands \cup {<<"retail-journal", src>>}
  BY <1>1 DEF CommercialJournal, Others, NewJournal, Audit
<1> QED
  BY <1>2, AuditCreate

LEMMA AuditStep ==
  ASSUME TypeOK, DatedInPeriod, PlainUnlessPosted, AuditInv, [Next]_vars
  PROVE  AuditInv'
<1>j. journal \in [JournalIds -> JournalRow]
  BY DEF TypeOK, JournalRow
<1>1. ASSUME UNCHANGED <<period, journal, commands>> PROVE AuditInv'
  BY <1>1 DEF AuditInv, PeriodsAudited, JournalAudited, ManualAudited, CommercialAudited,
              PostedFrom, Posted, DraftsManual
<1>2. ASSUME NEW j \in JournalIds, NEW p \in PeriodIds, NEW d \in Dates, NEW lines \in LineLists,
             NEW src \in ManualSources \cup {NoSource}, SaveDraftJournal(j, p, d, lines, src)
      PROVE  AuditInv'
  <2>1. /\ journal[j].status = "absent" /\ Others(j) /\ UNCHANGED period
        /\ journal'[j].status = "draft" /\ journal'[j].source = src /\ journal'[j].reversedBy = None
        /\ src.type \notin RESERVED_SOURCES
        /\ commands' = commands \cup {<<"draft-create", j>>}
    BY <1>2, <1>j DEF SaveDraftJournal, Others, NewJournal, Audit
  <2> QED
    BY <2>1, AuditCreate
<1>3. ASSUME NEW j \in JournalIds, NEW p \in PeriodIds, NEW d \in Dates, NEW lines \in LineLists,
             NEW src \in ManualSources \cup {NoSource}, PostJournal(j, p, d, lines, src)
      PROVE  AuditInv'
  <2>1. /\ journal[j].status = "absent" /\ Others(j) /\ UNCHANGED period
        /\ journal'[j].status = "posted" /\ journal'[j].source = src /\ journal'[j].reversedBy = None
        /\ src.type \notin RESERVED_SOURCES
        /\ commands' = commands \cup {<<"manual-journal", IF src # NoSource THEN src ELSE j>>}
    BY <1>3, <1>j DEF PostJournal, Others, NewJournal, Audit
  <2> QED
    BY <2>1, AuditCreate
<1>4. ASSUME NEW j \in JournalIds, NEW p \in PeriodIds, NEW d \in Dates, NEW lines \in LineLists,
             NEW post \in BOOLEAN, UpdateDraftJournal(j, p, d, lines, post)
      PROVE  AuditInv'
  <2> DEFINE status == IF post THEN "posted" ELSE "draft"
  <2>1. /\ journal[j].status = "draft" /\ Others(j) /\ UNCHANGED <<period, commands>>
        /\ journal' = [journal EXCEPT ![j] = [@ EXCEPT !.status = status, !.period = p,
                                                       !.date = d, !.lines = lines]]
    BY <1>4, <1>j DEF UpdateDraftJournal, Others
  <2>2. journal[j].reversedBy = None
    BY <2>1 DEF PlainUnlessPosted, Posted
  <2>3. status \in {"draft", "posted"}
    OBVIOUS
  <2> HIDE DEF status
  <2>4. journal'[j] = [journal[j] EXCEPT !.status = status, !.period = p, !.date = d, !.lines = lines]
    BY <2>1, <1>j
  <2>5. journal[j] \in JournalRow
    BY <1>j
  <2>6. /\ journal'[j].status = status /\ journal'[j].source = journal[j].source
        /\ journal'[j].reversedBy = None
    BY <2>2, <2>4, <2>5 DEF JournalRow
  <2> QED
    BY <2>1, <2>3, <2>6, AuditDraft
<1>5. ASSUME NEW j \in JournalIds, PostDraftJournal(j) PROVE AuditInv'
  <2>1. /\ journal[j].status = "draft" /\ Others(j) /\ UNCHANGED period
        /\ journal'[j].status = "posted" /\ journal'[j].source = journal[j].source
        /\ journal'[j].reversedBy = journal[j].reversedBy
        /\ commands' = commands \cup {<<"draft-finalize", j>>}
    BY <1>5 DEF PostDraftJournal, Others, Audit, TypeOK
  <2>2. journal[j].reversedBy = None
    BY <2>1 DEF PlainUnlessPosted, Posted
  <2> QED
    BY <2>1, <2>2, AuditDraft
<1>6. ASSUME NEW j \in JournalIds, DiscardDraftJournal(j) PROVE AuditInv'
  <2>1. /\ journal[j].status = "draft" /\ Others(j) /\ UNCHANGED period
        /\ journal'[j].status = "discarded" /\ journal'[j].reversedBy = None
        /\ commands' = commands \cup {<<"draft-discard", j>>}
    BY <1>6, <1>j DEF DiscardDraftJournal, Others, Audit, NoJournal, NewJournal
  <2> QED
    BY <2>1, AuditDraft
<1>7. ASSUME NEW o \in JournalIds, NEW j \in JournalIds, NEW p \in PeriodIds, NEW d \in Dates,
             ReverseJournal(o, j, p, d)
      PROVE  AuditInv'
  <2> DEFINE row == NewJournal("posted", p, d, ReversingLines(journal[o].lines),
                               ReversalSource(o), o)
             marked == [journal[o] EXCEPT !.reversedBy = j]
  <2>1. journal' = [[journal EXCEPT ![j] = row] EXCEPT ![o] = marked] /\ o # j
    BY <1>7, <1>j DEF ReverseJournal, Posted
  <2>2. /\ journal'[j] = row /\ journal'[o] = marked
        /\ \A k \in JournalIds \ {o, j} : journal'[k] = journal[k]
    <3> HIDE DEF row, marked
    <3> QED BY <2>1, <1>j
  <2>3. Reversed(o, j, p, d)
    BY <2>1, <2>2, <1>7 DEF ReverseJournal, ValidJournal, Reversed
  <2>4. UNCHANGED period /\ commands' = commands \cup {<<"manual-reversal", o>>}
    BY <1>7 DEF ReverseJournal, Audit
  <2> QED
    BY <2>3, <2>4, AuditReversal
<1>8. ASSUME NEW j \in JournalIds, NEW p \in PeriodIds, NEW d \in Dates, NEW lines \in LineLists,
             NEW src \in CommercialSources, PostCommercial(j, p, d, lines, src)
      PROVE  AuditInv'
  BY <1>8, AuditCommercial DEF PostCommercial
<1>9. ASSUME NEW s \in StocktakeIds, FinalizeStocktake(s) PROVE AuditInv'
  <2>1. UNCHANGED period
    BY <1>9 DEF FinalizeStocktake
  <2>2. ASSUME NEW p \in PeriodIds, NEW j \in JournalIds, NEW lines \in LineLists,
               CommercialJournal(j, p, stocktake[s].date, lines, StocktakeSource(s))
        PROVE  AuditInv'
    BY <2>1, <2>2, AuditCommercial
  <2>3. CASE UNCHANGED <<journal, commands>>
    BY <1>1, <2>1, <2>3
  <2> QED
    BY <1>9, <2>2, <2>3 DEF FinalizeStocktake
<1>10. ASSUME NEW p \in PeriodIds,
              ClosePeriod(p) \/ \E start, end \in Dates : CreatePeriod(p, start, end)
       PROVE  AuditInv'
  <2>1. UNCHANGED journal
    BY <1>10 DEF ClosePeriod, CreatePeriod
  <2> QED
    BY <2>1, <1>10, AuditPeriod
<1>11. ASSUME \/ \E row \in AccountRows : AddAccount(row)
              \/ SeedDefaultChart
              \/ \E s \in StocktakeIds, w \in Warehouses, d \in Dates : NewStocktake(s, w, d)
              \/ UNCHANGED vars
       PROVE  UNCHANGED <<period, journal, commands>>
  BY <1>11 DEF AddAccount, SeedDefaultChart, NewStocktake, vars
<1> QED
  BY <1>1, <1>2, <1>3, <1>4, <1>5, <1>6, <1>7, <1>8, <1>9, <1>10, <1>11
     DEF Next, EditDraft, OtherCommand

-----------------------------------------------------------------------------
BookInv ==
  LedgerInv /\ CodesUnique /\ LinesOnLeaves /\ SessionSources /\ OpenStocktakeFinalizable
  /\ LinesGiven /\ AuditInv

LEMMA BookInvHolds == Spec => []BookInv
<1>1. Init /\ LedgerInv => BookInv
  <2> SUFFICES ASSUME Init, LedgerInv PROVE BookInv
    OBVIOUS
  <2>1. chart = {} /\ commands = {}
    BY DEF Init
  <2>2. \A j \in JournalIds : journal[j].status = "absent" /\ journal[j].reversedBy = None
    BY DEF Init, NoJournal, NewJournal
  <2>3. \A p \in PeriodIds : period[p].status = "absent"
    BY DEF Init, NoPeriod
  <2>4. \A s \in StocktakeIds : stocktake[s].status = "absent"
    BY DEF Init, NoStocktake
  <2>5. CodesUnique /\ LinesOnLeaves /\ SessionSources /\ OpenStocktakeFinalizable /\ LinesGiven
    BY <2>1, <2>2, <2>4 DEF CodesUnique, LinesOnLeaves, SessionSources, OpenStocktakeFinalizable,
                            LinesGiven, Live, SourceUsed
  <2>6. AuditInv
    BY <2>1, <2>2, <2>3 DEF AuditInv, PeriodsAudited, JournalAudited, ManualAudited,
                            CommercialAudited, PostedFrom, Posted, DraftsManual
  <2> QED
    BY <2>5, <2>6 DEF BookInv
<1>2. BookInv /\ LedgerInv' /\ [Next]_vars => BookInv'
  BY LeavesStep, SessionStep, BookGrows, AuditStep DEF BookInv, LedgerInv
<1> QED
  BY <1>1, <1>2, LedgerInvHolds, PTL DEF Spec

(* LinesOnLeaves: neither addAccount nor seedDefaultChart ever puts an     *)
(* account under one that has lines of a draft or posted journal.          *)
THEOREM LeavesCorrect == Spec => []LinesOnLeaves
  BY BookInvHolds, PTL DEF BookInv

(* OpenStocktakeFinalizable: whatever is closed or posted meanwhile, an    *)
(* open session keeps an open period, its warehouse and its journal source.*)
THEOREM SessionsCorrect == Spec => []OpenStocktakeFinalizable
  BY BookInvHolds, PTL DEF BookInv

(* AuditMatchesState: a commandKey is spent exactly when its effect is in  *)
(* the stores.                                                             *)
THEOREM AuditCorrect == Spec => []AuditMatchesState
<1>1. BookInv => AuditMatchesState
  BY DEF BookInv, AuditInv, AuditMatchesState, PeriodsAudited, JournalAudited, ManualAudited,
         CommercialAudited, PostedFrom
<1> QED
  BY <1>1, BookInvHolds, PTL

(* AppendOnlyBook: the ledger implements PostedBook, so what is posted     *)
(* stays as posted and what is closed stays closed.                        *)
THEOREM BookCorrect == Spec => AppendOnlyBook
<1>1. Init => Book!BookInit
  <2> SUFFICES ASSUME Init PROVE Book!BookInit
    OBVIOUS
  <2>1. \A j \in JournalIds : ~Posted(j)
    BY DEF Init, NoJournal, NewJournal, Posted
  <2>2. \A p \in PeriodIds : period[p].status # "closed"
    BY DEF Init, NoPeriod
  <2> QED
    BY <2>1, <2>2 DEF Book!BookInit
<1>2. BookInv /\ [Next]_vars => [Book!BookNext]_(Book!bookVars)
  <2> SUFFICES ASSUME BookInv, [Next]_vars PROVE [Book!BookNext]_(Book!bookVars)
    OBVIOUS
  <2>1. Book!BookNext \/ UNCHANGED <<PostedRows, Locked>>
    BY BookStep DEF BookInv, LedgerInv
  <2> QED
    BY <2>1 DEF Book!bookVars, PostedRows, PostedRow, Locked
<1> QED
  BY <1>1, <1>2, BookInvHolds, PTL DEF Spec, AppendOnlyBook, Book!BookSpec

(* PeriodsHold: what is in a closed period is posted, journals are dated   *)
(* inside their period and no other, and open counts can be finished.      *)
THEOREM PeriodsCorrect == Spec => []PeriodsHold
  BY ClosedPeriodCorrect, DatesCorrect, SessionsCorrect, PTL DEF PeriodsHold

(* PostingsSound: every posting is balanced, on leaves of the chart, and   *)
(* the only one of its source.                                             *)
THEOREM PostingsCorrect == Spec => []PostingsSound
  BY BalanceCorrect, LeavesCorrect, SourceCorrect, PTL DEF PostingsSound

-----------------------------------------------------------------------------
(* The trial balance of a closed period.                                   *)

LEMMA ChartGrows ==
  ASSUME [Next]_vars
  PROVE  chart \subseteq chart'
  BY ChartSummary DEF AddAccount, SeedDefaultChart

PostedIn(p) == {j \in JournalIds : Posted(j) /\ journal[j].period = p}

LinesOf(j) ==
  {[id |-> <<j, i>>, account |-> journal[j].lines[i].account,
    amount |-> journal[j].lines[i].amount] : i \in DOMAIN journal[j].lines}

LEMMA TurnoverAccounts ==
  ASSUME NEW lines
  PROVE  DOMAIN TurnoverOf(lines) = {line.account : line \in lines}
  BY DEF TurnoverOf

(* What is posted in a closed period is neither added to nor altered, and  *)
(* its accounts are in the chart already.                                  *)
LEMMA ClosedReportStep ==
  ASSUME BookInv, [Next]_vars, NEW p \in PeriodIds, period[p].status = "closed"
  PROVE  TrialBalance(p)' = TrialBalance(p)
<1> DEFINE lines == LinesIn(PostedIn(p))
           codes == {row.code : row \in chart}
<1>1. PostsNone \/ \E j \in JournalIds : PostsOne(j)
  BY BookGrows DEF BookInv, LedgerInv
<1>2. PostedIn(p)' = PostedIn(p) /\ \A j \in PostedIn(p) : journal'[j].lines = journal[j].lines
  BY <1>1 DEF PostsNone, PostsOne, PostedIn, Posted
<1>3. lines' = lines
  <2>1. \A j \in PostedIn(p) : LinesOf(j)' = LinesOf(j)
    BY <1>2 DEF LinesOf
  <2>2. lines = UNION {LinesOf(j) : j \in PostedIn(p)}
    BY DEF LinesIn, LinesOf
  <2>3. lines' = UNION {LinesOf(j)' : j \in PostedIn(p)}
    BY <1>2 DEF LinesIn, LinesOf
  <2> QED
    BY <2>1, <2>2, <2>3
<1>4. \A line \in lines : line.account \in codes
  BY DEF LinesIn, PostedIn, BookInv, LinesOnLeaves, Live, Posted
<1>5. codes \subseteq codes'
  BY ChartGrows
<1>6. TrialBalance(p) = [a \in codes \cap DOMAIN TurnoverOf(lines) |-> TurnoverOf(lines)[a]]
  BY DEF TrialBalance, Turnover, PostedIn
<1>7. TrialBalance(p)' = [a \in codes' \cap DOMAIN TurnoverOf(lines') |-> TurnoverOf(lines')[a]]
  BY DEF TrialBalance, Turnover, PostedIn
<1> HIDE DEF lines, codes
<1>8. DOMAIN TurnoverOf(lines) \subseteq codes
  <2>1. DOMAIN TurnoverOf(lines) = {line.account : line \in lines}
    BY TurnoverAccounts
  <2> QED
    BY <1>4, <2>1
<1>9. codes' \cap DOMAIN TurnoverOf(lines) = codes \cap DOMAIN TurnoverOf(lines)
  BY <1>5, <1>8
<1> QED
  BY <1>3, <1>6, <1>7, <1>9

(* ClosedReportFrozen: no command, and no reversal of its journals, ever   *)
(* changes the trial balance of a closed period.                           *)
THEOREM ReportsFrozen == Spec => ClosedReportFrozen
<1>1. BookInv /\ [Next]_vars =>
        [\A p \in PeriodIds : period[p].status = "closed" => TrialBalance(p)' = TrialBalance(p)]_vars
  BY ClosedReportStep
<1> QED
  BY <1>1, BookInvHolds, PTL DEF Spec, ClosedReportFrozen

-----------------------------------------------------------------------------
(* What the reports say of finitely many lines: each figure is the sum of  *)
(* the lines it stands for.                                                *)

\* Lines that can be added up.
Counted(lines) == IsFiniteSet(lines) /\ \A line \in lines : line.amount \in Int

AmountsOf(lines) == [line \in lines |-> line.amount]

\* What the accounts of a type are debited with in a set of lines.
OfType(lines, type) == {line \in lines : TypeOf(line.account) = type}
Net(lines, type) == SumFunction(AmountsOf(OfType(lines, type)))

\* What is zero adds nothing.
LEMMA SumWhere ==
  ASSUME NEW S, IsFiniteSet(S), NEW f, DOMAIN f = S, \A x \in S : f[x] \in Int,
         NEW T \in SUBSET S, \A x \in S \ T : f[x] = 0
  PROVE  SumFunction(f) = SumFunction(On(f, T))
<1>1. IsFiniteSet(T) /\ IsFiniteSet(S \ T) /\ T \cap (S \ T) = {} /\ T \cup (S \ T) = S
  BY FS_Subset
<1>2. SumFunction(f) = SumFunction(On(f, T)) + SumFunction(On(f, S \ T))
  BY <1>1, SumSplits
<1>3. DOMAIN On(f, S \ T) = S \ T /\ \A x \in S \ T : On(f, S \ T)[x] = 0
  BY DEF On
<1>4. SumFunction(On(f, S \ T)) = 0
  BY <1>1, <1>3, SumZero
<1>5. DOMAIN On(f, T) = T /\ \A x \in T : On(f, T)[x] \in Int
  BY DEF On
<1>6. SumFunction(On(f, T)) \in Int
  BY <1>1, <1>5, SumInt
<1> QED
  BY <1>2, <1>4, <1>6

LEMMA AmountsInt ==
  ASSUME NEW lines, Counted(lines)
  PROVE  SumFunction(AmountsOf(lines)) \in Int
<1>1. DOMAIN AmountsOf(lines) = lines /\ \A line \in lines : AmountsOf(lines)[line] \in Int
  BY DEF AmountsOf, Counted
<1> QED
  BY <1>1, SumInt DEF Counted

LEMMA CountedPart ==
  ASSUME NEW lines, Counted(lines), NEW part \in SUBSET lines
  PROVE  Counted(part)
  BY FS_Subset DEF Counted

\* The turnover of an account is what its lines come to.
LEMMA AccountNet ==
  ASSUME NEW lines, Counted(lines), NEW a \in {line.account : line \in lines}
  PROVE  /\ TurnoverOf(lines)[a].debit \in Int /\ TurnoverOf(lines)[a].credit \in Int
         /\ TurnoverOf(lines)[a].debit - TurnoverOf(lines)[a].credit =
              SumFunction(AmountsOf({line \in lines : line.account = a}))
<1> DEFINE own == {line \in lines : line.account = a}
           debits == {line \in lines : line.account = a /\ 1 * line.amount > 0}
           credits == {line \in lines : line.account = a /\ (-1) * line.amount > 0}
           debit == [line \in debits |-> 1 * line.amount]
           credit == [line \in credits |-> (-1) * line.amount]
           up == [line \in own |-> IF 1 * line.amount > 0 THEN 1 * line.amount ELSE 0]
           down == [line \in own |-> IF (-1) * line.amount > 0 THEN (-1) * line.amount ELSE 0]
<1>1. /\ TurnoverOf(lines)[a].debit = SumFunction(debit)
      /\ TurnoverOf(lines)[a].credit = SumFunction(credit)
  BY DEF TurnoverOf
<1>2. /\ own \subseteq lines /\ debits \in SUBSET own /\ credits \in SUBSET own
      /\ IsFiniteSet(own) /\ Counted(own)
  BY CountedPart DEF Counted
<1>3. /\ DOMAIN up = own /\ DOMAIN down = own
      /\ \A line \in own : /\ up[line] \in Int /\ down[line] \in Int
                           /\ AmountsOf(own)[line] = up[line] - down[line]
      /\ \A line \in own \ debits : up[line] = 0
      /\ \A line \in own \ credits : down[line] = 0
  BY <1>2 DEF Counted, AmountsOf
<1>4. On(up, debits) = debit /\ On(down, credits) = credit
  BY <1>2 DEF On
<1>5. DOMAIN AmountsOf(own) = own
  BY DEF AmountsOf
<1> HIDE DEF own, debits, credits, debit, credit, up, down
<1>6. SumFunction(up) = SumFunction(debit) /\ SumFunction(down) = SumFunction(credit)
  BY <1>2, <1>3, <1>4, SumWhere
<1>7. SumFunction(AmountsOf(own)) = SumFunction(up) - SumFunction(down)
  BY <1>2, <1>3, <1>5, SumMinus
<1>8. SumFunction(up) \in Int /\ SumFunction(down) \in Int
  BY <1>2, <1>3, SumInt
<1> QED
  BY <1>1, <1>6, <1>7, <1>8 DEF own

\* Lines summed class by class, for the classes that g makes.
LEMMA ClassNets ==
  ASSUME NEW lines, Counted(lines), NEW A, IsFiniteSet(A), NEW g, \A line \in lines : g[line] \in A,
         NEW h, DOMAIN h = A, \A a \in A : h[a] = SumFunction(AmountsOf(Class(lines, g, a)))
  PROVE  SumFunction(h) = SumFunction(AmountsOf(lines))
<1> DEFINE f == AmountsOf(lines)
<1>1. DOMAIN f = lines /\ \A line \in lines : f[line] \in Int
  BY DEF AmountsOf, Counted
<1>2. \A a \in A : On(f, Class(lines, g, a)) = AmountsOf(Class(lines, g, a))
  BY DEF On, AmountsOf, Class
<1>3. IsFiniteSet(lines)
  BY DEF Counted
<1> HIDE DEF f
<1>4. \A line \in lines : f[line] \in Int /\ g[line] \in A
  BY <1>1
<1>5. \A a \in A : h[a] = SumFunction(On(f, Class(lines, g, a)))
  BY <1>2
<1>6. ByClass(lines, A, f, g, h)
  BY <1>1, <1>3, <1>4, <1>5 DEF ByClass
<1>7. SumFunction(h) = SumFunction(f)
  BY <1>6, SumByClass
<1> QED
  BY <1>7 DEF f

\* A figure of the profit or of the balance sheet is the net of its lines.
LEMMA BalanceNet ==
  ASSUME NEW lines, Counted(lines), NEW type
  PROVE  BalanceOf(TurnoverOf(lines), type) = Net(lines, type)
<1> DEFINE rows == TurnoverOf(lines)
           own == OfType(lines, type)
           accounts == {b \in DOMAIN rows : TypeOf(b) = type}
           account == [line \in own |-> line.account]
           balance == [a \in accounts |-> rows[a].debit - rows[a].credit]
<1>1. DOMAIN rows = {line.account : line \in lines}
  BY TurnoverAccounts
<1>2. own \in SUBSET lines /\ Counted(own) /\ IsFiniteSet(own)
  BY CountedPart DEF OfType, Counted
<1>3. accounts = {account[line] : line \in own}
  BY <1>1 DEF OfType
<1>4. IsFiniteSet(accounts)
  <2> HIDE DEF account, own, accounts
  <2> QED
    BY <1>2, <1>3, FiniteImage
<1>5. DOMAIN balance = accounts
  OBVIOUS
<1>6. \A line \in own : account[line] \in accounts
  BY <1>1 DEF OfType
<1>7. ASSUME NEW a \in accounts
      PROVE  balance[a] = SumFunction(AmountsOf(Class(own, account, a)))
  <2>1. a \in {line.account : line \in lines} /\ TypeOf(a) = type
    BY <1>1
  <2>2. balance[a] = SumFunction(AmountsOf({line \in lines : line.account = a}))
    BY <2>1, AccountNet
  <2>3. Class(own, account, a) = {line \in lines : line.account = a}
    BY <2>1 DEF OfType, Class
  <2> QED
    BY <2>2, <2>3
<1>8. BalanceOf(rows, type) = SumFunction(balance) /\ Net(lines, type) = SumFunction(AmountsOf(own))
  BY DEF BalanceOf, Net
<1> HIDE DEF rows, own, accounts, account, balance
<1>9. SumFunction(balance) = SumFunction(AmountsOf(own))
  BY <1>2, <1>4, <1>5, <1>6, <1>7, ClassNets
<1> QED
  BY <1>8, <1>9 DEF rows

\* Debits less credits of a whole report are the sum of its lines.
LEMMA RowsNet ==
  ASSUME NEW lines, Counted(lines)
  PROVE  /\ SumRows(TurnoverOf(lines)).debit \in Int /\ SumRows(TurnoverOf(lines)).credit \in Int
         /\ SumRows(TurnoverOf(lines)).debit - SumRows(TurnoverOf(lines)).credit =
              SumFunction(AmountsOf(lines))
<1> DEFINE rows == TurnoverOf(lines)
           accounts == DOMAIN rows
           account == [line \in lines |-> line.account]
           debit == [a \in accounts |-> rows[a].debit]
           credit == [a \in accounts |-> rows[a].credit]
           balance == [a \in accounts |-> rows[a].debit - rows[a].credit]
<1>1. accounts = {line.account : line \in lines}
  BY TurnoverAccounts
<1>2. IsFiniteSet(accounts)
  <2>1. accounts = {account[line] : line \in lines}
    BY <1>1
  <2> HIDE DEF account, accounts
  <2> QED
    BY <2>1, FiniteImage DEF Counted
<1>3. \A a \in accounts :
        /\ rows[a].debit \in Int /\ rows[a].credit \in Int
        /\ rows[a].debit - rows[a].credit =
             SumFunction(AmountsOf({line \in lines : line.account = a}))
  BY <1>1, AccountNet
<1>4. SumRows(rows).debit = SumFunction(debit) /\ SumRows(rows).credit = SumFunction(credit)
  BY DEF SumRows
<1>5. /\ DOMAIN debit = accounts /\ DOMAIN credit = accounts /\ DOMAIN balance = accounts
      /\ \A a \in accounts : debit[a] = rows[a].debit /\ credit[a] = rows[a].credit
                             /\ balance[a] = rows[a].debit - rows[a].credit
  OBVIOUS
<1>6. \A line \in lines : account[line] \in accounts
  BY <1>1
<1>7. ASSUME NEW a \in accounts
      PROVE  balance[a] = SumFunction(AmountsOf(Class(lines, account, a)))
  <2>1. Class(lines, account, a) = {line \in lines : line.account = a}
    BY DEF Class
  <2> QED
    BY <1>3, <2>1
<1> HIDE DEF rows, accounts, account, debit, credit, balance
<1>8. SumFunction(balance) = SumFunction(AmountsOf(lines))
  <2>1. DOMAIN balance = accounts
    BY <1>5
  <2> QED
    BY <1>2, <1>6, <1>7, <2>1, ClassNets
<1>9. SumFunction(balance) = SumFunction(debit) - SumFunction(credit)
  <2>1. \A a \in accounts : debit[a] \in Int /\ credit[a] \in Int /\ balance[a] = debit[a] - credit[a]
    BY <1>3, <1>5
  <2>2. DOMAIN debit = accounts /\ DOMAIN credit = accounts /\ DOMAIN balance = accounts
    BY <1>5
  <2> QED
    BY <1>2, <2>1, <2>2, SumMinus
<1>10. SumFunction(debit) \in Int /\ SumFunction(credit) \in Int
  BY <1>2, <1>3, <1>5, SumInt
<1> QED
  BY <1>4, <1>8, <1>9, <1>10 DEF rows

LEMMA FiniteTypes == IsFiniteSet(ACCOUNT_TYPES)
<1>1. IsFiniteSet({"asset"} \cup {"liability"})
  BY FS_Singleton, FS_AddElement
<1>2. IsFiniteSet(({"asset"} \cup {"liability"}) \cup {"equity"})
  BY <1>1, FS_AddElement
<1>3. IsFiniteSet((({"asset"} \cup {"liability"}) \cup {"equity"}) \cup {"revenue"})
  BY <1>2, FS_AddElement
<1>4. IsFiniteSet(((({"asset"} \cup {"liability"}) \cup {"equity"}) \cup {"revenue"}) \cup {"expense"})
  BY <1>3, FS_AddElement
<1>5. ((({"asset"} \cup {"liability"}) \cup {"equity"}) \cup {"revenue"}) \cup {"expense"} = ACCOUNT_TYPES
  BY DEF ACCOUNT_TYPES
<1> QED
  BY <1>4, <1>5

\* Five figures, one by one.
LEMMA SumOfTypes ==
  ASSUME NEW h, DOMAIN h = ACCOUNT_TYPES, \A type \in ACCOUNT_TYPES : h[type] \in Int
  PROVE  SumFunction(h) = h["asset"] + h["liability"] + h["equity"] + h["revenue"] + h["expense"]
<1> DEFINE S1 == {"asset"}
           S2 == S1 \cup {"liability"}
           S3 == S2 \cup {"equity"}
           S4 == S3 \cup {"revenue"}
<1>1. /\ ACCOUNT_TYPES = S4 \cup {"expense"}
      /\ "liability" \notin S1 /\ "equity" \notin S2 /\ "revenue" \notin S3 /\ "expense" \notin S4
  BY DEF ACCOUNT_TYPES
<1>2. IsFiniteSet(S1) /\ IsFiniteSet(S2) /\ IsFiniteSet(S3) /\ IsFiniteSet(S4)
  <2>1. IsFiniteSet(S1)
    BY FS_Singleton
  <2>2. IsFiniteSet(S2)
    BY <2>1, FS_AddElement
  <2>3. IsFiniteSet(S3)
    BY <2>2, FS_AddElement
  <2>4. IsFiniteSet(S4)
    BY <2>3, FS_AddElement
  <2> QED
    BY <2>1, <2>2, <2>3, <2>4
<1>3. S1 \subseteq S4 /\ S2 \subseteq S4 /\ S3 \subseteq S4
  OBVIOUS
<1>4. ASSUME NEW S \in SUBSET ACCOUNT_TYPES, IsFiniteSet(S), NEW x \in ACCOUNT_TYPES, x \notin S
      PROVE  SumFunction(On(h, S \cup {x})) = SumFunction(On(h, S)) + h[x]
  <2> DEFINE k == On(h, S \cup {x})
  <2>1. DOMAIN k = S \cup {x} /\ (\A y \in S \cup {x} : k[y] \in Int) /\ On(k, S) = On(h, S) /\ k[x] = h[x]
    BY <1>4 DEF On
  <2> HIDE DEF k
  <2>2. SumFunction(k) = SumFunction(On(h, S)) + h[x]
    BY <1>4, <2>1, SumExtends
  <2> QED
    BY <2>2 DEF k
<1>5. /\ "asset" \in ACCOUNT_TYPES /\ "liability" \in ACCOUNT_TYPES /\ "equity" \in ACCOUNT_TYPES
      /\ "revenue" \in ACCOUNT_TYPES /\ "expense" \in ACCOUNT_TYPES
  BY DEF ACCOUNT_TYPES
<1>6. SumFunction(On(h, S1)) = h["asset"]
  <2>1. DOMAIN On(h, S1) = {"asset"} /\ On(h, S1)["asset"] = h["asset"] /\ h["asset"] \in Int
    BY <1>5 DEF On
  <2> HIDE DEF S1
  <2> QED
    BY <2>1, SumOne
<1>7. SumFunction(h) = SumFunction(On(h, S4 \cup {"expense"}))
  <2>1. IsFiniteSet(S4 \cup {"expense"}) /\ DOMAIN h = S4 \cup {"expense"}
    BY <1>1, <1>2, FS_AddElement
  <2> HIDE DEF S4
  <2> QED
    BY <2>1, SumDomain, SumOn
<1> HIDE DEF S1, S2, S3, S4
<1>8. SumFunction(On(h, S4 \cup {"expense"})) = SumFunction(On(h, S4)) + h["expense"]
  BY <1>1, <1>2, <1>4, <1>5
<1>9. SumFunction(On(h, S4)) = SumFunction(On(h, S3)) + h["revenue"]
  BY <1>1, <1>2, <1>3, <1>4, <1>5 DEF S4
<1>10. SumFunction(On(h, S3)) = SumFunction(On(h, S2)) + h["equity"]
  BY <1>1, <1>2, <1>3, <1>4, <1>5 DEF S3, S4
<1>11. SumFunction(On(h, S2)) = SumFunction(On(h, S1)) + h["liability"]
  BY <1>1, <1>2, <1>3, <1>4, <1>5 DEF S2, S3, S4
<1> QED
  BY <1>6, <1>7, <1>8, <1>9, <1>10, <1>11

\* Of lines on accounts of the five types, the figures of the types are all.
LEMMA TypesNet ==
  ASSUME NEW lines, Counted(lines), \A line \in lines : TypeOf(line.account) \in ACCOUNT_TYPES
  PROVE  /\ \A type \in ACCOUNT_TYPES : Net(lines, type) \in Int
         /\ SumFunction(AmountsOf(lines)) =
              Net(lines, "asset") + Net(lines, "liability") + Net(lines, "equity")
              + Net(lines, "revenue") + Net(lines, "expense")
<1> DEFINE h == [type \in ACCOUNT_TYPES |-> Net(lines, type)]
           class == [line \in lines |-> TypeOf(line.account)]
<1>1. ASSUME NEW type \in ACCOUNT_TYPES
      PROVE  h[type] \in Int /\ h[type] = SumFunction(AmountsOf(Class(lines, class, type)))
  <2>1. Class(lines, class, type) = OfType(lines, type)
    BY DEF Class, OfType
  <2>2. Counted(OfType(lines, type))
    BY CountedPart DEF OfType
  <2> QED
    BY <2>1, <2>2, AmountsInt DEF Net
<1>2. DOMAIN h = ACCOUNT_TYPES
  OBVIOUS
<1>3. \A line \in lines : class[line] \in ACCOUNT_TYPES
  OBVIOUS
<1>4. IsFiniteSet(ACCOUNT_TYPES)
  BY FiniteTypes
<1>5. \A type \in ACCOUNT_TYPES : h[type] = Net(lines, type)
  OBVIOUS
<1>6. /\ "asset" \in ACCOUNT_TYPES /\ "liability" \in ACCOUNT_TYPES /\ "equity" \in ACCOUNT_TYPES
      /\ "revenue" \in ACCOUNT_TYPES /\ "expense" \in ACCOUNT_TYPES
  BY DEF ACCOUNT_TYPES
<1> HIDE DEF h, class
<1>7. SumFunction(h) = SumFunction(AmountsOf(lines))
  BY <1>1, <1>2, <1>3, <1>4, ClassNets
<1>8. SumFunction(h) = h["asset"] + h["liability"] + h["equity"] + h["revenue"] + h["expense"]
  BY <1>1, <1>2, SumOfTypes
<1> QED
  BY <1>1, <1>5, <1>6, <1>7, <1>8

-----------------------------------------------------------------------------
(* Reports cover journals that are posted, finitely many, on accounts of   *)
(* the five types.                                                         *)

PostedNow == {j \in JournalIds : Posted(j)}

ChartTyped == \A row \in chart : row.type \in ACCOUNT_TYPES

Few == IsFiniteSet(PostedNow) /\ IsFiniteSet(Existing)

PeriodsDated ==
  \A p \in Existing :
    period[p].start \in Dates /\ period[p].end \in Dates /\ period[p].start <= period[p].end

ReportInv == BookInv /\ ChartTyped /\ PeriodsDated /\ Few

LEMMA LinesOfOne ==
  ASSUME TypeOK, NEW j \in JournalIds
  PROVE  /\ Counted(LinesOf(j)) /\ \A line \in LinesOf(j) : line.id[1] = j
         /\ SumFunction(AmountsOf(LinesOf(j))) = Total(journal[j].lines)
<1> DEFINE lines == journal[j].lines
           D == DOMAIN lines
           e == [i \in D |-> [id |-> <<j, i>>, account |-> lines[i].account, amount |-> lines[i].amount]]
           f == [i \in D |-> lines[i].amount]
           g == AmountsOf(LinesOf(j))
<1>1. lines \in Seq(Line)
  BY DEF TypeOK
<1>2. D = 1 .. Len(lines) /\ Len(lines) \in Nat /\ \A i \in D : lines[i].amount \in Int
  <2>1. D = 1 .. Len(lines) /\ Len(lines) \in Nat /\ \A i \in D : lines[i] \in Line
    BY <1>1
  <2>2. \A x \in Line : x.amount \in Int
    BY DEF Line
  <2> HIDE DEF lines
  <2> QED
    BY <2>1, <2>2
<1>3. IsFiniteSet(D)
  BY <1>2, FS_Interval
<1>4. LinesOf(j) = {e[i] : i \in D}
  BY DEF LinesOf
<1>5. \A i \in D : e[i].id = <<j, i>> /\ e[i].amount = lines[i].amount
  OBVIOUS
<1>6. \A x, y \in D : e[x] = e[y] => x = y
  BY <1>5
<1>7. DOMAIN f = D /\ \A i \in D : f[i] = lines[i].amount
  OBVIOUS
<1>8. DOMAIN g = LinesOf(j) /\ \A line \in LinesOf(j) : g[line] = line.amount
  BY DEF AmountsOf
<1>9. Total(lines) = SumFunction(f)
  BY DEF Total
<1> HIDE DEF D, e, f, g
<1>10. IsFiniteSet(LinesOf(j))
  BY <1>3, <1>4, FiniteImage
<1>11. \A line \in LinesOf(j) : line.amount \in Int /\ line.id[1] = j
  BY <1>2, <1>4, <1>5
<1>12. /\ \A i \in D : f[i] \in Int
       /\ DOMAIN g = {e[i] : i \in D} /\ \A i \in D : g[e[i]] = f[i]
  BY <1>2, <1>4, <1>5, <1>7, <1>8
<1>13. SumFunction(g) = SumFunction(f)
  BY <1>3, <1>6, <1>7, <1>12, SumRenamed
<1> QED
  BY <1>9, <1>10, <1>11, <1>13 DEF Counted, g

LEMMA LinesOfAll ==
  ASSUME TypeOK, NEW js \in SUBSET JournalIds
  PROVE  LinesIn(js) = UNION {LinesOf(j) : j \in js}
  BY DEF LinesIn, LinesOf

LEMMA LinesCounted ==
  ASSUME TypeOK, NEW js \in SUBSET JournalIds, IsFiniteSet(js)
  PROVE  /\ Counted(LinesIn(js))
         /\ \A line \in LinesIn(js) : line.id[1] \in js /\ line \in LinesOf(line.id[1])
<1> DEFINE of == [j \in js |-> LinesOf(j)]
<1>1. LinesIn(js) = UNION {of[j] : j \in js} /\ \A j \in js : of[j] = LinesOf(j)
  BY LinesOfAll
<1>2. \A j \in js : Counted(LinesOf(j)) /\ \A line \in LinesOf(j) : line.id[1] = j
  BY LinesOfOne
<1> HIDE DEF of
<1>3. IsFiniteSet({of[j] : j \in js})
  BY FiniteImage
<1>4. \A L \in {of[j] : j \in js} : IsFiniteSet(L)
  BY <1>1, <1>2 DEF Counted
<1>5. IsFiniteSet(LinesIn(js))
  BY <1>1, <1>3, <1>4, FS_UNION
<1>6. \A line \in LinesIn(js) : \E j \in js : line \in LinesOf(j)
  BY <1>1
<1> QED
  BY <1>2, <1>5, <1>6 DEF Counted

\* The lines of posted journals cancel.
LEMMA PostedCancel ==
  ASSUME ReportInv, NEW js \in SUBSET PostedNow
  PROVE  IsFiniteSet(js) /\ Counted(LinesIn(js)) /\ SumFunction(AmountsOf(LinesIn(js))) = 0
<1>1. TypeOK /\ js \subseteq JournalIds /\ IsFiniteSet(js) /\ \A j \in js : Total(journal[j].lines) = 0
  BY FS_Subset DEF ReportInv, BookInv, LedgerInv, PostedBalanced, Balanced, Few, PostedNow
<1> DEFINE h == [j \in js |-> 0]
           class == [line \in LinesIn(js) |-> line.id[1]]
<1>2. /\ Counted(LinesIn(js))
      /\ \A line \in LinesIn(js) : line.id[1] \in js /\ line \in LinesOf(line.id[1])
  BY <1>1, LinesCounted
<1>3. \A j \in js : Class(LinesIn(js), class, j) = LinesOf(j)
  <2> SUFFICES ASSUME NEW j \in js PROVE Class(LinesIn(js), class, j) = LinesOf(j)
    OBVIOUS
  <2>1. LinesOf(j) \subseteq LinesIn(js)
    BY <1>1, LinesOfAll
  <2>2. \A line \in LinesOf(j) : line.id[1] = j
    BY <1>1, LinesOfOne
  <2> QED
    BY <1>2, <2>1, <2>2 DEF Class
<1>4. \A j \in js : h[j] = SumFunction(AmountsOf(Class(LinesIn(js), class, j)))
  BY <1>1, <1>3, LinesOfOne
<1>5. /\ DOMAIN h = js /\ \A j \in js : h[j] = 0
      /\ \A line \in LinesIn(js) : class[line] \in js
  BY <1>2
<1> HIDE DEF h, class
<1>6. SumFunction(h) = SumFunction(AmountsOf(LinesIn(js)))
  BY <1>1, <1>2, <1>4, <1>5, ClassNets
<1>7. SumFunction(h) = 0
  BY <1>1, <1>5, SumZero
<1> QED
  BY <1>1, <1>2, <1>6, <1>7

\* Posted lines lie on accounts of the five types.
LEMMA PostedTyped ==
  ASSUME ReportInv, NEW js \in SUBSET PostedNow, NEW line \in LinesIn(js)
  PROVE  line.account \in {row.code : row \in chart} /\ TypeOf(line.account) \in ACCOUNT_TYPES
<1>1. PICK j \in js : line \in LinesOf(j)
  BY LinesOfAll DEF ReportInv, BookInv, LedgerInv, PostedNow
<1>2. PICK i \in DOMAIN journal[j].lines : line.account = journal[j].lines[i].account
  BY <1>1 DEF LinesOf
<1>3. PICK row \in chart : row.code = line.account
  BY <1>2 DEF ReportInv, BookInv, LinesOnLeaves, PostedNow, Posted, Live
<1>4. (CHOOSE a \in chart : a.code = line.account) \in chart
  BY <1>3
<1> QED
  BY <1>3, <1>4 DEF TypeOf, ReportInv, ChartTyped

Figure(js, type) == BalanceOf(Turnover(js), type)

\* What the reports say of posted journals.
LEMMA Figures ==
  ASSUME ReportInv, NEW js \in SUBSET PostedNow
  PROVE  /\ \A type \in ACCOUNT_TYPES :
              Figure(js, type) \in Int /\ Figure(js, type) = Net(LinesIn(js), type)
         /\ Figure(js, "asset") + Figure(js, "liability") + Figure(js, "equity")
              + Figure(js, "revenue") + Figure(js, "expense") = 0
         /\ SumRows(Turnover(js)).debit = SumRows(Turnover(js)).credit
<1>1. Counted(LinesIn(js)) /\ SumFunction(AmountsOf(LinesIn(js))) = 0
  BY PostedCancel
<1>2. \A line \in LinesIn(js) : TypeOf(line.account) \in ACCOUNT_TYPES
  BY PostedTyped
<1>3. \A type \in ACCOUNT_TYPES : Figure(js, type) = Net(LinesIn(js), type)
  BY <1>1, BalanceNet DEF Figure, Turnover
<1>4. /\ \A type \in ACCOUNT_TYPES : Net(LinesIn(js), type) \in Int
      /\ Net(LinesIn(js), "asset") + Net(LinesIn(js), "liability") + Net(LinesIn(js), "equity")
           + Net(LinesIn(js), "revenue") + Net(LinesIn(js), "expense") = 0
  BY <1>1, <1>2, TypesNet
<1>5. SumRows(Turnover(js)).debit = SumRows(Turnover(js)).credit
  <2>1. /\ SumRows(Turnover(js)).debit \in Int /\ SumRows(Turnover(js)).credit \in Int
        /\ SumRows(Turnover(js)).debit - SumRows(Turnover(js)).credit = 0
    BY <1>1, RowsNet DEF Turnover
  <2> QED
    BY <2>1
<1> QED
  BY <1>3, <1>4, <1>5 DEF ACCOUNT_TYPES

\* Journals of two sets of which none is in both.
LEMMA FiguresAdd ==
  ASSUME ReportInv, NEW js \in SUBSET PostedNow, NEW ks \in SUBSET PostedNow, js \cap ks = {},
         NEW type \in ACCOUNT_TYPES
  PROVE  Figure(js \cup ks, type) = Figure(js, type) + Figure(ks, type)
<1> DEFINE J == OfType(LinesIn(js), type)
           K == OfType(LinesIn(ks), type)
           f == AmountsOf(J \cup K)
<1>1. TypeOK /\ js \subseteq JournalIds /\ ks \subseteq JournalIds /\ js \cup ks \in SUBSET PostedNow
  BY DEF ReportInv, BookInv, LedgerInv, PostedNow
<1>2. /\ Counted(LinesIn(js)) /\ Counted(LinesIn(ks))
      /\ \A line \in LinesIn(js) : line.id[1] \in js
      /\ \A line \in LinesIn(ks) : line.id[1] \in ks
  BY <1>1, PostedCancel, LinesCounted
<1>3. Counted(J) /\ Counted(K)
  BY <1>2, CountedPart DEF OfType
<1>4. J \cap K = {}
  BY <1>2 DEF OfType
<1>5. OfType(LinesIn(js \cup ks), type) = J \cup K
  BY DEF LinesIn, OfType
<1>6. Net(LinesIn(js \cup ks), type) = SumFunction(f)
  BY <1>5 DEF Net
<1>7. On(f, J) = AmountsOf(J) /\ On(f, K) = AmountsOf(K) /\ DOMAIN f = J \cup K
  BY DEF On, AmountsOf
<1>8. \A line \in J \cup K : f[line] \in Int
  BY <1>3 DEF AmountsOf, Counted
<1>9. IsFiniteSet(J) /\ IsFiniteSet(K)
  BY <1>3 DEF Counted
<1>10. /\ Figure(js \cup ks, type) = Net(LinesIn(js \cup ks), type)
       /\ Figure(js, type) = Net(LinesIn(js), type) /\ Figure(ks, type) = Net(LinesIn(ks), type)
  BY <1>1, Figures
<1>11. Net(LinesIn(js), type) = SumFunction(AmountsOf(J)) /\ Net(LinesIn(ks), type) = SumFunction(AmountsOf(K))
  BY DEF Net
<1> HIDE DEF J, K, f
<1>12. SumFunction(f) = SumFunction(On(f, J)) + SumFunction(On(f, K))
  BY <1>4, <1>7, <1>8, <1>9, SumSplits
<1> QED
  BY <1>6, <1>7, <1>10, <1>11, <1>12

\* The report of a filter, in figures.
LEMMA ReportFigures ==
  ASSUME ReportInv, NEW f, Selected(f) \subseteq PostedNow, PostedUpTo(f) \subseteq PostedNow
  PROVE  LET r == BuildReports(f)
             equity == -Figure(PostedUpTo(f), "revenue") - Figure(PostedUpTo(f), "expense")
                       - Figure(PostedUpTo(f), "equity")
         IN  /\ r.trial = Turnover(Selected(f))
             /\ r.totals = SumRows(Turnover(Selected(f)))
             /\ r.cumulativeTotals = SumRows(Turnover(PostedUpTo(f)))
             /\ r.profitLoss = ComputePL(Turnover(Selected(f)))
             /\ r.profitLoss.netProfit = -Figure(Selected(f), "revenue") - Figure(Selected(f), "expense")
             /\ r.balanceSheet.equityWithProfit = equity
             /\ r.balanceSheet.difference =
                  Figure(PostedUpTo(f), "asset") + Figure(PostedUpTo(f), "liability") - equity
<1>1. \A js \in SUBSET PostedNow : \A type \in ACCOUNT_TYPES : Figure(js, type) \in Int
  BY Figures
<1>2. /\ "asset" \in ACCOUNT_TYPES /\ "liability" \in ACCOUNT_TYPES /\ "equity" \in ACCOUNT_TYPES
      /\ "revenue" \in ACCOUNT_TYPES /\ "expense" \in ACCOUNT_TYPES
  BY DEF ACCOUNT_TYPES
<1>3. \A js \in SUBSET PostedNow :
        ComputePL(Turnover(js)).netProfit = -Figure(js, "revenue") - Figure(js, "expense")
  BY <1>1, <1>2 DEF ComputePL, Figure
<1>4. ASSUME NEW js \in SUBSET PostedNow
      PROVE  LET equity == -Figure(js, "revenue") - Figure(js, "expense") - Figure(js, "equity")
             IN  /\ BalanceSheet(Turnover(js)).equityWithProfit = equity
                 /\ BalanceSheet(Turnover(js)).difference =
                      Figure(js, "asset") + Figure(js, "liability") - equity
  <2> DEFINE b == BalanceSheet(Turnover(js))
  <2>1. /\ b.equityWithProfit = ComputePL(Turnover(js)).netProfit - Figure(js, "equity")
        /\ b.difference = Figure(js, "asset") - (-Figure(js, "liability")) - b.equityWithProfit
    BY DEF BalanceSheet, Figure
  <2> HIDE DEF b
  <2>2. /\ Figure(js, "asset") \in Int /\ Figure(js, "liability") \in Int /\ Figure(js, "equity") \in Int
        /\ Figure(js, "revenue") \in Int /\ Figure(js, "expense") \in Int
    BY <1>1, <1>2
  <2>3. ComputePL(Turnover(js)).netProfit = -Figure(js, "revenue") - Figure(js, "expense")
    BY <1>3
  <2> QED
    BY <2>1, <2>2, <2>3 DEF b
<1>5. /\ BuildReports(f).trial = Turnover(Selected(f))
      /\ BuildReports(f).totals = SumRows(Turnover(Selected(f)))
      /\ BuildReports(f).cumulativeTotals = SumRows(Turnover(PostedUpTo(f)))
      /\ BuildReports(f).profitLoss = ComputePL(Turnover(Selected(f)))
      /\ BuildReports(f).balanceSheet = BalanceSheet(Turnover(PostedUpTo(f)))
  BY DEF BuildReports
<1> QED
  BY <1>3, <1>4, <1>5

LEMMA FiltersTakePosted ==
  ASSUME NEW f
  PROVE  Selected(f) \subseteq PostedNow /\ PostedUpTo(f) \subseteq PostedNow
  BY DEF Selected, PostedUpTo, PostedNow

LEMMA ReportsBalance ==
  ASSUME ReportInv
  PROVE  EveryReportBalances
<1> SUFFICES ASSUME NEW f
             PROVE  LET r == BuildReports(f)
                    IN  /\ r.totals.debit = r.totals.credit
                        /\ r.cumulativeTotals.debit = r.cumulativeTotals.credit
                        /\ r.balanceSheet.difference = 0
  BY DEF EveryReportBalances
<1> DEFINE cs == PostedUpTo(f)
           r == BuildReports(f)
<1>1. Selected(f) \in SUBSET PostedNow /\ cs \in SUBSET PostedNow
  BY FiltersTakePosted
<1>2. /\ r.totals = SumRows(Turnover(Selected(f)))
      /\ r.cumulativeTotals = SumRows(Turnover(cs))
      /\ r.balanceSheet.difference =
           Figure(cs, "asset") + Figure(cs, "liability")
           - (-Figure(cs, "revenue") - Figure(cs, "expense") - Figure(cs, "equity"))
  BY <1>1, ReportFigures
<1>3. r.totals.debit = r.totals.credit /\ r.cumulativeTotals.debit = r.cumulativeTotals.credit
  BY <1>1, <1>2, Figures
<1>4. /\ Figure(cs, "asset") \in Int /\ Figure(cs, "liability") \in Int /\ Figure(cs, "equity") \in Int
      /\ Figure(cs, "revenue") \in Int /\ Figure(cs, "expense") \in Int
      /\ Figure(cs, "asset") + Figure(cs, "liability") + Figure(cs, "equity")
           + Figure(cs, "revenue") + Figure(cs, "expense") = 0
  BY <1>1, Figures DEF ACCOUNT_TYPES
<1> HIDE DEF cs, r
<1>5. r.balanceSheet.difference = 0
  BY <1>2, <1>4
<1> QED
  BY <1>3, <1>5 DEF r

\* The journals of a period are those dated in it.
LEMMA NamedIsDated ==
  ASSUME ReportInv, NEW p \in Existing
  PROVE  /\ p \in PeriodIds /\ period[p].start \in Nat \ {0} /\ period[p].end \in Nat \ {0}
         /\ period[p].start <= period[p].end
         /\ \A j \in PostedNow :
              /\ journal[j].date \in Nat /\ journal[j].period \in Existing
              /\ journal[j].period = p
                   <=> period[p].start <= journal[j].date /\ journal[j].date <= period[p].end
<1>1. /\ p \in PeriodIds /\ period[p].status # "absent"
      /\ period[p].start \in Nat \ {0} /\ period[p].end \in Nat \ {0}
      /\ period[p].start <= period[p].end
  BY LedgerAssumption DEF ReportInv, PeriodsDated, Existing
<1>2. ASSUME NEW j \in PostedNow
      PROVE  /\ journal[j].date \in Nat /\ journal[j].period \in Existing
             /\ journal[j].period = p
                  <=> period[p].start <= journal[j].date /\ journal[j].date <= period[p].end
  <2> DEFINE q == journal[j].period
             d == journal[j].date
  <2>1. d \in Dates \cup {0}
    BY DEF ReportInv, BookInv, LedgerInv, TypeOK, PostedNow
  <2>2. /\ q \in PeriodIds /\ period[q].status # "absent"
        /\ period[q].start <= d /\ d <= period[q].end
        /\ p # q => period[p].end < period[q].start \/ period[q].end < period[p].start
    BY <1>1 DEF ReportInv, BookInv, LedgerInv, DatedInPeriod, PostedNow, Posted, Live, InPeriod
  <2>3. q \in Existing /\ d \in Nat
    <3>1. q \in Existing
      BY <2>2 DEF Existing
    <3>2. Dates \cup {0} \subseteq Nat
      BY LedgerAssumption
    <3> HIDE DEF d
    <3> QED
      BY <2>1, <3>1, <3>2
  <2>4. period[q].start \in Nat /\ period[q].end \in Nat
    BY <2>3, LedgerAssumption DEF ReportInv, PeriodsDated
  <2> HIDE DEF q, d
  <2>5. q = p <=> period[p].start <= d /\ d <= period[p].end
    <3>1. CASE q = p
      BY <2>2, <3>1
    <3>2. CASE q # p
      <4>1. period[p].end < period[q].start \/ period[q].end < period[p].start
        BY <2>2, <3>2
      <4> QED
        BY <1>1, <2>2, <2>3, <2>4, <3>2, <4>1
    <3> QED
      BY <3>1, <3>2
  <2> QED
    BY <2>3, <2>5 DEF q, d
<1> QED
  BY <1>1, <1>2

LEMMA EquityGrows ==
  ASSUME ReportInv
  PROVE  EquityGrowsByProfit
<1> SUFFICES ASSUME NEW p \in Existing
             PROVE  LET before == BuildReports([Whole EXCEPT !.to = period[p].start - 1])
                        after == BuildReports([OfPeriod(p) EXCEPT !.to = period[p].end])
                    IN  after.balanceSheet.equityWithProfit =
                          before.balanceSheet.equityWithProfit + after.profitLoss.netProfit
                          - BalanceOf(after.trial, "equity")
  BY DEF EquityGrowsByProfit
<1> DEFINE f == [Whole EXCEPT !.to = period[p].start - 1]
           g == [OfPeriod(p) EXCEPT !.to = period[p].end]
           js == PostedUpTo(f)
           ks == Selected(g)
           before == BuildReports(f)
           after == BuildReports(g)
<1>1. /\ p \in PeriodIds /\ period[p].start \in Nat \ {0} /\ period[p].end \in Nat \ {0}
      /\ period[p].start <= period[p].end
      /\ \A j \in PostedNow :
           /\ journal[j].date \in Nat
           /\ journal[j].period = p
                <=> period[p].start <= journal[j].date /\ journal[j].date <= period[p].end
  BY NamedIsDated
<1>2. f.to = period[p].start - 1 /\ g.period = p /\ g.from = NoDate /\ g.to = period[p].end
  BY DEF Whole, OfPeriod
<1>3. p # None /\ f.to # NoDate /\ g.to # NoDate
  BY <1>1, <1>2, LedgerAssumption DEF NoDate
<1>4. /\ js = {j \in PostedNow : journal[j].date <= period[p].start - 1}
      /\ PostedUpTo(g) = {j \in PostedNow : journal[j].date <= period[p].end}
      /\ ks = {j \in PostedNow : journal[j].date <= period[p].end /\ journal[j].period = p}
  BY <1>2, <1>3 DEF PostedUpTo, Selected, PostedNow
<1>5. js \in SUBSET PostedNow /\ ks \in SUBSET PostedNow /\ js \cap ks = {} /\ PostedUpTo(g) = js \cup ks
  BY <1>1, <1>4
<1>6. /\ before.balanceSheet.equityWithProfit =
           -Figure(js, "revenue") - Figure(js, "expense") - Figure(js, "equity")
      /\ after.balanceSheet.equityWithProfit =
           -Figure(js \cup ks, "revenue") - Figure(js \cup ks, "expense") - Figure(js \cup ks, "equity")
      /\ after.profitLoss.netProfit = -Figure(ks, "revenue") - Figure(ks, "expense")
      /\ BalanceOf(after.trial, "equity") = Figure(ks, "equity")
  BY <1>5, FiltersTakePosted, ReportFigures DEF Figure
<1>7. "equity" \in ACCOUNT_TYPES /\ "revenue" \in ACCOUNT_TYPES /\ "expense" \in ACCOUNT_TYPES
  BY DEF ACCOUNT_TYPES
<1>8. \A type \in ACCOUNT_TYPES :
        /\ Figure(js, type) \in Int /\ Figure(ks, type) \in Int
        /\ Figure(js \cup ks, type) = Figure(js, type) + Figure(ks, type)
  BY <1>5, Figures, FiguresAdd
<1> HIDE DEF f, g, js, ks, before, after
<1>9. after.balanceSheet.equityWithProfit =
        before.balanceSheet.equityWithProfit + after.profitLoss.netProfit
        - BalanceOf(after.trial, "equity")
  <2>1. /\ Figure(js, "revenue") \in Int /\ Figure(ks, "revenue") \in Int
        /\ Figure(js \cup ks, "revenue") = Figure(js, "revenue") + Figure(ks, "revenue")
        /\ Figure(js, "expense") \in Int /\ Figure(ks, "expense") \in Int
        /\ Figure(js \cup ks, "expense") = Figure(js, "expense") + Figure(ks, "expense")
        /\ Figure(js, "equity") \in Int /\ Figure(ks, "equity") \in Int
        /\ Figure(js \cup ks, "equity") = Figure(js, "equity") + Figure(ks, "equity")
    BY <1>7, <1>8
  <2> QED
    BY <1>6, <2>1
<1> QED
  BY <1>9 DEF before, after, f, g

LEMMA PeriodIsDates ==
  ASSUME ReportInv
  PROVE  PeriodByDates
<1> SUFFICES ASSUME NEW p \in Existing
             PROVE  LET named == BuildReports(OfPeriod(p))
                        dated == BuildReports([period |-> None, from |-> period[p].start,
                                               to |-> period[p].end])
                    IN  /\ named.trial = dated.trial
                        /\ named.profitLoss = dated.profitLoss
                        /\ named.trial = TrialBalance(p)
  BY DEF PeriodByDates
<1> DEFINE f == OfPeriod(p)
           g == [period |-> None, from |-> period[p].start, to |-> period[p].end]
           rows == Turnover(PostedIn(p))
           codes == {row.code : row \in chart}
<1>1. /\ p \in PeriodIds /\ period[p].start \in Nat \ {0} /\ period[p].end \in Nat \ {0}
      /\ \A j \in PostedNow :
           /\ journal[j].date \in Nat
           /\ journal[j].period = p
                <=> period[p].start <= journal[j].date /\ journal[j].date <= period[p].end
  BY NamedIsDated
<1>2. /\ f.period = p /\ f.from = NoDate /\ f.to = NoDate /\ p # None
      /\ g.period = None /\ g.from = period[p].start /\ g.to = period[p].end
      /\ g.from # NoDate /\ g.to # NoDate
  BY <1>1, LedgerAssumption DEF Whole, OfPeriod, NoDate
<1>3. Selected(f) = PostedIn(p) /\ PostedIn(p) \in SUBSET PostedNow
  BY <1>2 DEF PostedUpTo, Selected, PostedNow, PostedIn
<1>4. Selected(g) = PostedIn(p)
  <2>1. Selected(g) = {j \in PostedNow : journal[j].date <= period[p].end
                                         /\ journal[j].date >= period[p].start}
    BY <1>2 DEF PostedUpTo, Selected, PostedNow
  <2>2. PostedIn(p) = {j \in PostedNow : journal[j].period = p}
    BY DEF PostedIn, PostedNow
  <2> QED
    BY <1>1, <2>1, <2>2
<1>5. /\ BuildReports(f).trial = rows /\ BuildReports(g).trial = rows
      /\ BuildReports(f).profitLoss = BuildReports(g).profitLoss
  BY <1>3, <1>4 DEF BuildReports
<1>6. DOMAIN rows \subseteq codes
  <2>1. DOMAIN rows = {line.account : line \in LinesIn(PostedIn(p))}
    BY TurnoverAccounts DEF Turnover
  <2>2. \A line \in LinesIn(PostedIn(p)) : line.account \in codes
    BY <1>3, PostedTyped
  <2> HIDE DEF rows, codes
  <2> QED
    BY <2>1, <2>2
<1>7. rows = [a \in DOMAIN rows |-> rows[a]]
  BY DEF Turnover, TurnoverOf
<1>8. TrialBalance(p) = [a \in codes \cap DOMAIN rows |-> rows[a]]
  BY DEF TrialBalance, PostedIn
<1>9. codes \cap DOMAIN rows = DOMAIN rows
  BY <1>6
<1> HIDE DEF f, g, rows, codes
<1>10. TrialBalance(p) = rows
  BY <1>7, <1>8, <1>9
<1> QED
  BY <1>5, <1>10 DEF f, g

\* Period by period a figure adds up to that of all the books.
LEMMA FigureByPeriod ==
  ASSUME ReportInv, NEW type \in ACCOUNT_TYPES
  PROVE  SumFunction([p \in Existing |-> Figure(PostedIn(p), type)]) = Figure(PostedNow, type)
<1> DEFINE lines == OfType(LinesIn(PostedNow), type)
           class == [line \in lines |-> journal[line.id[1]].period]
           h == [p \in Existing |-> Figure(PostedIn(p), type)]
<1>1. /\ TypeOK /\ PostedNow \in SUBSET JournalIds /\ IsFiniteSet(PostedNow) /\ IsFiniteSet(Existing)
      /\ \A p \in Existing : PostedIn(p) \in SUBSET PostedNow
  BY DEF ReportInv, BookInv, LedgerInv, Few, PostedNow, PostedIn
<1>2. /\ Counted(LinesIn(PostedNow))
      /\ \A line \in LinesIn(PostedNow) : line.id[1] \in PostedNow
  BY <1>1, LinesCounted
<1>3. \A j \in PostedNow : journal[j].period \in Existing
  BY DEF ReportInv, BookInv, LedgerInv, DatedInPeriod, Existing, PostedNow, Posted, Live
<1>4. Counted(lines)
  BY <1>2, CountedPart DEF OfType
<1>5. \A line \in lines : class[line] \in Existing
  BY <1>2, <1>3 DEF OfType
<1>6. DOMAIN h = Existing /\ \A p \in Existing : h[p] = Figure(PostedIn(p), type)
  OBVIOUS
<1>7. ASSUME NEW p \in Existing
      PROVE  Class(lines, class, p) = OfType(LinesIn(PostedIn(p)), type)
  <2>1. \A j \in PostedNow : \A line \in LinesOf(j) : line.id[1] = j
    BY <1>1, LinesOfOne
  <2>2. /\ LinesIn(PostedNow) = UNION {LinesOf(j) : j \in PostedNow}
        /\ LinesIn(PostedIn(p)) = UNION {LinesOf(j) : j \in PostedIn(p)}
    BY <1>1, LinesOfAll
  <2>3. PostedIn(p) = {j \in PostedNow : journal[j].period = p}
    BY DEF PostedIn, PostedNow
  <2>4. LinesIn(PostedIn(p)) = {line \in LinesIn(PostedNow) : journal[line.id[1]].period = p}
    BY <2>1, <2>2, <2>3
  <2> QED
    BY <2>4 DEF Class, OfType
<1>8. \A p \in Existing : h[p] = SumFunction(AmountsOf(Class(lines, class, p)))
  <2> SUFFICES ASSUME NEW p \in Existing
               PROVE  h[p] = SumFunction(AmountsOf(OfType(LinesIn(PostedIn(p)), type)))
    BY <1>7
  <2>1. Figure(PostedIn(p), type) = Net(LinesIn(PostedIn(p)), type)
    BY <1>1, Figures
  <2> QED
    BY <1>6, <2>1 DEF Net
<1>9. Figure(PostedNow, type) = SumFunction(AmountsOf(lines))
  BY Figures DEF Net
<1> HIDE DEF lines, class, h
<1>10. SumFunction(h) = SumFunction(AmountsOf(lines))
  BY <1>1, <1>4, <1>5, <1>6, <1>8, ClassNets
<1> QED
  BY <1>9, <1>10 DEF h

LEMMA ProfitsAdd ==
  ASSUME ReportInv
  PROVE  ProfitAddsUp
<1> DEFINE revenue == [p \in Existing |-> Figure(PostedIn(p), "revenue")]
           expense == [p \in Existing |-> Figure(PostedIn(p), "expense")]
           both == [p \in Existing |-> Figure(PostedIn(p), "revenue") + Figure(PostedIn(p), "expense")]
           profit == [p \in Existing |-> BuildReports(OfPeriod(p)).profitLoss.netProfit]
           none == [p \in Existing |-> 0]
<1>1. /\ IsFiniteSet(Existing) /\ \A p \in Existing : PostedIn(p) \in SUBSET PostedNow
      /\ "revenue" \in ACCOUNT_TYPES /\ "expense" \in ACCOUNT_TYPES
  BY DEF ReportInv, Few, PostedNow, PostedIn, ACCOUNT_TYPES
<1>2. \A p \in Existing : /\ Figure(PostedIn(p), "revenue") \in Int
                          /\ Figure(PostedIn(p), "expense") \in Int
  BY <1>1, Figures
<1>3. /\ Figure(PostedNow, "revenue") \in Int /\ Figure(PostedNow, "expense") \in Int
  BY <1>1, Figures
<1>4. SumFunction(revenue) = Figure(PostedNow, "revenue") /\ SumFunction(expense) = Figure(PostedNow, "expense")
  BY <1>1, FigureByPeriod
<1>5. Selected(Whole) = PostedNow
  BY DEF Whole, Selected, PostedUpTo, PostedNow
<1>6. BuildReports(Whole).profitLoss.netProfit =
        -Figure(PostedNow, "revenue") - Figure(PostedNow, "expense")
  BY <1>5, FiltersTakePosted, ReportFigures
<1>7. ASSUME NEW p \in Existing
      PROVE  profit[p] = -Figure(PostedIn(p), "revenue") - Figure(PostedIn(p), "expense")
  <2>1. Selected(OfPeriod(p)) = PostedIn(p)
    <3>1. p # None
      BY LedgerAssumption DEF Existing
    <3> QED
      BY <3>1 DEF Whole, OfPeriod, Selected, PostedUpTo, PostedIn
  <2> QED
    BY <2>1, FiltersTakePosted, ReportFigures
<1>8. /\ DOMAIN revenue = Existing /\ DOMAIN expense = Existing /\ DOMAIN both = Existing
      /\ DOMAIN profit = Existing /\ DOMAIN none = Existing
      /\ \A p \in Existing : /\ revenue[p] \in Int /\ expense[p] \in Int /\ both[p] = revenue[p] + expense[p]
                             /\ both[p] \in Int /\ profit[p] \in Int
                             /\ none[p] = both[p] + profit[p] /\ none[p] = 0
  BY <1>2, <1>7
<1>9. ProfitAddsUp <=> BuildReports(Whole).profitLoss.netProfit = SumFunction(profit)
  BY DEF ProfitAddsUp
<1> HIDE DEF revenue, expense, both, profit, none
<1>10. SumFunction(both) = SumFunction(revenue) + SumFunction(expense)
  BY <1>1, <1>8, SumPlus
<1>11. SumFunction(none) = SumFunction(both) + SumFunction(profit)
  BY <1>1, <1>8, SumPlus
<1>12. SumFunction(none) = 0
  BY <1>1, <1>8, SumZero
<1>13. SumFunction(profit) \in Int
  BY <1>1, <1>8, SumInt
<1>14. SumFunction(profit) = -Figure(PostedNow, "revenue") - Figure(PostedNow, "expense")
  <2> DEFINE a == Figure(PostedNow, "revenue")
             b == Figure(PostedNow, "expense")
             n == SumFunction(profit)
  <2>1. SumFunction(both) = a + b
    BY <1>4, <1>10
  <2>2. (a + b) + n = 0
    BY <1>11, <1>12, <2>1
  <2>3. a \in Int /\ b \in Int /\ n \in Int
    BY <1>3, <1>13
  <2> HIDE DEF a, b, n
  <2>4. n = -a - b
    BY <2>2, <2>3
  <2> QED
    BY <2>4 DEF a, b, n
<1> QED
  BY <1>6, <1>9, <1>14

-----------------------------------------------------------------------------
LEMMA ChartTypedStep ==
  ASSUME ChartTyped, [Next]_vars
  PROVE  ChartTyped'
<1>1. CASE UNCHANGED chart
  BY <1>1 DEF ChartTyped
<1>2. ASSUME NEW row \in AccountRows, AddAccount(row) PROVE ChartTyped'
  BY <1>2 DEF ChartTyped, AddAccount, ValidAccount
<1>3. CASE SeedDefaultChart
  BY <1>3 DEF ChartTyped, SeedDefaultChart, ValidAccount
<1> QED
  BY <1>1, <1>2, <1>3, ChartSummary

LEMMA PeriodsDatedStep ==
  ASSUME TypeOK, PeriodsDated, IsFiniteSet(Existing), [Next]_vars
  PROVE  PeriodsDated' /\ IsFiniteSet(Existing')
<1>1. CASE UNCHANGED period
  BY <1>1 DEF PeriodsDated, Existing
<1>2. ASSUME NEW p \in PeriodIds, NEW start \in Dates, NEW end \in Dates, CreatePeriod(p, start, end)
      PROVE  PeriodsDated' /\ IsFiniteSet(Existing')
  <2>1. /\ period' = [period EXCEPT ![p] = [status |-> "open", start |-> start, end |-> end]]
        /\ start <= end /\ DOMAIN period = PeriodIds
    BY <1>2 DEF CreatePeriod, ValidFiscalPeriod, TypeOK
  <2>2. Existing' = Existing \cup {p}
    BY <2>1 DEF Existing
  <2>3. \A q \in Existing' : IF q = p
                             THEN period'[q].start = start /\ period'[q].end = end
                             ELSE q \in Existing /\ period'[q] = period[q]
    BY <2>1 DEF Existing
  <2> QED
    BY <2>1, <2>2, <2>3, FS_AddElement DEF PeriodsDated
<1>3. ASSUME NEW p \in PeriodIds, ClosePeriod(p) PROVE PeriodsDated' /\ IsFiniteSet(Existing')
  <2>1. period' = [period EXCEPT ![p].status = "closed"] /\ period[p].status = "open"
        /\ DOMAIN period = PeriodIds
    BY <1>3 DEF ClosePeriod, TypeOK
  <2>2. Existing' = Existing
    BY <2>1 DEF Existing
  <2>3. \A q \in Existing : period'[q].start = period[q].start /\ period'[q].end = period[q].end
    BY <2>1 DEF Existing
  <2> QED
    BY <2>2, <2>3 DEF PeriodsDated
<1> QED
  BY <1>1, <1>2, <1>3, PeriodSummary

LEMMA FewPosted ==
  ASSUME BookInv, IsFiniteSet(PostedNow), [Next]_vars
  PROVE  IsFiniteSet(PostedNow')
<1>1. PostsNone \/ \E j \in JournalIds : PostsOne(j)
  BY BookGrows DEF BookInv, LedgerInv
<1>2. CASE PostsNone
  <2>1. PostedNow' = PostedNow
    BY <1>2 DEF PostsNone, PostedNow
  <2> QED
    BY <2>1
<1>3. ASSUME NEW j \in JournalIds, PostsOne(j) PROVE IsFiniteSet(PostedNow')
  <2>1. PostedNow' = PostedNow \cup {j}
    BY <1>3 DEF PostsOne, PostedNow
  <2> QED
    BY <2>1, FS_AddElement
<1> QED
  BY <1>1, <1>2, <1>3

LEMMA ReportInvHolds == Spec => []ReportInv
<1>1. Init /\ BookInv => ReportInv
  <2> SUFFICES ASSUME Init, BookInv PROVE ReportInv
    OBVIOUS
  <2>1. chart = {} /\ PostedNow = {} /\ Existing = {}
    BY DEF Init, PostedNow, Posted, NoJournal, NewJournal, Existing, NoPeriod
  <2> QED
    BY <2>1, FS_EmptySet DEF ReportInv, ChartTyped, PeriodsDated, Few
<1>2. ReportInv /\ BookInv' /\ [Next]_vars => ReportInv'
  <2> SUFFICES ASSUME ReportInv, BookInv', [Next]_vars PROVE ReportInv'
    OBVIOUS
  <2>1. ChartTyped' /\ PeriodsDated' /\ IsFiniteSet(Existing') /\ IsFiniteSet(PostedNow')
    BY ChartTypedStep, PeriodsDatedStep, FewPosted DEF ReportInv, BookInv, LedgerInv, Few
  <2> QED
    BY <2>1 DEF ReportInv, Few
<1> QED
  BY <1>1, <1>2, BookInvHolds, PTL DEF Spec

(* ReportsAgree: the reports of a ledger under any commands balance on     *)
(* every filter, carry the profit of a period into its equity, tell a      *)
(* period by name as by dates, and add up to the profit of the books.      *)
THEOREM ReportsCorrect == Spec => []ReportsAgree
<1>1. ReportInv => ReportsAgree
  BY ReportsBalance, EquityGrows, PeriodIsDates, ProfitsAdd DEF ReportsAgree
<1> QED
  BY <1>1, ReportInvHolds, PTL
=============================================================================
