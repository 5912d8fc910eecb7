--------------------------- MODULE WorkbenchForms ---------------------------
(***************************************************************************)
(* The windows of the accounting workbench that hold a list of rows: the   *)
(* journal and the sheet of a stocktake (AccountingView.js).  Both are     *)
(* opened after an await, find their rows by an id in the document, and    *)
(* save under the one busy flag of the view: a journal in one command, a   *)
(* sheet row by row.                                                       *)
(*                                                                         *)
(* A row is what it is of and an amount: an account and its debit, credits *)
(* negative, or a product and its count.  What the commands accept is      *)
(* Ledger's and RetailPosting's; here are the checks that a form can run   *)
(* into.                                                                   *)
(***************************************************************************)
EXTENDS Integers, SequencesExt

CONSTANTS Drafts,      \* ids of journals
          Sessions,    \* ids of stocktakes
          StoredRows,  \* the rows of each document at the start
          Typed,       \* rows a user may leave in a window, by kind
          Habits,      \* what the user may do while an answer is awaited
          MaxWindows,  \* windows opened, a bound
          Blank,       \* an empty field
          None

\* What the constants must be; the module that instantiates this one assumes it.
WorkbenchAssumption ==
  /\ Drafts \cap Sessions = {} /\ None \notin Drafts \cup Sessions
  /\ Habits \subseteq {"open twice", "go on"}
  /\ MaxWindows \in Nat

VARIABLES status,   \* absent, draft or posted, for each document
          stored,   \* the rows of each document
          opening,  \* documents whose window is being read
          windows,  \* Modal.stack: id, kind and document, the top one last
          used,     \* windows opened so far
          fields,   \* the rows in the fields of each window, open or not
          busy,     \* the save under way, or None
          saved,    \* the last save: what was seen and what was kept
          made       \* new journals saved from each window

vars == <<status, stored, opening, windows, used, fields, busy, saved, made>>

Documents == Drafts \cup Sessions
KindOf(d) == IF d \in Sessions THEN "sheet" ELSE "journal"
May(habit) == habit \in Habits
Top == windows[Len(windows)]

Init ==
  /\ status = [d \in Documents |-> IF d \in DOMAIN StoredRows THEN "draft" ELSE "absent"]
  /\ stored = [d \in Documents |-> IF d \in DOMAIN StoredRows THEN StoredRows[d] ELSE <<>>]
  /\ opening = <<>> /\ windows = <<>> /\ used = 0
  /\ fields = [w \in 1 .. MaxWindows |-> <<>>]
  /\ busy = None /\ saved = None
  /\ made = [w \in 1 .. MaxWindows |-> 0]

-----------------------------------------------------------------------------
(* The list of documents can be reached while no window lies over it.      *)
AtList ==
  /\ windows = <<>>
  /\ opening # <<>> => May("open twice")
  /\ busy # None => May("go on")
  /\ used + Len(opening) < MaxWindows

\* openJournalModal(id) and openStocktake, up to their first await.
ClickOpen(d) ==
  /\ AtList
  /\ status[d] = "draft" \/ (d \in Sessions /\ status[d] = "posted")
  /\ opening' = Append(opening, d)
  /\ UNCHANGED <<status, stored, windows, used, fields, busy, saved, made>>

Push(kind, d, rows) ==
  /\ used' = used + 1
  /\ windows' = Append(windows, [id |-> used + 1, kind |-> kind, doc |-> d])
  /\ fields' = [fields EXCEPT ![used + 1] = rows]

(* The window is built; a journal that was posted meanwhile is refused.    *)
OpenDone(i) ==
  LET d == opening[i]
  IN  /\ opening' = RemoveAt(opening, i)
      /\ IF d \in Drafts /\ status[d] # "draft"
         THEN UNCHANGED <<windows, used, fields>>
         ELSE Push(KindOf(d), d, stored[d])
      /\ UNCHANGED <<status, stored, busy, saved, made>>

EmptyRow == [of |-> None, amount |-> Blank]

\* openJournalModal(), which awaits nothing: two empty lines.
ClickNew ==
  /\ AtList
  /\ Push("journal", None, <<EmptyRow, EmptyRow>>)
  /\ UNCHANGED <<status, stored, opening, busy, saved, made>>

(* The user edits the rows of the top window; those of a posted session    *)
(* are disabled.                                                           *)
EditRows ==
  /\ windows # <<>>
  /\ busy # None => May("go on")
  /\ Top.doc \in Sessions => status[Top.doc] = "draft"
  /\ \E rows \in Typed[Top.kind] :
       /\ Top.kind = "sheet" => Len(rows) = Len(fields[Top.id])
       /\ fields' = [fields EXCEPT ![Top.id] = rows]
  /\ UNCHANGED <<status, stored, opening, windows, used, busy, saved, made>>

CloseWindow ==
  /\ windows # <<>>
  /\ busy # None => May("go on")
  /\ windows' = Front(windows)
  /\ UNCHANGED <<status, stored, opening, used, fields, busy, saved, made>>

-----------------------------------------------------------------------------
\* The windows of a kind, from the first in the document, and their rows.
OfKind(kind) == SelectSeq(windows, LAMBDA w : w.kind = kind)

RowsOf(kind) ==
  FlattenSeq([i \in DOMAIN OfKind(kind) |->
    [k \in DOMAIN fields[OfKind(kind)[i].id] |-> <<OfKind(kind)[i].id, k>>]])

Seen == [doc |-> Top.doc, rows |-> fields[Top.id]]

(* readJournalForm and saveJournal up to its await: the id of the first    *)
(* window, the rows of all. Drafts bounds the journals that can be made.   *)
SaveJournal(post) ==
  /\ busy = None
  /\ windows # <<>> /\ Top.kind = "journal"
  /\ OfKind("journal")[1].doc = None => \E d \in Drafts : status[d] = "absent"
  /\ busy' = [kind |-> "journal", doc |-> OfKind("journal")[1].doc, post |-> post, form |-> Top.id,
              rows |-> [i \in DOMAIN RowsOf("journal") |->
                          LET r == RowsOf("journal")[i] IN fields[r[1]][r[2]]],
              seen |-> Seen]
  /\ UNCHANGED <<status, stored, opening, windows, used, fields, saved, made>>

\* Modal.close, on whatever window is on top by then.
CloseTop == windows' = IF windows = <<>> THEN windows ELSE Front(windows)

Acceptable(lines, post) ==
  /\ lines # <<>> /\ \A i \in DOMAIN lines : lines[i].amount # Blank
  /\ post => Len(lines) >= 2 /\ FoldSeq(LAMBDA line, sum : sum + line.amount, 0, lines) = 0

(* updateDraftJournal, postJournal or saveDraftJournal answers.            *)
SaveAccepted ==
  /\ busy # None /\ busy.kind = "journal"
  /\ Acceptable(busy.rows, busy.post)
  /\ \E d \in Drafts :
       /\ IF busy.doc = None THEN status[d] = "absent" ELSE d = busy.doc /\ status[d] = "draft"
       /\ stored' = [stored EXCEPT ![d] = busy.rows]
       /\ status' = [status EXCEPT ![d] = IF busy.post THEN "posted" ELSE "draft"]
  /\ made' = IF busy.doc = None THEN [made EXCEPT ![busy.form] = @ + 1] ELSE made
  /\ saved' = [kind |-> "journal", seen |-> busy.seen,
               kept |-> [doc |-> busy.doc, rows |-> busy.rows]]
  /\ CloseTop
  /\ busy' = None
  /\ UNCHANGED <<opening, used, fields>>

SaveRefused ==
  /\ busy # None /\ busy.kind = "journal"
  /\ \/ ~Acceptable(busy.rows, busy.post)
     \/ busy.doc # None /\ status[busy.doc] # "draft"
  /\ busy' = None
  /\ UNCHANGED <<status, stored, opening, windows, used, fields, saved, made>>

-----------------------------------------------------------------------------
(* saveStocktake and finishStocktake: the id of the first sheet and the    *)
(* rows of all; a value is read from its field when its turn comes.        *)
SaveSheet(finish) ==
  /\ busy = None
  /\ windows # <<>> /\ Top.kind = "sheet" /\ status[Top.doc] = "draft"
  /\ busy' = [kind |-> "sheet", doc |-> OfKind("sheet")[1].doc, finish |-> finish,
              rest |-> RowsOf("sheet"), kept |-> <<>>, seen |-> Seen]
  /\ UNCHANGED <<status, stored, opening, windows, used, fields, saved, made>>

\* countStocktake: the row of the product, or a new one.
Counted(rows, row) ==
  IF \E i \in DOMAIN rows : rows[i].of = row.of
  THEN [i \in DOMAIN rows |-> IF rows[i].of = row.of THEN row ELSE rows[i]]
  ELSE Append(rows, row)

Countable(row) == row.amount # Blank /\ status[busy.doc] = "draft"

CountRow ==
  /\ busy # None /\ busy.kind = "sheet" /\ busy.rest # <<>>
  /\ LET at == Head(busy.rest)
         row == fields[at[1]][at[2]]
     IN  IF Countable(row)
         THEN /\ stored' = [stored EXCEPT ![busy.doc] = Counted(@, row)]
              /\ busy' = [busy EXCEPT !.rest = Tail(@), !.kept = Append(@, row)]
         ELSE busy' = None /\ UNCHANGED stored
  /\ UNCHANGED <<status, opening, windows, used, fields, saved, made>>

(* All rows are counted: the window is closed, after finalizeStocktake     *)
(* when the count is to be approved.                                       *)
SheetDone ==
  /\ busy # None /\ busy.kind = "sheet" /\ busy.rest = <<>>
  /\ busy' = None
  /\ IF busy.finish /\ status[busy.doc] # "draft"
     THEN UNCHANGED <<status, saved, windows>>
     ELSE /\ status' = IF busy.finish THEN [status EXCEPT ![busy.doc] = "posted"] ELSE status
          /\ saved' = [kind |-> "sheet", seen |-> busy.seen,
                       kept |-> [doc |-> busy.doc, rows |-> busy.kept]]
          /\ CloseTop
  /\ UNCHANGED <<stored, opening, used, fields, made>>

(* The document is posted, or the count approved, in another tab.          *)
PostElsewhere(d) ==
  /\ status[d] = "draft"
  /\ status' = [status EXCEPT ![d] = "posted"]
  /\ UNCHANGED <<stored, opening, windows, used, fields, busy, saved, made>>

Answer == SaveAccepted \/ SaveRefused \/ CountRow \/ SheetDone

Next ==
  \/ \E d \in Documents : ClickOpen(d) \/ PostElsewhere(d)
  \/ \E i \in DOMAIN opening : OpenDone(i)
  \/ ClickNew \/ EditRows \/ CloseWindow
  \/ \E choice \in BOOLEAN : SaveJournal(choice) \/ SaveSheet(choice)
  \/ Answer

(* The browser's database answers every request, if only by an abort.      *)
Spec == Init /\ [][Next]_vars /\ WF_vars(Answer)

-----------------------------------------------------------------------------
(* A save keeps what its window showed, in the document it was opened on:  *)
(* the fields are found by ids that two windows may share, and a sheet is  *)
(* read while the user could go on typing.                                 *)
SavesWhatIsShown == saved # None => saved.kept = saved.seen

(* A new journal is recorded once however often save is pressed and        *)
(* whatever was refused before (V2_PHASE2_DELIVERY.md:12).                 *)
OneJournalPerForm == \A w \in DOMAIN made : made[w] <= 1

(* What was posted or approved keeps its rows, also when a sheet of it is  *)
(* half saved at that moment.                                              *)
PostedRowsStay == \A d \in Documents : status[d] = "posted" => stored'[d] = stored[d]

(* Every press of a button is answered and the buttons work again.         *)
EverySaveAnswered == busy # None ~> busy = None
=============================================================================
