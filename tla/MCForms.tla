------------------------------ MODULE MCForms ------------------------------
(***************************************************************************)
(* The windows of the program, in eight worlds that do not interact: entry *)
(* forms and pages under a user who waits, who presses twice, and who does *)
(* anything; the journal window and the count sheet under a user who       *)
(* waits, and both under one who does not; the invoice form with the       *)
(* controller that calculates what it saves; and the field of a number.    *)
(***************************************************************************)
EXTENDS Integers, Sequences, TLC

CONSTANTS Worlds, p1, p2, j1, j2, j3, s1, apple, pear, Blank, item, None

VARIABLE world

-----------------------------------------------------------------------------
VARIABLES windows, opening, used, ctx, saving, saves, presses, written, notice, route, content,
          renders, turns

entryVars == <<windows, opening, used, ctx, saving, saves, presses, written, notice, route,
               content, renders, turns>>

Patient == INSTANCE EntryForms
  WITH Pages <- {p1, p2}, Habits <- {}, MaxWindows <- 4, MaxSaves <- 3, MaxTurns <- 2

Twice == INSTANCE EntryForms
  WITH Pages <- {p1, p2}, Habits <- {"open twice", "press twice", "turn"},
       MaxWindows <- 4, MaxSaves <- 3, MaxTurns <- 1

Hurried == INSTANCE EntryForms
  WITH Pages <- {p1, p2}, Habits <- {"open twice", "press twice", "go on", "turn", "keys"},
       MaxWindows <- 3, MaxSaves <- 2, MaxTurns <- 1

ASSUME Patient!HabitsAssumption /\ Twice!HabitsAssumption /\ Hurried!HabitsAssumption

-----------------------------------------------------------------------------
VARIABLES status, stored, reading, stack, opened, fields, busy, saved, made

benchVars == <<status, stored, reading, stack, opened, fields, busy, saved, made>>

Row(of, amount) == [of |-> of, amount |-> amount]
Lines(debit, credit) == <<Row(apple, debit), Row(pear, credit)>>

\* A draft and room for two more journals; a session of two products.
JournalRows == j1 :> Lines(1, -1)
JournalTyped == [kind \in {"journal", "sheet"} |->
  IF kind = "journal" THEN {Lines(2, -2), Lines(2, -1), Lines(2, Blank)} ELSE {}]
SheetRows == s1 :> Lines(Blank, Blank)
SheetTyped == [kind \in {"journal", "sheet"} |->
  IF kind = "sheet" THEN {Lines(1, 2), Lines(2, Blank)} ELSE {Lines(2, -2)}]

Journals == INSTANCE WorkbenchForms
  WITH opening <- reading, windows <- stack, used <- opened,
       Drafts <- {j1, j2, j3}, Sessions <- {}, StoredRows <- JournalRows, Typed <- JournalTyped,
       Habits <- {}, MaxWindows <- 2

Sheets == INSTANCE WorkbenchForms
  WITH opening <- reading, windows <- stack, used <- opened,
       Drafts <- {}, Sessions <- {s1}, StoredRows <- SheetRows, Typed <- SheetTyped,
       Habits <- {}, MaxWindows <- 2

Hasty == INSTANCE WorkbenchForms
  WITH opening <- reading, windows <- stack, used <- opened,
       Drafts <- {j1, j2}, Sessions <- {s1}, StoredRows <- SheetRows, Typed <- SheetTyped,
       Habits <- {"open twice", "go on"}, MaxWindows <- 2

ASSUME Journals!WorkbenchAssumption /\ Sheets!WorkbenchAssumption /\ Hasty!WorkbenchAssumption

-----------------------------------------------------------------------------
VARIABLES text, caret, state, typed

fieldVars == <<text, caret, state, typed>>

\* Numbers up to the thousands, with the zeros that matter to the grouping and
\* a small largest number.
Number == INSTANCE NumberInput
  WITH Keys <- {"0", "1", "5"}, ZeroFirst <- FALSE,
       Initial <- {<<>>, <<"0">>, <<"1", "0", "0", "5">>}, MaxLength <- 5,
       MaxNumber <- <<"5", "0", "0", "0", "0">>

ASSUME Number!NumberInputAssumption

-----------------------------------------------------------------------------
VARIABLES open, rows, entries, totals, invoice, edits

formVars == <<open, rows, entries, totals, invoice, edits>>

(* A form with one product that sells for 3.                               *)

OnePrice == [p \in {item} |-> 3]

Form == INSTANCE InvoiceForm
  WITH fields <- entries, saved <- invoice,
       Products <- {item}, Kinds <- {"sale", "non_formal"}, SellPrice <- OnePrice, Qtys <- {0, 2},
       Prices <- {5}, Amounts <- {1, 9}, Percents <- {50}, Rates <- {10}, MaxRows <- 2,
       MaxEdits <- 6

ASSUME Form!NumbersAssumption

-----------------------------------------------------------------------------
WorldInit ==
  /\ world \in Worlds /\ Number!Init /\ Form!Init
  /\ IF world = "hurried" THEN Hurried!Init
     ELSE IF world = "twice" THEN Twice!Init ELSE Patient!Init
  /\ IF world = "hasty" THEN Hasty!Init
     ELSE IF world = "sheet" THEN Sheets!Init ELSE Journals!Init
  \* What lies idle begins in one way only.
  /\ world # "number" => text = <<>>
  /\ world \notin {"patient", "twice", "hurried"} => route = p1

WorldNext ==
  /\ UNCHANGED world
  /\ \/ world = "patient" /\ Patient!Next /\ UNCHANGED <<benchVars, fieldVars, formVars>>
     \/ world = "twice" /\ Twice!Next /\ UNCHANGED <<benchVars, fieldVars, formVars>>
     \/ world = "hurried" /\ Hurried!Next /\ UNCHANGED <<benchVars, fieldVars, formVars>>
     \/ world = "journal" /\ Journals!Next /\ UNCHANGED <<entryVars, fieldVars, formVars>>
     \/ world = "sheet" /\ Sheets!Next /\ UNCHANGED <<entryVars, fieldVars, formVars>>
     \/ world = "hasty" /\ Hasty!Next /\ UNCHANGED <<entryVars, fieldVars, formVars>>
     \/ world = "invoice" /\ Form!Next /\ UNCHANGED <<entryVars, benchVars, fieldVars>>
     \/ world = "number" /\ Number!Next /\ UNCHANGED <<entryVars, benchVars, formVars>>

\* The database answers every request of a workbench window, if by an abort.
WorldSpec ==
  /\ WorldInit /\ [][WorldNext]_<<world, entryVars, benchVars, fieldVars, formVars>>
  /\ WF_benchVars(world = "hasty" /\ Hasty!Answer)

-----------------------------------------------------------------------------
(* What a window saves is what it shows, and one form makes one document:  *)
(* under a user who waits, entry forms write one row, none is left dead, a *)
(* message of failure means that nothing was written, and a save closes    *)
(* its own window; pressing twice makes no second invoice or journal;      *)
(* whatever the user does, Escape takes the top window only, a refusal     *)
(* keeps the forms, posted rows stay and every save is answered            *)
(* (Modal.js:20-120, AccountingView.js:130-500).                           *)
EntriesSound ==
  /\ [](/\ world = "patient" => /\ Patient!TypeOK /\ Patient!OneRowPerForm
                               /\ Patient!NoDeadForm /\ Patient!ErrorMeansNotSaved
        /\ world = "twice" => Twice!OneInvoicePerForm
        /\ world = "journal" => Journals!SavesWhatIsShown /\ Journals!OneJournalPerForm
        /\ world = "sheet" => Sheets!SavesWhatIsShown)
  /\ [][/\ world = "patient" => Patient!ClosesItsOwn
        /\ world = "hurried" => Hurried!EscapeTakesTop /\ Hurried!RefusalKeepsForms
        /\ world = "hasty" => Hasty!PostedRowsStay]_<<world, entryVars, benchVars>>
  /\ world = "hasty" => Hasty!EverySaveAnswered

(* The figures of an invoice form are those the controller accepts, cash   *)
(* is paid in full, a part payment is kept, what is saved is what is shown *)
(* and comes back when the row is opened again; a field holds the number   *)
(* it shows, as it was typed, and the caret keeps its place                *)
(* (InvoiceFormView.js:180-760, NumberInput.js:20-120).                    *)
FieldsSound ==
  /\ [](/\ world = "invoice" => Form!TypeOK
        /\ Form!TotalsAccepted /\ Form!CashIsPaid
        /\ Number!FormHoldsWhatIsShown /\ Number!NumberAsTyped)
  /\ Form!PartPaymentKept /\ Form!CompleteIsShown /\ Form!ReopenedIsSaved
  /\ Number!CaretKeepsPlace
=============================================================================
