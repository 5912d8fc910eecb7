----------------------------- MODULE EntryForms -----------------------------
(***************************************************************************)
(* The windows, the keys and the pages that every form of the program goes *)
(* through: Modal keeps the open windows in a stack, KeyboardShortcuts     *)
(* looks for a window in the document, each form saves in an await and     *)
(* then closes a window and draws its page again, and Router fills one     *)
(* container with pages that are rendered in an await.                     *)
(*                                                                         *)
(* Four forms stand for all: "entry" for the forms of the treasury,        *)
(* cheque, product and contact pages, one of whose commands asks for a     *)
(* "confirm"ation in a window of its own, "invoice" for InvoiceFormView    *)
(* with its shared ctx, and "quick" for the product that is made on the    *)
(* spot over an invoice.  Windows of one form have fields of the same ids. *)
(***************************************************************************)
EXTENDS Integers, Sequences, FiniteSets, SequencesExt

CONSTANTS
  Pages,
  Habits,               \* what the user may do while something is under way
  MaxWindows,           \* bound: windows opened
  MaxSaves,             \* bound: presses of a save button or key
  MaxTurns,             \* bound: pages asked for
  None

\* What the constants must be; the module that instantiates this one assumes it.
HabitsAssumption ==
  /\ Habits \subseteq {"open twice", "press twice", "go on", "turn", "keys"}
  /\ MaxWindows \in Nat /\ MaxSaves \in Nat /\ MaxTurns \in Nat

VARIABLES
  windows,              \* Modal.stack: id and form of each window, the top one last
  opening,              \* windows whose data is being read
  used,                 \* windows opened so far
  ctx,                  \* the invoice window whose data is in ctx, or None
  saving,               \* InvoiceFormView._saving
  saves,                \* saves under way
  presses,              \* presses so far
  written,              \* rows written for each window
  notice,               \* the last message: its kind, and whether the row was written
  route,                \* Router.currentRoute
  content,              \* the page that is in the container
  renders,              \* pages being rendered
  turns                 \* pages asked for so far

forms == <<windows, opening, used, ctx>>
work == <<saving, saves, presses, written, notice>>
site == <<route, content, renders, turns>>
vars == <<forms, work, site>>

May(habit) == habit \in Habits
Top == windows[Len(windows)]

\* getElementById finds the fields of the first window in the document.
FieldsOf(form) == windows[CHOOSE i \in DOMAIN windows :
                    /\ windows[i].form = form
                    /\ \A j \in 1 .. i - 1 : windows[j].form # form].id

-----------------------------------------------------------------------------
(* Opening and closing.                                                    *)

\* A click on the page, or a double click; the form reads what it needs before
\* its window opens.
ClickOpen(form) ==
  /\ windows = <<>> /\ renders = {}
  /\ IF May("open twice") THEN \A w \in opening : w.form = form ELSE opening = {}
  /\ used < MaxWindows
  /\ used' = used + 1
  /\ opening' = opening \cup {[id |-> used + 1, form |-> form]}
  /\ UNCHANGED <<windows, ctx, work, site>>

OpenWindow(w) ==
  /\ w \in opening
  /\ opening' = opening \ {w}
  /\ windows' = Append(windows, w)
  /\ ctx' = IF w.form = "invoice" THEN w.id ELSE ctx
  /\ UNCHANGED <<used, work, site>>

OpenQuick ==
  /\ windows # <<>> /\ Top.form = "invoice"
  /\ May("go on") \/ saves = {}
  /\ used < MaxWindows
  /\ used' = used + 1
  /\ windows' = Append(windows, [id |-> used + 1, form |-> "quick"])
  /\ UNCHANGED <<opening, ctx, work, site>>

\* Mutant: every window that closes throws ctx away.
PopAll ==
  IF windows = <<>> THEN UNCHANGED <<windows, ctx>>
  ELSE windows' = Front(windows) /\ ctx' = None

\* Modal.close pops the top window, whichever that is; onClose of an invoice
\* throws ctx away.
Pop ==
  IF windows = <<>> THEN UNCHANGED <<windows, ctx>>
  ELSE /\ windows' = Front(windows)
       /\ ctx' = IF Top.form = "invoice" THEN None ELSE ctx

Close ==
  /\ windows # <<>>
  /\ May("go on") \/ saves = {}
  /\ Pop
  /\ UNCHANGED <<opening, used, work, site>>

\* Escape presses the x of the first window in the document, and that pops the top one.
PressEscape ==
  /\ May("keys") /\ windows # <<>>
  /\ May("go on") \/ saves = {}
  /\ Pop
  /\ UNCHANGED <<opening, used, work, site>>

-----------------------------------------------------------------------------
(* Saving.  A save remembers the window whose button was pressed, the one  *)
(* the user sees on top and the one whose fields were read.                *)

NewSave(w, fields, seen) ==
  [n |-> presses + 1, form |-> w.form, id |-> w.id, read |-> fields, seen |-> seen,
   page |-> content, stage |-> "write"]

\* Without its data the form throws before it saves; while a save is under way
\* another one is dropped.
StartInvoice(w, seen) ==
  /\ ctx # None /\ ~saving
  /\ saving' = TRUE
  /\ saves' = saves \cup {NewSave(w, FieldsOf("invoice"), seen)}
  /\ UNCHANGED <<windows, used>>

StartQuick(w, seen) ==
  /\ saves' = saves \cup {NewSave(w, FieldsOf("quick"), seen)}
  /\ UNCHANGED <<windows, used, saving>>

StartEntry(w, seen) ==
  /\ saves' = saves \cup {NewSave(w, FieldsOf("entry"), seen)}
  /\ UNCHANGED <<windows, used, saving>>

\* A settlement of a return or a cheque asks first.
AskEntry(w, seen) ==
  /\ used < MaxWindows
  /\ used' = used + 1
  /\ windows' = Append(windows, [id |-> used + 1, form |-> "confirm",
                                 save |-> NewSave(w, FieldsOf("entry"), seen)])
  /\ UNCHANGED <<saving, saves>>

\* The answer takes its own window away and then saves what was read before it.
AcceptConfirm(w) ==
  /\ windows' = SelectSeq(windows, LAMBDA v : v # w)
  /\ saves' = saves \cup {w.save}
  /\ UNCHANGED <<used, saving>>

Press(w, seen) ==
  /\ presses < MaxSaves /\ opening = {}
  /\ May("press twice") \/ saves = {}
  /\ presses' = presses + 1
  /\ \/ w.form = "invoice" /\ StartInvoice(w, seen)
     \/ w.form = "quick" /\ StartQuick(w, seen)
     \/ w.form = "entry" /\ (StartEntry(w, seen) \/ AskEntry(w, seen))
     \/ w.form = "confirm" /\ w = Top /\ w.id = seen /\ AcceptConfirm(w)
  /\ UNCHANGED <<opening, ctx, written, notice, site>>

ClickSave == windows # <<>> /\ Press(Top, Top.id)

\* Enter and Ctrl+S press the main button of the first window in the document.
PressEnter ==
  /\ May("keys") /\ windows # <<>>
  /\ Head(windows).form # "confirm"
  /\ Press(Head(windows), Top.id)

Say(kind, wrote) == notice' = [kind |-> kind, wrote |-> wrote]

\* The services refuse: the message is an error and the window stays.
WriteFails(s) ==
  /\ s.stage = "write"
  /\ saves' = saves \ {s}
  /\ saving' = (saving /\ s.form # "invoice")
  /\ Say("error", FALSE)
  /\ UNCHANGED <<forms, presses, written, site>>

\* The row is written, the form says so and closes the top window.  The quick
\* product then goes into the rows of ctx, if there is one; an entry reloads
\* its page first.
WriteDone(s) ==
  /\ s.stage = "write"
  /\ written' = [written EXCEPT ![s.id] = @ + 1]
  /\ Pop
  /\ saving' = (saving /\ s.form # "invoice")
  /\ saves' = IF s.form = "entry" THEN (saves \ {s}) \cup {[s EXCEPT !.stage = "reload"]} ELSE saves \ {s}
  /\ Say(IF s.form = "quick" /\ ctx' = None THEN "error" ELSE "success", TRUE)
  /\ UNCHANGED <<opening, used, presses, site>>

\* The element of the page is looked up without a test; when the page is
\* another one that throws, and the message is an error.
ShowAgain(s) ==
  /\ s.stage = "reload"
  /\ saves' = saves \ {s}
  /\ Say(IF content = s.page THEN "success" ELSE "error", TRUE)
  /\ UNCHANGED <<forms, saving, presses, written, site>>

-----------------------------------------------------------------------------
(* Pages.                                                                  *)

\* A link of the menu, or the back button, which works under a window too.
Turn(p) ==
  /\ May("turn") \/ (renders = {} /\ saves = {} /\ windows = <<>> /\ opening = {})
  /\ turns < MaxTurns /\ p # route
  /\ route' = p
  /\ renders' = renders \cup {[n |-> turns + 1, page |-> p]}
  /\ turns' = turns + 1
  /\ UNCHANGED <<forms, work, content>>

\* The dashboard and the report page draw themselves again after a filter.
Redraw ==
  /\ windows = <<>> /\ turns < MaxTurns
  /\ May("turn") \/ renders = {}
  /\ renders' = renders \cup {[n |-> turns + 1, page |-> content]}
  /\ turns' = turns + 1
  /\ UNCHANGED <<forms, work, route, content>>

Rendered(r) ==
  /\ content' = r.page
  /\ renders' = renders \ {r}
  /\ UNCHANGED <<forms, work, route, turns>>

-----------------------------------------------------------------------------
Init ==
  /\ windows = <<>> /\ opening = {} /\ used = 0 /\ ctx = None
  /\ saving = FALSE /\ saves = {} /\ presses = 0
  /\ written = [w \in 1 .. MaxWindows |-> 0]
  /\ notice = [kind |-> "none", wrote |-> FALSE]
  /\ route \in Pages /\ content = route
  /\ renders = {} /\ turns = 0

Next ==
  \/ \E form \in {"entry", "invoice"} : ClickOpen(form)
  \/ \E w \in opening : OpenWindow(w)
  \/ OpenQuick \/ Close \/ PressEscape
  \/ ClickSave \/ PressEnter
  \/ \E s \in saves : WriteFails(s) \/ WriteDone(s) \/ ShowAgain(s)
  \/ \E p \in Pages : Turn(p)
  \/ Redraw
  \/ \E r \in renders : Rendered(r)

Spec == Init /\ [][Next]_vars

-----------------------------------------------------------------------------
(* Properties.                                                             *)

Ids == {windows[i].id : i \in DOMAIN windows}

\* The windows have ids of their own, at most one invoice is being saved, ctx
\* and the pages are of the program.
TypeOK ==
  /\ \A i, j \in DOMAIN windows : windows[i].id = windows[j].id => i = j
  /\ Ids \subseteq 1 .. used
  /\ ctx \in {None} \cup 1 .. MaxWindows
  /\ saving = (\E s \in saves : s.form = "invoice")
  /\ {route, content} \cup {r.page : r \in renders} \subseteq Pages

\* However often and wherever save is pressed, one form makes one invoice.
OneInvoicePerForm ==
  \A s \in saves : s.form = "invoice" => written[s.id] = 0 /\ \A t \in saves : t.form = "invoice" => t = s

\* A form makes one row.
OneRowPerForm == \A w \in 1 .. MaxWindows : written[w] <= 1

\* Escape leaves every window but the top one ("closes the open window").
EscapeTakesTop == PressEscape => windows' = Front(windows)

\* An answer closes no window but the one that was saved.
ClosesItsOwn ==
  \A s \in saves : saves' # saves /\ s \notin saves' =>
    \A i \in DOMAIN windows : windows[i].id = s.id \/ \E j \in DOMAIN windows' : windows'[j] = windows[i]

\* A refused save leaves every window open, so that nothing typed is lost.
RefusalKeepsForms ==
  (\E s \in saves : s \notin saves') /\ notice' = [kind |-> "error", wrote |-> FALSE]
    => windows' = windows

\* An invoice form on the screen has its data.
NoDeadForm == \A i \in DOMAIN windows : windows[i].form = "invoice" => ctx # None

\* An error message means that nothing was saved.
ErrorMeansNotSaved == notice.kind = "error" => ~notice.wrote

=============================================================================
