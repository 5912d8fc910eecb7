----------------------------- MODULE MasterData ------------------------------
(***************************************************************************)
(* Products and contacts: ProductController and ContactController, the     *)
(* import and export of ExcelController with the dialog SettingsView puts  *)
(* in front of it, and the stock figures computed from the movements.      *)
(*                                                                         *)
(* Each step between two awaits is an action. A row is a name, the key the *)
(* import compares (the code of a product, the mobile of a contact) and a  *)
(* kind; prices, addresses and tags are left out. A reference is a stock   *)
(* movement of a product or a document that names a contact, which is a    *)
(* pre-invoice or one that counts; references are only added here. Their   *)
(* rank is the place their random ids give them in the lists of the store. *)
(* Invoice lines and pre-invoices name products too, but no controller     *)
(* asks them before a product is deleted: they are not references.         *)
(***************************************************************************)
EXTENDS Integers, Sequences, FiniteSets, SequencesExt

CONSTANTS Ids,     \* ids uid() may draw for products and contacts
          Names,   \* names of rows
          Keys,    \* codes and mobiles a user may enter
          Kinds,   \* a subset of {"good", "service", "contact"}
          Files,   \* workbooks on disk: the rows of each sheet, by its section
          Exports, \* whether the user exports the lists
          Modes,   \* a subset of {"merge", "replace"}
          MaxRefs, \* movements and documents recorded
          MaxQty,  \* the largest quantity of a movement
          MaxDialogs, \* import dialogs open or about to open
          Tasks,   \* commands that may run at once
          Crashes, \* whether the program may stop between two steps
          NoKey, NoName, Fresh, Gone, None

Rows == [name : Names, key : Keys, kind : Kinds]

ASSUME MasterDataAssumption ==
  /\ Kinds \subseteq {"good", "service", "contact"} /\ Modes \subseteq {"merge", "replace"}
  /\ MaxRefs \in Nat /\ MaxQty \in Nat /\ MaxDialogs \in Nat
  /\ Crashes \in BOOLEAN /\ Exports \in BOOLEAN
  /\ NoName \notin Names /\ {Fresh, Gone} \cap Rows = {}
  /\ \A f \in DOMAIN Files : DOMAIN Files[f] \subseteq {"products", "contacts"} /\ DOMAIN Files[f] # {}
  /\ \A f \in DOMAIN Files : \A section \in DOMAIN Files[f] : \A row \in Range(Files[f][section]) :
       DOMAIN row = {"name", "key", "kind"} /\ row.kind \in {"good", "service", "contact"}

VARIABLES master,  \* the row of each id, Fresh before it is drawn and Gone after it is deleted
          refs,    \* movements and documents, in the order of their dates
          enabled, \* the setting finance_v2_enabled
          export,  \* the last workbook exported
          reading, \* files being read for a dialog, with the list each is meant for
          dialogs, \* import dialogs, the top one last: the list each imports into
          raw,     \* __importRawData: the workbook an import takes
          tasks    \* the commands under way

vars == <<master, refs, enabled, export, reading, dialogs, raw, tasks>>
screen == <<reading, dialogs, raw>>

Idle == [pc |-> "idle", id |-> None, row |-> None, ref |-> None, mode |-> None,
         kind |-> None, file |-> <<>>, rows |-> <<>>, old |-> {}, seen |-> {}]

Init ==
  /\ master = [i \in Ids |-> Fresh]
  /\ refs = <<>> /\ enabled = FALSE /\ export = [section \in {"products"} |-> <<>>]
  /\ reading = <<>> /\ dialogs = <<>> /\ raw = None
  /\ tasks = [t \in Tasks |-> Idle]

Store(row) == IF row.kind = "contact" THEN "contacts" ELSE "products"
Present(i) == master[i] \notin {Fresh, Gone}
Listed(store) == {i \in Ids : Present(i) /\ Store(master[i]) = store}
Drawn(i) == master[i] # Fresh \/ \E t \in Tasks : tasks[t].id = i

At(t, pc) == tasks[t].pc = pc
End(t) == tasks' = [tasks EXCEPT ![t] = Idle]
Begin(t, task) == At(t, "idle") /\ tasks' = [tasks EXCEPT ![t] = task]
-----------------------------------------------------------------------------
(* Stock figures                                                           *)

Moved(stock, m) == CASE m.type = "in" -> stock + m.qty
                     [] m.type = "out" -> stock - m.qty
                     [] OTHER -> m.qty

Movements == {"in", "out", "adjust"}

\* The movements of a product.
Of(s, i) == SelectSeq(s, LAMBDA m : m.id = i /\ m.type \in Movements)

\* getStock and getStockMap go through the list as the store returns it.
StockMap(i) == FoldLeft(Moved, 0, Of(SortSeq(refs, LAMBDA m, n : m.rank < n.rank), i))

\* getKardex sorts the movements by date first.
Kardex(i) ==
  LET next(balance, m) == CASE m.type = "in" -> balance + m.qty
                            [] m.type = "out" -> balance - m.qty
                            [] OTHER -> m.qty
  IN  FoldLeft(next, 0, Of(refs, i))
-----------------------------------------------------------------------------
(* Rows and their references                                               *)

Create(t, i, row) ==
  /\ At(t, "idle") /\ master[i] = Fresh /\ ~Drawn(i)
  /\ master' = [master EXCEPT ![i] = row]
  /\ UNCHANGED <<refs, enabled, export, screen, tasks>>

\* A product with movements keeps its kind.
KindAllowed(i, row) ==
  enabled /\ row.kind # master[i].kind => \A r \in Range(refs) : r.id # i

Edit(t, i, row) ==
  /\ Present(i) /\ Store(row) = Store(master[i]) /\ KindAllowed(i, row)
  /\ Begin(t, [Idle EXCEPT !.pc = "put row", !.id = i, !.row = row])
  /\ UNCHANGED <<master, refs, enabled, export, screen>>

\* The row is written whatever has happened to it since it was read.
PutRow(t) ==
  /\ At(t, "put row")
  /\ master' = [master EXCEPT ![tasks[t].id] = tasks[t].row]
  /\ End(t)
  /\ UNCHANGED <<refs, enabled, export, screen>>

\* Mutant: only movements stop a deletion.
Moveless(i) == \A r \in Range(refs) : r.id = i => r.type \notin Movements

\* No movement and no document refers to i.
Unused(i) == \A r \in Range(refs) : r.id # i

Delete(t, i) ==
  /\ Present(i) /\ Unused(i)
  /\ Begin(t, [Idle EXCEPT !.pc = "delete row", !.id = i])
  /\ UNCHANGED <<master, refs, enabled, export, screen>>

RemoveRow(t) ==
  /\ At(t, "delete row")
  /\ master' = [master EXCEPT ![tasks[t].id] = Gone]
  /\ End(t)
  /\ UNCHANGED <<refs, enabled, export, screen>>

\* uid() gives a new record any place among the others.
Add(ref) ==
  \E rank \in 1..MaxRefs :
     /\ \A r \in Range(refs) : r.rank # rank
     /\ refs' = Append(refs, [id |-> ref.id, type |-> ref.type, qty |-> ref.qty, rank |-> rank])

\* Without finance an invoice or a count reads the row and writes later, and
\* so does a pre-invoice with finance as well.
StartRef(t, i, type, qty) ==
  /\ enabled => type = "preinvoice"
  /\ Present(i) /\ Len(refs) < MaxRefs
  /\ CASE type \in {"document", "preinvoice"} -> master[i].kind = "contact"
       [] type = "adjust" -> master[i].kind # "contact"
       [] OTHER -> master[i].kind = "good"
  /\ Begin(t, [Idle EXCEPT !.pc = "put ref", !.ref = [id |-> i, type |-> type, qty |-> qty]])
  /\ UNCHANGED <<master, refs, enabled, export, screen>>

PutRef(t) ==
  /\ At(t, "put ref") /\ Len(refs) < MaxRefs
  /\ Add(tasks[t].ref)
  /\ End(t)
  /\ UNCHANGED <<master, enabled, export, screen>>

\* With finance one transaction reads the row and posts.
PostRef(t, i, type, qty) ==
  /\ At(t, "idle") /\ enabled /\ Present(i) /\ Len(refs) < MaxRefs
  /\ CASE type = "document" -> master[i].kind = "contact"
       [] type = "in" -> master[i].kind = "good"
       [] type = "out" -> master[i].kind = "good" /\ qty <= Kardex(i)
       [] OTHER -> FALSE
  /\ Add([id |-> i, type |-> type, qty |-> qty])
  /\ UNCHANGED <<master, enabled, export, screen, tasks>>

\* Pre-invoices may stand, whoever they name.
Activate(t) ==
  /\ At(t, "idle") /\ ~enabled /\ \A r \in Range(refs) : r.type = "preinvoice"
  /\ enabled' = TRUE
  /\ UNCHANGED <<master, refs, export, screen, tasks>>
-----------------------------------------------------------------------------
(* Export and import                                                       *)

\* One row for each listed row, in the order of their random ids.
Sheets(store) ==
  {[n \in DOMAIN order |-> master[order[n]]] : order \in SetToSeqs(Listed(store))}

Export(t) ==
  /\ At(t, "idle") /\ Exports
  /\ \E products \in Sheets("products"), contacts \in Sheets("contacts") :
       export' = [section \in {"products", "contacts"} |->
                    IF section = "products" THEN products ELSE contacts]
  /\ UNCHANGED <<master, refs, enabled, screen, tasks>>

\* The sheet of one section has no column for the kind of a product, and an
\* import takes a row without one for a good.
ExportSection(t, store) ==
  /\ At(t, "idle") /\ Exports
  /\ \E sheet \in Sheets(store) : export' = [section \in {store} |->
       [n \in DOMAIN sheet |->
          [sheet[n] EXCEPT !.kind = IF store = "products" THEN "good" ELSE @]]]
  /\ UNCHANGED <<master, refs, enabled, screen, tasks>>

Workbooks == DOMAIN Files \cup (IF Exports THEN {"export"} ELSE {})
Content(f) == IF f = "export" THEN export ELSE Files[f]

\* The sheet named for the list, or else the first.
Sheet(book, store) == book[IF store \in DOMAIN book THEN store ELSE CHOOSE s \in DOMAIN book : TRUE]

\* The button pressed says which list the file is meant for.
PickFile(f, store) ==
  /\ Len(reading) + Len(dialogs) < MaxDialogs
  /\ reading' = Append(reading, [kind |-> store, book |-> Content(f)])
  /\ UNCHANGED <<master, refs, enabled, export, dialogs, raw, tasks>>

\* A file has been read, in whatever order they finish: its dialog opens, and
\* its sheets are kept for the next _confirmImport, whichever dialog calls it.
OpenDialog(n) ==
  /\ n \in DOMAIN reading
  /\ dialogs' = Append(dialogs, reading[n].kind)
  /\ raw' = reading[n].book
  /\ reading' = RemoveAt(reading, n)
  /\ UNCHANGED <<master, refs, enabled, export, tasks>>

CloseDialog ==
  /\ dialogs # <<>>
  /\ dialogs' = Front(dialogs)
  /\ UNCHANGED <<master, refs, enabled, export, reading, raw, tasks>>

Confirm(t, mode) ==
  LET store == Last(dialogs)
      rows == Sheet(raw, store)
      old == Listed(store)
  IN  /\ dialogs # <<>> /\ raw # None /\ rows # <<>>
      /\ Begin(t, [Idle EXCEPT !.pc = "import", !.mode = mode, !.kind = store, !.file = rows,
                    !.rows = rows, !.old = IF mode = "replace" THEN old ELSE {},
                    !.seen = {master[i].key : i \in old}])
      /\ UNCHANGED <<master, refs, enabled, export, screen>>

\* An empty sheet is refused: the dialog stays, but what it would import is
\* forgotten.
ConfirmEmpty ==
  /\ dialogs # <<>> /\ raw # None /\ Sheet(raw, Last(dialogs)) = <<>>
  /\ raw' = None
  /\ UNCHANGED <<master, refs, enabled, export, reading, dialogs, tasks>>

\* Mutant: the rows to replace are not deleted.
KeepOld(t, i) ==
  /\ At(t, "import") /\ i \in tasks[t].old
  /\ tasks' = [tasks EXCEPT ![t].old = @ \ {i}]
  /\ UNCHANGED <<master, refs, enabled, export, screen>>

DeleteOld(t, i) ==
  /\ At(t, "import") /\ i \in tasks[t].old
  /\ master' = [master EXCEPT ![i] = Gone]
  /\ tasks' = [tasks EXCEPT ![t].old = @ \ {i}]
  /\ UNCHANGED <<refs, enabled, export, screen>>

\* A row of the other kind of workbook has a name but not the columns.
Imported(row, store) ==
  CASE Store(row) = store -> row
    [] store = "contacts" -> [name |-> row.name, key |-> NoKey, kind |-> "contact"]
    [] OTHER -> [name |-> row.name, key |-> NoKey, kind |-> "good"]

Skipped(task, row) ==
  row.name = NoName \/ (task.mode = "merge" /\ row.key # NoKey /\ row.key \in task.seen)

SkipRow(t) ==
  LET task == tasks[t]
  IN  /\ At(t, "import") /\ task.old = {} /\ task.rows # <<>>
      /\ Skipped(task, Imported(Head(task.rows), task.kind))
      /\ tasks' = [tasks EXCEPT ![t].rows = Tail(@)]
      /\ UNCHANGED <<master, refs, enabled, export, screen>>

ImportRow(t, i) ==
  LET task == tasks[t]
      row == Imported(Head(task.rows), task.kind)
  IN  /\ At(t, "import") /\ task.old = {} /\ task.rows # <<>>
      /\ ~Skipped(task, row) /\ ~Drawn(i)
      /\ master' = [master EXCEPT ![i] = row]
      /\ tasks' = [tasks EXCEPT ![t].rows = Tail(@)]
      /\ UNCHANGED <<refs, enabled, export, screen>>

EndImport(t) ==
  /\ At(t, "import") /\ tasks[t].old = {} /\ tasks[t].rows = <<>>
  /\ dialogs' = IF dialogs = <<>> THEN <<>> ELSE Front(dialogs)
  /\ raw' = None
  /\ End(t)
  /\ UNCHANGED <<master, refs, enabled, export, reading>>

\* The program ends: what it wrote stays.
Crash ==
  /\ Crashes /\ \E t \in Tasks : ~At(t, "idle")
  /\ tasks' = [t \in Tasks |-> Idle]
  /\ reading' = <<>> /\ dialogs' = <<>> /\ raw' = None
  /\ UNCHANGED <<master, refs, enabled, export>>

Types == Movements \cup {"document", "preinvoice"}
Stores == {"products", "contacts"}

Next ==
  \/ \E t \in Tasks :
       \/ \E i \in Ids :
            \/ \E row \in Rows : Create(t, i, row) \/ Edit(t, i, row)
            \/ Delete(t, i) \/ DeleteOld(t, i) \/ ImportRow(t, i)
            \/ \E type \in Types, qty \in 1..MaxQty : StartRef(t, i, type, qty) \/ PostRef(t, i, type, qty)
       \/ PutRow(t) \/ RemoveRow(t) \/ PutRef(t) \/ Activate(t)
       \/ Export(t) \/ \E store \in Stores : ExportSection(t, store)
       \/ \E mode \in Modes : Confirm(t, mode)
       \/ SkipRow(t) \/ EndImport(t)
  \/ \E f \in Workbooks, store \in Stores : PickFile(f, store)
  \/ \E n \in 1..MaxDialogs : OpenDialog(n)
  \/ ConfirmEmpty \/ CloseDialog \/ Crash

Spec == Init /\ [][Next]_vars
-----------------------------------------------------------------------------
(* Properties                                                              *)

\* Every state has the shape the code gives it: rows are whole, references
\* are ranked apart, a task holds what its step needs.
TypeOK ==
  /\ \A i \in Ids : Present(i) => DOMAIN master[i] = {"name", "key", "kind"} 
  /\ \A m, n \in 1..Len(refs) : m # n => refs[m].rank # refs[n].rank
  /\ enabled \in BOOLEAN /\ Range(dialogs) \subseteq Stores
  /\ \A t \in Tasks : tasks[t].pc \in {"idle", "put row", "delete row", "put ref", "import"}

\* A movement's product and a document's contact stay in the lists: the
\* controllers refuse to delete a row that has any (ProductController.js:161,
\* ContactController.js:93).
RefsResolve == \A r \in Range(refs) : master[r.id] \notin {Fresh, Gone}

\* With finance the product of a movement stays a good: its balance would
\* be left out of every stock list of goods (ProductController.js:131-136).
MovedAreGoods == enabled => \A r \in Range(refs) :
  r.type \in Movements /\ Present(r.id) => master[r.id].kind = "good"

\* No list loses the product of a movement or the contact of a document, and
\* no stock list a balance.
RefsSound == RefsResolve /\ MovedAreGoods

\* The list of products and the kardex of a product show one stock once
\* finance is enabled, when counts go through stocktakes.
PostedStockIsKardex == enabled => \A i \in Ids : StockMap(i) = Kardex(i)

Keyed(rows) ==
  \A m, n \in DOMAIN rows : rows[m].key # NoKey /\ (m # n => rows[m].key # rows[n].key)

\* A merge adds new rows only, never one that is already listed
\* (SettingsView.js:316), when the rows as the chosen list reads them have
\* keys, each its own: also when the merge is started over after a crash.
KeyedMergeStep ==
  \A t \in Tasks, i \in Ids :
    (/\ tasks[t].mode = "merge" /\ ~Present(i) /\ Present(i)'
     /\ Keyed([n \in DOMAIN tasks[t].file |-> Imported(tasks[t].file[n], tasks[t].kind)]))
    => master'[i] \notin {master[j] : j \in Ids}

\* A replacement that ends leaves the named rows of its sheet, as the chosen
\* list reads them, and no other (SettingsView.js:317): also when an earlier
\* one was interrupted, or the sheet is of the other list.
ReplaceStep ==
  \A t \in Tasks :
       At(t, "import") /\ tasks[t].mode = "replace" /\ tasks[t].rows = <<>> /\ EndImport(t)
         => LET named == SelectSeq(tasks[t].file, LAMBDA r : r.name # NoName)
                file == [n \in DOMAIN named |-> Imported(named[n], tasks[t].kind)]
                now == Listed(tasks[t].kind)
            IN  \A row \in Range(file) \cup {master[i] : i \in now} :
                  Cardinality({i \in now : master[i] = row})
                    = Len(SelectSeq(file, LAMBDA r : r = row))
=============================================================================
