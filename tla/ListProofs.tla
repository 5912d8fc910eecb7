------------------------------ MODULE ListProofs -----------------------------
(***************************************************************************)
(* A proof about MasterData, for any lists, files, quantities and crashes: *)
(* no movement or document loses its row and, with finance, what has moved *)
(* stays a good - as long as one command runs at a time and no import      *)
(* replaces a list.                                                        *)
(*                                                                         *)
(* Each controller asks in one step and writes in a later one. What makes  *)
(* the answer still true by then is that nothing else may run in between   *)
(* (Answered); the transaction of a posting needs no such help.            *)
(***************************************************************************)
EXTENDS MasterData, TLAPS

OneCommand == \A t, u \in Tasks : t = u
NoReplacement == "replace" \notin Modes

Ref == [id : Ids, type : Types, qty : 1 .. MaxQty, rank : 1 .. MaxRefs]
Asks == [id : Ids, type : Types, qty : 1 .. MaxQty]

Fields == {"pc", "id", "row", "ref", "mode", "kind", "file", "rows", "old", "seen"}

Shape ==
  /\ DOMAIN master = Ids /\ master = [i \in Ids |-> master[i]]
  /\ refs \in Seq(Ref)
  /\ tasks = [t \in Tasks |-> tasks[t]]
  /\ \A t \in Tasks : tasks[t] = [f \in Fields |-> tasks[t][f]]

\* What a command has asked is still so.
Answered(task) ==
  /\ task.pc = "put row" => /\ task.id \in Ids /\ task.row \in Rows
                            /\ KindAllowed(task.id, task.row)
  /\ task.pc = "delete row" => task.id \in Ids /\ Unused(task.id)
  /\ task.pc = "put ref" => /\ task.ref \in Asks /\ Present(task.ref.id)
                            /\ enabled => task.ref.type = "preinvoice"
  /\ task.pc = "import" => task.old = {}

ListInv == Shape /\ RefsSound /\ \A t \in Tasks : Answered(tasks[t])

LEMMA IdleAnswers == Answered(Idle) /\ Idle = [f \in Fields |-> Idle[f]]
<1>1. Idle.pc = "idle"
  BY DEF Idle
<1>2. Idle = [f \in Fields |-> Idle[f]]
  BY DEF Idle, Fields
<1> QED
  BY <1>1, <1>2 DEF Answered

LEMMA ListInit ==
  ASSUME Init
  PROVE  ListInv
<1>1. Shape
  <2>1. \A t \in Tasks : tasks[t] = Idle
    BY DEF Init
  <2> HIDE DEF Idle
  <2> QED
    BY <2>1, IdleAnswers DEF Init, Shape
<1>2. Range(refs) = {}
  BY DEF Init, Range
<1>3. RefsSound
  BY <1>2 DEF RefsSound, RefsResolve, MovedAreGoods
<1>4. \A t \in Tasks : tasks[t] = Idle
  BY DEF Init
<1> QED
  BY <1>1, <1>3, <1>4, IdleAnswers DEF ListInv

\* One command runs: what it leaves of itself is all there is.
LEMMA OnlyTask ==
  ASSUME OneCommand, ListInv, NEW t \in Tasks, NEW task, tasks' = [tasks EXCEPT ![t] = task],
         task = [f \in Fields |-> task[f]]
  PROVE  /\ tasks' = [u \in Tasks |-> tasks'[u]]
         /\ \A u \in Tasks : tasks'[u] = task /\ tasks'[u] = [f \in Fields |-> tasks'[u][f]]
BY DEF OneCommand, ListInv, Shape

\* A step that asks: the stores stay as they are.
LEMMA AskStill ==
  ASSUME OneCommand, ListInv, NEW t \in Tasks, NEW task, tasks' = [tasks EXCEPT ![t] = task],
         task = [f \in Fields |-> task[f]], Answered(task), UNCHANGED <<master, refs, enabled>>
  PROVE  ListInv'
<1>1. Answered(task)'
  BY DEF Answered, KindAllowed, Unused, Present
<1>2. Shape'
  BY OnlyTask DEF ListInv, Shape
<1>3. RefsSound'
  BY DEF ListInv, RefsSound, RefsResolve, MovedAreGoods, Present
<1>4. \A u \in Tasks : tasks'[u] = task
  BY OnlyTask
<1> QED
  BY <1>1, <1>2, <1>3, <1>4 DEF ListInv

\* A write that ends its command, or is one: nothing is under way afterwards.
LEMMA WriteStill ==
  ASSUME OneCommand, ListInv, NEW t \in Tasks,
         End(t) \/ (At(t, "idle") /\ UNCHANGED tasks),
         master' = [i \in Ids |-> master'[i]], refs' \in Seq(Ref), RefsSound'
  PROVE  ListInv'
<1>1. \A u \in Tasks : tasks[u] = tasks[t]
  BY DEF OneCommand
<1>2. CASE End(t)
  <2>1. \A u \in Tasks : tasks'[u] = Idle /\ tasks'[u] = [f \in Fields |-> tasks'[u][f]]
    BY <1>2, IdleAnswers, OnlyTask, ZenonT(40) DEF End
  <2>2. tasks' = [u \in Tasks |-> tasks'[u]]
    BY <1>2, IdleAnswers, OnlyTask DEF End
  <2>3. Idle.pc = "idle"
    BY DEF Idle
  <2> HIDE DEF Idle
  <2>4. \A u \in Tasks : Answered(tasks[u])'
    BY <2>1, <2>3 DEF Answered
  <2> QED
    BY <2>1, <2>2, <2>4 DEF ListInv, Shape
<1>3. CASE At(t, "idle") /\ UNCHANGED tasks
  <2>1. \A u \in Tasks : Answered(tasks[u])'
    BY <1>1, <1>3 DEF Answered, At
  <2> QED
    BY <1>3, <2>1 DEF ListInv, Shape
<1> QED
  BY <1>2, <1>3

-----------------------------------------------------------------------------
(* Rows                                                                    *)

LEMMA RangeOfRefs ==
  ASSUME ListInv, NEW r \in Range(refs)
  PROVE  r \in Ref /\ r.id \in Ids
<1>1. r \in Ref
  BY DEF ListInv, Shape, Range
<1> QED
  BY <1>1 DEF Ref

\* A row may be written where nothing refers to it, or where it keeps what
\* the movements need.
LEMMA RowKeeps ==
  ASSUME ListInv, NEW i \in Ids, NEW row, master' = [master EXCEPT ![i] = row],
         UNCHANGED <<refs, enabled>>,
         \/ Unused(i)
         \/ row \notin {Fresh, Gone} /\ (enabled => row.kind = master[i].kind)
  PROVE  RefsSound' /\ master' = [j \in Ids |-> master'[j]] /\ refs' \in Seq(Ref)
<1>1. \A j \in Ids : master'[j] = IF j = i THEN row ELSE master[j]
  BY DEF ListInv, Shape
<1>2. master' = [j \in Ids |-> master'[j]] /\ refs' \in Seq(Ref)
  BY DEF ListInv, Shape
<1>3. ASSUME NEW r \in Range(refs)
      PROVE  /\ master'[r.id] \notin {Fresh, Gone}
             /\ enabled /\ r.type \in Movements => master'[r.id].kind = "good"
  <2>1. r.id \in Ids /\ master[r.id] \notin {Fresh, Gone}
    BY <1>3, RangeOfRefs DEF ListInv, RefsSound, RefsResolve
  <2>2. enabled /\ r.type \in Movements => master[r.id].kind = "good"
    BY <1>3, <2>1 DEF ListInv, RefsSound, MovedAreGoods, Present
  <2>3. CASE Unused(i)
    BY <1>1, <1>3, <2>1, <2>2, <2>3 DEF Unused
  <2>4. CASE row \notin {Fresh, Gone} /\ (enabled => row.kind = master[i].kind)
    BY <1>1, <2>1, <2>2, <2>4
  <2> QED
    BY <2>3, <2>4
<1>4. RefsSound'
  BY <1>3 DEF RefsSound, RefsResolve, MovedAreGoods
<1> QED
  BY <1>2, <1>4

\* An id that was never drawn has no references.
LEMMA FreshUnused ==
  ASSUME ListInv, NEW i \in Ids, master[i] = Fresh
  PROVE  Unused(i)
BY DEF ListInv, RefsSound, RefsResolve, Unused

LEMMA CreateStill ==
  ASSUME OneCommand, ListInv, NEW t \in Tasks, NEW i \in Ids, NEW row \in Rows, Create(t, i, row)
  PROVE  ListInv'
<1>1. At(t, "idle") /\ UNCHANGED tasks /\ Unused(i)
  BY FreshUnused DEF Create
<1>2. master' = [master EXCEPT ![i] = row] /\ UNCHANGED <<refs, enabled>>
  BY DEF Create
<1>3. RefsSound' /\ master' = [j \in Ids |-> master'[j]] /\ refs' \in Seq(Ref)
  BY <1>1, <1>2, RowKeeps
<1> QED
  BY <1>1, <1>3, WriteStill

LEMMA PutRowStill ==
  ASSUME OneCommand, ListInv, NEW t \in Tasks, PutRow(t)
  PROVE  ListInv'
<1> DEFINE i == tasks[t].id
           row == tasks[t].row
<1>1. i \in Ids /\ row \in Rows /\ KindAllowed(i, row)
  BY DEF ListInv, Answered, PutRow, At
<1>2. master' = [master EXCEPT ![i] = row] /\ UNCHANGED <<refs, enabled>> /\ End(t)
  BY DEF PutRow
<1>3. row \notin {Fresh, Gone}
  BY <1>1, MasterDataAssumption
<1>4. Unused(i) \/ (enabled => row.kind = master[i].kind)
  BY <1>1 DEF KindAllowed, Unused
<1> HIDE DEF i, row
<1>5. RefsSound' /\ master' = [j \in Ids |-> master'[j]] /\ refs' \in Seq(Ref)
  BY <1>1, <1>2, <1>3, <1>4, RowKeeps
<1> QED
  BY <1>2, <1>5, WriteStill

LEMMA RemoveRowStill ==
  ASSUME OneCommand, ListInv, NEW t \in Tasks, RemoveRow(t)
  PROVE  ListInv'
<1> DEFINE i == tasks[t].id
<1>1. i \in Ids /\ Unused(i)
  BY DEF ListInv, Answered, RemoveRow, At
<1>2. master' = [master EXCEPT ![i] = Gone] /\ UNCHANGED <<refs, enabled>> /\ End(t)
  BY DEF RemoveRow
<1> HIDE DEF i
<1>3. RefsSound' /\ master' = [j \in Ids |-> master'[j]] /\ refs' \in Seq(Ref)
  BY <1>1, <1>2, RowKeeps
<1> QED
  BY <1>2, <1>3, WriteStill

\* A row of an import goes to an id that was never drawn.
LEMMA ImportRowStill ==
  ASSUME OneCommand, ListInv, NEW t \in Tasks, NEW i \in Ids, ImportRow(t, i)
  PROVE  ListInv'
<1> DEFINE task == [tasks[t] EXCEPT !.rows = Tail(@)]
           row == Imported(Head(tasks[t].rows), tasks[t].kind)
<1>1. At(t, "import") /\ tasks[t].old = {} /\ master[i] = Fresh
  BY DEF ImportRow, Drawn
<1>2. master' = [master EXCEPT ![i] = row] /\ UNCHANGED <<refs, enabled>>
  BY DEF ImportRow
<1>3. tasks' = [tasks EXCEPT ![t] = task]
  BY DEF ImportRow
<1>4. task = [f \in Fields |-> task[f]] /\ task.pc = "import" /\ task.old = {}
  BY <1>1 DEF ListInv, Shape, At, Fields
<1> HIDE DEF row, task
<1>5. RefsSound' /\ master' = [j \in Ids |-> master'[j]] /\ refs' \in Seq(Ref)
  BY <1>1, <1>2, FreshUnused, RowKeeps
<1>6. /\ tasks' = [u \in Tasks |-> tasks'[u]]
      /\ \A u \in Tasks : tasks'[u] = task /\ tasks'[u] = [f \in Fields |-> tasks'[u][f]]
  BY <1>3, <1>4, OnlyTask
<1>7. \A u \in Tasks : Answered(tasks[u])'
  BY <1>4, <1>6 DEF Answered
<1> QED
  BY <1>5, <1>6, <1>7 DEF ListInv, Shape

-----------------------------------------------------------------------------
(* Movements and documents                                                 *)

LEMMA AddKeeps ==
  ASSUME ListInv, NEW ref \in Asks, Add(ref), UNCHANGED <<master, enabled>>, Present(ref.id),
         enabled /\ ref.type \in Movements => master[ref.id].kind = "good"
  PROVE  RefsSound' /\ refs' \in Seq(Ref)
<1>1. PICK rank \in 1 .. MaxRefs :
        refs' = Append(refs, [id |-> ref.id, type |-> ref.type, qty |-> ref.qty, rank |-> rank])
  BY DEF Add
<1> DEFINE new == [id |-> ref.id, type |-> ref.type, qty |-> ref.qty, rank |-> rank]
<1>2. new \in Ref /\ new.id = ref.id /\ new.type = ref.type
  BY DEF Asks, Ref
<1>3. refs' = Append(refs, new) /\ refs \in Seq(Ref)
  BY <1>1 DEF ListInv, Shape
<1> HIDE DEF new
<1>4. refs' \in Seq(Ref)
  BY <1>2, <1>3
<1>5. ASSUME NEW k \in DOMAIN refs'
      PROVE  /\ master[refs'[k].id] \notin {Fresh, Gone}
             /\ enabled /\ refs'[k].type \in Movements => master[refs'[k].id].kind = "good"
  <2>1. CASE refs'[k] = new
    BY <1>2, <2>1 DEF Present
  <2>2. CASE k \in DOMAIN refs /\ refs'[k] = refs[k]
    <3>1. refs[k] \in Range(refs)
      BY <2>2 DEF Range
    <3> QED
      BY <2>2, <3>1 DEF ListInv, RefsSound, RefsResolve, MovedAreGoods, Present
  <2>3. refs'[k] = new \/ (k \in DOMAIN refs /\ refs'[k] = refs[k])
    BY <1>3, <1>5
  <2> QED
    BY <2>1, <2>2, <2>3
<1>6. RefsSound'
  BY <1>5 DEF RefsSound, RefsResolve, MovedAreGoods, Range
<1> QED
  BY <1>4, <1>6

LEMMA PutRefStill ==
  ASSUME OneCommand, ListInv, NEW t \in Tasks, PutRef(t)
  PROVE  ListInv'
<1> DEFINE ref == tasks[t].ref
<1>1. ref \in Asks /\ Present(ref.id) /\ (enabled => ref.type \notin Movements)
  BY DEF ListInv, Answered, PutRef, At, Movements
<1>2. Add(ref) /\ UNCHANGED <<master, enabled>> /\ End(t)
  BY DEF PutRef
<1> HIDE DEF ref
<1>3. RefsSound' /\ refs' \in Seq(Ref)
  BY <1>1, <1>2, AddKeeps
<1>4. master' = [i \in Ids |-> master'[i]]
  BY <1>2 DEF ListInv, Shape
<1> QED
  BY <1>2, <1>3, <1>4, WriteStill

LEMMA PostRefStill ==
  ASSUME OneCommand, ListInv, NEW t \in Tasks, NEW i \in Ids, NEW type \in Types,
         NEW qty \in 1 .. MaxQty, PostRef(t, i, type, qty)
  PROVE  ListInv'
<1> DEFINE ref == [id |-> i, type |-> type, qty |-> qty]
<1>1. ref \in Asks /\ ref.id = i /\ ref.type = type
  BY DEF Asks
<1>2. Add(ref) /\ UNCHANGED <<master, enabled>> /\ At(t, "idle") /\ UNCHANGED tasks /\ Present(i)
  BY DEF PostRef
<1>3. type \in Movements => master[i].kind = "good"
  BY DEF PostRef, Types, Movements
<1> HIDE DEF ref
<1>4. RefsSound' /\ refs' \in Seq(Ref)
  BY <1>1, <1>2, <1>3, AddKeeps
<1>5. master' = [j \in Ids |-> master'[j]]
  BY <1>2 DEF ListInv, Shape
<1> QED
  BY <1>2, <1>4, <1>5, WriteStill

LEMMA ActivateStill ==
  ASSUME OneCommand, ListInv, NEW t \in Tasks, Activate(t)
  PROVE  ListInv'
<1>1. At(t, "idle") /\ UNCHANGED <<tasks, master, refs>>
      /\ \A r \in Range(refs) : r.type \notin Movements
  BY DEF Activate, Movements
<1>2. RefsSound'
  BY <1>1 DEF ListInv, RefsSound, RefsResolve, MovedAreGoods
<1>3. master' = [j \in Ids |-> master'[j]] /\ refs' \in Seq(Ref)
  BY <1>1 DEF ListInv, Shape
<1> QED
  BY <1>1, <1>2, <1>3, WriteStill

-----------------------------------------------------------------------------
(* Commands that ask                                                       *)

LEMMA BeginStill ==
  ASSUME OneCommand, ListInv, NEW t \in Tasks, NEW task, Begin(t, task),
         task = [f \in Fields |-> task[f]], Answered(task), UNCHANGED <<master, refs, enabled>>
  PROVE  ListInv'
BY AskStill DEF Begin

LEMMA EditStill ==
  ASSUME OneCommand, ListInv, NEW t \in Tasks, NEW i \in Ids, NEW row \in Rows, Edit(t, i, row)
  PROVE  ListInv'
<1> DEFINE task == [Idle EXCEPT !.pc = "put row", !.id = i, !.row = row]
<1>1. task = [f \in Fields |-> task[f]] /\ task.pc = "put row" /\ task.id = i /\ task.row = row
  BY DEF Idle, Fields
<1>2. Begin(t, task) /\ KindAllowed(i, row) /\ UNCHANGED <<master, refs, enabled>>
  BY DEF Edit
<1> HIDE DEF task
<1>3. Answered(task)
  BY <1>1, <1>2 DEF Answered
<1> QED
  BY <1>1, <1>2, <1>3, BeginStill

LEMMA DeleteStill ==
  ASSUME OneCommand, ListInv, NEW t \in Tasks, NEW i \in Ids, Delete(t, i)
  PROVE  ListInv'
<1> DEFINE task == [Idle EXCEPT !.pc = "delete row", !.id = i]
<1>1. task = [f \in Fields |-> task[f]] /\ task.pc = "delete row" /\ task.id = i
  BY DEF Idle, Fields
<1>2. Begin(t, task) /\ Unused(i) /\ UNCHANGED <<master, refs, enabled>>
  BY DEF Delete
<1> HIDE DEF task
<1>3. Answered(task)
  BY <1>1, <1>2 DEF Answered
<1> QED
  BY <1>1, <1>2, <1>3, BeginStill

LEMMA StartRefStill ==
  ASSUME OneCommand, ListInv, NEW t \in Tasks, NEW i \in Ids, NEW type \in Types,
         NEW qty \in 1 .. MaxQty, StartRef(t, i, type, qty)
  PROVE  ListInv'
<1> DEFINE ref == [id |-> i, type |-> type, qty |-> qty]
           task == [Idle EXCEPT !.pc = "put ref", !.ref = ref]
<1>1. task = [f \in Fields |-> task[f]] /\ task.pc = "put ref" /\ task.ref = ref
  BY DEF Idle, Fields
<1>2. ref \in Asks /\ ref.id = i /\ ref.type = type
  BY DEF Asks
<1>3. /\ Begin(t, task) /\ Present(i) /\ (enabled => type = "preinvoice")
      /\ UNCHANGED <<master, refs, enabled>>
  BY DEF StartRef
<1> HIDE DEF task, ref
<1>4. Answered(task)
  BY <1>1, <1>2, <1>3 DEF Answered
<1> QED
  BY <1>1, <1>3, <1>4, BeginStill

\* Only a replacement has rows to delete.
LEMMA ConfirmStill ==
  ASSUME OneCommand, NoReplacement, ListInv, NEW t \in Tasks, NEW mode \in Modes, Confirm(t, mode)
  PROVE  ListInv'
<1> DEFINE store == Last(dialogs)
           old == Listed(store)
           keys == {master[i].key : i \in old}
           rows == Sheet(raw, store)
           task == [Idle EXCEPT !.pc = "import", !.mode = mode, !.kind = store, !.file = rows,
                      !.rows = rows, !.old = IF mode = "replace" THEN old ELSE {}, !.seen = keys]
<1>1. mode # "replace"
  BY DEF NoReplacement
<1>2. Begin(t, task) /\ UNCHANGED <<master, refs, enabled>>
  BY DEF Confirm
<1> HIDE DEF store, old, keys, rows
<1>3. task = [f \in Fields |-> task[f]] /\ task.pc = "import" /\ task.old = {}
  BY <1>1 DEF Idle, Fields
<1> HIDE DEF task
<1>4. Answered(task)
  BY <1>3 DEF Answered
<1> QED
  BY <1>2, <1>3, <1>4, BeginStill

LEMMA EndsStill ==
  ASSUME OneCommand, ListInv, NEW t \in Tasks, End(t), UNCHANGED <<master, refs, enabled>>
  PROVE  ListInv'
BY IdleAnswers, AskStill DEF End

LEMMA SkipRowStill ==
  ASSUME OneCommand, ListInv, NEW t \in Tasks, SkipRow(t)
  PROVE  ListInv'
<1> DEFINE task == [tasks[t] EXCEPT !.rows = Tail(@)]
<1>1. At(t, "import") /\ tasks[t].old = {} /\ UNCHANGED <<master, refs, enabled>>
      /\ tasks' = [tasks EXCEPT ![t] = task]
  BY DEF SkipRow
<1>2. task = [f \in Fields |-> task[f]] /\ task.pc = "import" /\ task.old = {}
  BY <1>1 DEF ListInv, Shape, At, Fields
<1> HIDE DEF task
<1>3. Answered(task)
  BY <1>2 DEF Answered
<1> QED
  BY <1>1, <1>2, <1>3, AskStill

\* With no replacement nothing is deleted by an import.
LEMMA NoDeleteOld ==
  ASSUME ListInv, NEW t \in Tasks, NEW i, DeleteOld(t, i)
  PROVE  FALSE
BY DEF ListInv, Answered, DeleteOld, At

LEMMA StoresStill ==
  ASSUME ListInv, UNCHANGED <<master, refs, enabled, tasks>>
  PROVE  ListInv'
<1>1. RefsSound'
  BY DEF ListInv, RefsSound, RefsResolve, MovedAreGoods, Present
<1>2. \A t \in Tasks : Answered(tasks[t])'
  BY DEF ListInv, Answered, KindAllowed, Unused, Present
<1> QED
  BY <1>1, <1>2 DEF ListInv, Shape

LEMMA CrashStill ==
  ASSUME ListInv, Crash
  PROVE  ListInv'
<1>1. tasks' = [t \in Tasks |-> Idle] /\ UNCHANGED <<master, refs, enabled>>
  BY DEF Crash
<1>2. RefsSound'
  BY <1>1 DEF ListInv, RefsSound, RefsResolve, MovedAreGoods, Present
<1>3. Idle.pc = "idle"
  BY DEF Idle
<1> HIDE DEF Idle
<1>4. \A t \in Tasks : Answered(tasks[t])'
  BY <1>1, <1>3 DEF Answered
<1> QED
  BY <1>1, <1>2, <1>4, IdleAnswers DEF ListInv, Shape

LEMMA ListNext ==
  ASSUME OneCommand, NoReplacement, ListInv, [Next]_vars
  PROVE  ListInv'
<1>1. CASE UNCHANGED vars
  BY <1>1, StoresStill DEF vars
<1>2. CASE CloseDialog \/ ConfirmEmpty
  BY <1>2, StoresStill DEF CloseDialog, ConfirmEmpty
<1>3. CASE Crash
  BY <1>3, CrashStill
<1>4. ASSUME NEW t \in Tasks, NEW i \in Ids, NEW row \in Rows, Create(t, i, row) \/ Edit(t, i, row)
      PROVE  ListInv'
  BY <1>4, CreateStill, EditStill
<1>5. ASSUME NEW t \in Tasks, NEW i \in Ids, Delete(t, i) \/ DeleteOld(t, i) \/ ImportRow(t, i)
      PROVE  ListInv'
  BY <1>5, DeleteStill, NoDeleteOld, ImportRowStill
<1>6. ASSUME NEW t \in Tasks, NEW i \in Ids, NEW type \in Types, NEW qty \in 1 .. MaxQty,
             StartRef(t, i, type, qty) \/ PostRef(t, i, type, qty)
      PROVE  ListInv'
  BY <1>6, StartRefStill, PostRefStill
<1>7. ASSUME NEW t \in Tasks, PutRow(t) \/ RemoveRow(t) \/ PutRef(t) \/ Activate(t)
      PROVE  ListInv'
  BY <1>7, PutRowStill, RemoveRowStill, PutRefStill, ActivateStill
<1>8. ASSUME NEW t \in Tasks, NEW store, Export(t) \/ ExportSection(t, store)
      PROVE  ListInv'
  BY <1>8, StoresStill DEF Export, ExportSection
<1>9. ASSUME NEW f, NEW store, NEW n, PickFile(f, store) \/ OpenDialog(n)
      PROVE  ListInv'
  BY <1>9, StoresStill DEF PickFile, OpenDialog
<1>10. ASSUME NEW t \in Tasks, NEW mode \in Modes, Confirm(t, mode)
       PROVE  ListInv'
  BY <1>10, ConfirmStill
<1>11. ASSUME NEW t \in Tasks, EndImport(t)
       PROVE  ListInv'
  BY <1>11, EndsStill DEF EndImport
<1>12. ASSUME NEW t \in Tasks, SkipRow(t)
       PROVE  ListInv'
  BY <1>12, SkipRowStill
<1>13. CASE \E t \in Tasks :
         \/ \E i \in Ids :
              \/ \E row \in Rows : Create(t, i, row) \/ Edit(t, i, row)
              \/ Delete(t, i) \/ DeleteOld(t, i) \/ ImportRow(t, i)
              \/ \E type \in Types, qty \in 1 .. MaxQty :
                   StartRef(t, i, type, qty) \/ PostRef(t, i, type, qty)
         \/ PutRow(t) \/ RemoveRow(t) \/ PutRef(t) \/ Activate(t)
         \/ Export(t) \/ \E store \in Stores : ExportSection(t, store)
         \/ \E mode \in Modes : Confirm(t, mode)
         \/ SkipRow(t) \/ EndImport(t)
  BY <1>4, <1>5, <1>6, <1>7, <1>8, <1>10, <1>11, <1>12, <1>13, Zenon
<1>14. CASE (\E f \in Workbooks, store \in Stores : PickFile(f, store))
            \/ (\E n \in 1..MaxDialogs : OpenDialog(n))
  BY <1>9, <1>14
<1> QED
  BY <1>1, <1>2, <1>3, <1>13, <1>14 DEF Next

(* A movement's product and a document's contact stay in the lists, and a  *)
(* product that has moved stays a good, through every entry, deletion,     *)
(* merge and crash of one command at a time (ProductController.js:131-161, *)
(* ContactController.js:93).                                               *)
THEOREM RefsCorrect == OneCommand /\ NoReplacement => (Spec => []RefsSound)
<1>1. Init => ListInv
  BY ListInit
<1>2. OneCommand /\ NoReplacement /\ ListInv /\ [Next]_vars => ListInv'
  BY ListNext
<1>3. ListInv => RefsSound
  BY DEF ListInv
<1>4. ASSUME OneCommand, NoReplacement
      PROVE  Spec => []RefsSound
  <2>1. ListInv /\ [Next]_vars => ListInv'
    BY <1>2, <1>4
  <2> QED
    BY <1>1, <2>1, <1>3, PTL DEF Spec
<1> QED
  BY <1>4
=============================================================================
