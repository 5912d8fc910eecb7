------------------------------ MODULE DeskProofs -----------------------------
(***************************************************************************)
(* A proof about InvoiceDesk with finance, for any number of invoices,     *)
(* kinds, windows and crashes: no two issued invoices share a number.      *)
(*                                                                         *)
(* What carries it is the transaction of issueInvoice, which reads the     *)
(* numbers again: whatever was read before it may be stale. With finance   *)
(* the plain put, which reads nothing, is for pre-invoices only (PutsPre). *)
(*                                                                         *)
(* The second theorem, for one command at a time: a posted invoice is      *)
(* never rewritten (PostedInv). What was read to refuse the rewriting is   *)
(* then still so when the command writes (Spares).                         *)
(***************************************************************************)
EXTENDS InvoiceDesk, TLAPS

Stages == {"absent", "pre", "issued"}
Rows == [stage : Stages, posted : BOOLEAN, kind : Kinds \cup {None}, number : Nat]

Pcs == {"idle", "settings", "number", "unique", "issue", "existing", "put", "count", "reread",
        "counter", "moves", "clear", "remove", "move"}
Task == [pc : Pcs, op : {"create", "edit", "convert", "delete", None}, id : Ids \cup {None},
         to : Stages \cup {None}, kind : Kinds \cup {None}, typed : Nat, row : Rows,
         settings : Nat, number : Nat, rows : SUBSET Nat]

Shape ==
  /\ invoices \in [Ids -> Rows] /\ moves \in [Ids -> SUBSET Nat] /\ nextNumber \in Nat
  /\ tasks \in [Tasks -> Task]

\* A command under way has an invoice, of some kind.
Asked == \A t \in Tasks : tasks[t].pc # "idle" =>
           tasks[t].id \in Ids /\ tasks[t].to \in Stages

PutsPre == \A t \in Tasks : tasks[t].pc \in {"unique", "existing", "put"} => tasks[t].to # "issued"

DeskInv == Shape /\ Asked /\ PutsPre /\ NumbersUnique

LEMMA MaxOfTwo ==
  ASSUME NEW a \in Nat, NEW b \in Nat
  PROVE  Max({a, b}) \in Nat
<1>1. \E m \in {a, b} : \A x \in {a, b} : m >= x
  OBVIOUS
<1>2. Max({a, b}) = CHOOSE m \in {a, b} : \A x \in {a, b} : m >= x
  BY DEF Max
<1>3. Max({a, b}) \in {a, b}
  BY <1>1, <1>2
<1> QED
  BY <1>3

\* What a step does to the locals of its command.
Moves(t, id, to, pc) ==
  /\ tasks' \in [Tasks -> Task]
  /\ \A u \in Tasks \ {t} : tasks'[u] = tasks[u]
  /\ tasks'[t].id = id /\ tasks'[t].to = to /\ tasks'[t].pc = pc

LEMMA NoRowIsRow == NoRow \in Rows
<1>1. "absent" \in Stages
  BY DEF Stages
<1>2. FALSE \in BOOLEAN /\ None \in Kinds \cup {None} /\ 0 \in Nat
  OBVIOUS
<1> QED
  BY ONLY <1>1, <1>2, Zenon DEF NoRow, Rows

LEMMA IdleIsTask == Idle \in Task /\ Idle.id = None /\ Idle.to = None /\ Idle.pc = "idle"
<1> DEFINE row == NoRow
<1>1. row \in Rows
  BY NoRowIsRow
<1>2. "idle" \in Pcs
  BY DEF Pcs
<1>3. Idle = [pc |-> "idle", op |-> None, id |-> None, to |-> None, kind |-> None, typed |-> 0,
              row |-> row, settings |-> 0, number |-> 0, rows |-> {}]
  BY DEF Idle
<1> HIDE DEF row
<1> QED
  BY ONLY <1>1, <1>2, <1>3 DEF Task

LEMMA EndMoves ==
  ASSUME Shape, NEW t \in Tasks, End(t)
  PROVE  Moves(t, None, None, "idle")
<1> HIDE DEF Idle
<1> QED
  BY IdleIsTask DEF Shape, End, Moves

LEMMA GoMoves ==
  ASSUME Shape, NEW t \in Tasks, NEW pc \in Pcs, Go(t, pc)
  PROVE  Moves(t, tasks[t].id, tasks[t].to, pc)
<1>1. tasks[t] \in Task
  BY DEF Shape
<1> DEFINE task == [tasks[t] EXCEPT !.pc = pc]
<1>2. task \in Task /\ task.id = tasks[t].id /\ task.to = tasks[t].to /\ task.pc = pc
  BY <1>1 DEF Task
<1>3. tasks' = [tasks EXCEPT ![t] = task]
  BY DEF Go
<1> HIDE DEF task
<1> QED
  BY <1>2, <1>3 DEF Shape, Moves

LEMMA BeginMoves ==
  ASSUME Shape, NEW t \in Tasks, NEW op \in {"create", "edit", "convert", "delete"},
         NEW i \in Ids, NEW to \in Stages, NEW kind \in Kinds \cup {None}, NEW typed \in Nat,
         NEW pc \in Pcs, Begin(t, op, i, to, kind, typed, pc)
  PROVE  Moves(t, i, to, pc) /\ UNCHANGED <<invoices, moves, nextNumber>>
<1> DEFINE task == [pc |-> pc, op |-> op, id |-> i, to |-> to, kind |-> kind, typed |-> typed,
                    row |-> invoices[i], settings |-> 0, number |-> 0, rows |-> {}]
<1>1. invoices[i] \in Rows
  BY DEF Shape
<1>2. task \in Task /\ task.id = i /\ task.to = to /\ task.pc = pc
  BY <1>1 DEF Task
<1>3. tasks' = [tasks EXCEPT ![t] = task] /\ UNCHANGED <<invoices, moves, nextNumber>>
  BY DEF Begin
<1> HIDE DEF task
<1> QED
  BY <1>2, <1>3 DEF Shape, Moves

-----------------------------------------------------------------------------
(* Steps that leave the invoices alone                                     *)

\* They keep the invariant when the pc they leave does.
LEMMA StillInvoices ==
  ASSUME DeskInv, NEW t \in Tasks, NEW id \in Ids \cup {None}, NEW to \in Stages \cup {None},
         NEW pc \in Pcs,
         Moves(t, id, to, pc), UNCHANGED invoices, moves' \in [Ids -> SUBSET Nat], nextNumber' \in Nat,
         pc # "idle" => id \in Ids /\ to \in Stages,
         pc \in {"unique", "existing", "put"} => to # "issued"
  PROVE  DeskInv'
<1>1. Shape'
  BY DEF DeskInv, Shape, Moves
<1>2. Asked' /\ PutsPre'
  <2> SUFFICES ASSUME NEW u \in Tasks
               PROVE  /\ (tasks[u].pc # "idle")' => (tasks[u].id \in Ids /\ tasks[u].to \in Stages)'
                      /\ (tasks[u].pc \in {"unique", "existing", "put"})' => (tasks[u].to # "issued")'
    BY DEF Asked, PutsPre
  <2>1. CASE u = t
    BY <2>1 DEF Moves
  <2>2. CASE u # t
    <3>1. tasks'[u] = tasks[u]
      BY <2>2 DEF Moves
    <3> QED
      BY <3>1 DEF DeskInv, Asked, PutsPre
  <2> QED
    BY <2>1, <2>2
<1>3. NumbersUnique'
  BY DEF DeskInv, NumbersUnique, Issued
<1> QED
  BY <1>1, <1>2, <1>3 DEF DeskInv

LEMMA IdMoves ==
  ASSUME DeskInv, NEW t \in Tasks
  PROVE  tasks[t].id \in Ids \cup {None} /\ tasks[t].to \in Stages \cup {None}
         /\ (tasks[t].pc # "idle" => tasks[t].id \in Ids /\ tasks[t].to \in Stages)
         /\ (tasks[t].pc \in {"unique", "existing", "put"} => tasks[t].to # "issued")
BY DEF DeskInv, Shape, Asked, PutsPre, Task

LEMMA EndStill ==
  ASSUME DeskInv, NEW t \in Tasks, End(t), UNCHANGED invoices,
         moves' \in [Ids -> SUBSET Nat], nextNumber' \in Nat
  PROVE  DeskInv'
<1>1. Moves(t, None, None, "idle") /\ "idle" \in Pcs
  BY EndMoves DEF DeskInv, Pcs
<1> QED
  BY <1>1, StillInvoices

LEMMA GoStill ==
  ASSUME DeskInv, NEW t \in Tasks, NEW pc \in Pcs, Go(t, pc), tasks[t].pc # "idle",
         UNCHANGED invoices, moves' \in [Ids -> SUBSET Nat], nextNumber' \in Nat,
         pc \in {"unique", "existing", "put"} => tasks[t].to # "issued"
  PROVE  DeskInv'
<1>1. Moves(t, tasks[t].id, tasks[t].to, pc)
  BY GoMoves DEF DeskInv
<1> QED
  BY <1>1, IdMoves, StillInvoices

LEMMA BeginStill ==
  ASSUME V2, DeskInv, NEW t \in Tasks, Ask(t)
  PROVE  DeskInv'
<1>1. CASE \E i \in Ids, to \in {"pre", "issued"}, kind \in Kinds, typed \in Typed :
             CreateInvoice(t, i, to, kind, typed) \/ EditInvoice(t, i, to, kind, typed)
  <2>1. PICK i \in Ids, to \in {"pre", "issued"}, kind \in Kinds, typed \in Typed :
          CreateInvoice(t, i, to, kind, typed) \/ EditInvoice(t, i, to, kind, typed)
    BY <1>1
  <2>2. typed \in Nat /\ to \in Stages /\ kind \in Kinds \cup {None}
    BY DeskAssumption DEF Stages
  <2>3. CASE CreateInvoice(t, i, to, kind, typed)
    <3>1. Begin(t, "create", i, to, kind, typed, "settings")
      BY <2>3 DEF CreateInvoice
    <3>2. "settings" \in Pcs /\ "create" \in {"create", "edit", "convert", "delete"}
      BY DEF Pcs
    <3>3. Moves(t, i, to, "settings") /\ UNCHANGED <<invoices, moves, nextNumber>>
      BY <2>2, <3>1, <3>2, BeginMoves DEF DeskInv
    <3> QED
      BY <2>2, <3>2, <3>3, StillInvoices DEF DeskInv, Shape
  <2>4. CASE EditInvoice(t, i, to, kind, typed)
    <3> DEFINE pc == IF V2 /\ to = "issued" THEN "settings" ELSE "existing"
    <3>1. Begin(t, "edit", i, to, kind, typed, pc)
      BY <2>4 DEF EditInvoice
    <3>2. pc \in Pcs /\ "edit" \in {"create", "edit", "convert", "delete"}
      BY DEF Pcs
    <3>3. pc \in {"unique", "existing", "put"} => to # "issued"
      OBVIOUS
    <3> HIDE DEF pc
    <3>4. Moves(t, i, to, pc) /\ UNCHANGED <<invoices, moves, nextNumber>>
      BY <2>2, <3>1, <3>2, BeginMoves DEF DeskInv
    <3> QED
      BY <2>2, <3>2, <3>3, <3>4, StillInvoices DEF DeskInv, Shape
  <2> QED
    BY <2>1, <2>3, <2>4
<1>2. CASE \E i \in Ids : ConvertPreInvoice(t, i) \/ DeleteInvoice(t, i)
  <2>1. PICK i \in Ids : ConvertPreInvoice(t, i) \/ DeleteInvoice(t, i)
    BY <1>2
  <2> DEFINE kind == invoices[i].kind
  <2>2. kind \in Kinds \cup {None}
    BY DEF DeskInv, Shape, Rows
  <2>3. \/ Begin(t, "convert", i, "issued", kind, 0, "number")
        \/ Begin(t, "delete", i, "absent", kind, 0, "moves")
    BY <2>1 DEF ConvertPreInvoice, DeleteInvoice
  <2> HIDE DEF kind
  <2>4. "number" \in Pcs /\ "moves" \in Pcs /\ "issued" \in Stages /\ "absent" \in Stages /\ 0 \in Nat
        /\ {"convert", "delete"} \subseteq {"create", "edit", "convert", "delete"}
    BY DEF Pcs, Stages
  <2>5. CASE Begin(t, "convert", i, "issued", kind, 0, "number")
    <3>1. Moves(t, i, "issued", "number") /\ UNCHANGED <<invoices, moves, nextNumber>>
      BY <2>2, <2>4, <2>5, BeginMoves DEF DeskInv
    <3> QED
      BY <2>4, <3>1, StillInvoices DEF DeskInv, Shape
  <2>6. CASE Begin(t, "delete", i, "absent", kind, 0, "moves")
    <3>1. Moves(t, i, "absent", "moves") /\ UNCHANGED <<invoices, moves, nextNumber>>
      BY <2>2, <2>4, <2>6, BeginMoves DEF DeskInv
    <3> QED
      BY <2>4, <3>1, StillInvoices DEF DeskInv, Shape
  <2> QED
    BY <2>3, <2>5, <2>6
<1> QED
  BY <1>1, <1>2 DEF Ask

\* A step that reads into the locals.
LEMMA ReadStill ==
  ASSUME DeskInv, NEW t \in Tasks, tasks[t].pc # "idle", NEW task \in Task,
         tasks' = [tasks EXCEPT ![t] = task], UNCHANGED <<invoices, moves, nextNumber>>,
         task.id = tasks[t].id, task.to = tasks[t].to,
         task.pc \in {"unique", "existing", "put"} => task.to # "issued"
  PROVE  DeskInv'
<1>1. Moves(t, task.id, task.to, task.pc) /\ task.pc \in Pcs
  BY DEF Moves, DeskInv, Shape, Task
<1> QED
  BY <1>1, IdMoves, StillInvoices DEF DeskInv, Shape

LEMMA FreshMoves ==
  ASSUME DeskInv, NEW i, NEW r \in 1 .. MaxRow
  PROVE  [moves EXCEPT ![i] = @ \cup {r}] \in [Ids -> SUBSET Nat]
<1>1. r \in Nat
  BY DeskAssumption
<1> QED
  BY <1>1 DEF DeskInv, Shape

-----------------------------------------------------------------------------
(* Steps that write an invoice                                             *)

\* An invoice may be written when it is no longer issued, or its number is free.
LEMMA WriteKeeps ==
  ASSUME DeskInv, NEW i \in Ids, NEW row \in Rows, invoices' = [invoices EXCEPT ![i] = row],
         row.stage = "issued" => \A j \in Issued : invoices[j].number # row.number
  PROVE  NumbersUnique' /\ invoices' \in [Ids -> Rows]
<1>1. \A j \in Ids : invoices'[j] = IF j = i THEN row ELSE invoices[j]
  BY DEF DeskInv, Shape
<1>2. \A j \in Issued' : j \in Ids /\ (j # i => j \in Issued) /\ (j = i => row.stage = "issued")
  BY <1>1 DEF Issued
<1>3. NumbersUnique'
  BY <1>1, <1>2 DEF DeskInv, NumbersUnique
<1> QED
  BY <1>3 DEF DeskInv, Shape

LEMMA WriteStill ==
  ASSUME DeskInv, NEW t \in Tasks, NEW id \in Ids \cup {None}, NEW to \in Stages \cup {None},
         NEW pc \in Pcs, Moves(t, id, to, pc),
         NumbersUnique', invoices' \in [Ids -> Rows],
         moves' \in [Ids -> SUBSET Nat], UNCHANGED nextNumber,
         pc # "idle" => id \in Ids /\ to \in Stages, pc \notin {"unique", "existing", "put"}
  PROVE  DeskInv'
<1>1. Shape'
  BY DEF DeskInv, Shape, Moves
<1>2. Asked' /\ PutsPre'
  <2> SUFFICES ASSUME NEW u \in Tasks
               PROVE  /\ (tasks[u].pc # "idle")' => (tasks[u].id \in Ids /\ tasks[u].to \in Stages)'
                      /\ (tasks[u].pc \in {"unique", "existing", "put"})' => (tasks[u].to # "issued")'
    BY DEF Asked, PutsPre
  <2>1. CASE u = t
    BY <2>1 DEF Moves
  <2>2. CASE u # t
    <3>1. tasks'[u] = tasks[u]
      BY <2>2 DEF Moves
    <3> QED
      BY <3>1 DEF DeskInv, Asked, PutsPre
  <2> QED
    BY <2>1, <2>2
<1> QED
  BY <1>1, <1>2 DEF DeskInv

LEMMA IssueStill ==
  ASSUME DeskInv, NEW t \in Tasks, IssueInvoice(t)
  PROVE  DeskInv'
<1> DEFINE task == tasks[t]
           row == [stage |-> "issued", posted |-> TRUE, kind |-> task.kind, number |-> task.number]
<1>1. task \in Task /\ task.pc = "issue"
  BY DEF DeskInv, Shape, IssueInvoice, At
<1>2. task.id \in Ids /\ task.to \in Stages
  BY <1>1 DEF DeskInv, Asked
<1>3. CASE invoices[task.id].stage = "issued" \/ NumberTaken(task.number, None)
  <2>1. End(t) /\ UNCHANGED <<invoices, moves, nextNumber>>
    BY <1>3 DEF IssueInvoice
  <2> QED
    BY <2>1, EndStill DEF DeskInv, Shape
<1>4. CASE ~(invoices[task.id].stage = "issued" \/ NumberTaken(task.number, None))
  <2>1. /\ invoices' = [invoices EXCEPT ![task.id] = row] /\ nextNumber' = nextNumber
        /\ \E r \in 1 .. MaxRow : moves' = [moves EXCEPT ![task.id] = @ \cup {r}]
        /\ Go(t, "count")
    BY <1>4 DEF IssueInvoice
  <2>2. row \in Rows /\ row.stage = "issued" /\ row.number = task.number
    <3>1. "issued" \in Stages /\ TRUE \in BOOLEAN
      BY DEF Stages
    <3>2. task.kind \in Kinds \cup {None} /\ task.number \in Nat
      BY <1>1 DEF Task
    <3> QED
      BY ONLY <3>1, <3>2 DEF Rows
  <2>3. \A j \in Issued : invoices[j].number # row.number
    BY <1>4, <2>2, DeskAssumption DEF NumberTaken, Issued
  <2>4. moves' \in [Ids -> SUBSET Nat]
    BY <2>1, FreshMoves
  <2>5. Moves(t, task.id, task.to, "count") /\ "count" \in Pcs
    BY <2>1, GoMoves DEF DeskInv, Pcs
  <2> HIDE DEF row, task
  <2>6. NumbersUnique' /\ invoices' \in [Ids -> Rows]
    BY <1>2, <2>1, <2>2, <2>3, WriteKeeps
  <2> QED
    BY <1>2, <2>1, <2>4, <2>5, <2>6, WriteStill
<1> QED
  BY <1>3, <1>4

LEMMA PutStill ==
  ASSUME DeskInv, NEW t \in Tasks, PutInvoice(t)
  PROVE  DeskInv'
<1> DEFINE task == tasks[t]
           row == [stage |-> task.to, posted |-> task.row.posted, kind |-> task.kind,
                   number |-> task.number]
           counts == task.to = "issued" /\ (task.op = "create" \/ task.row.stage = "pre")
           pc == IF counts /\ task.op # "convert" THEN "count" ELSE "moves"
<1>1. task \in Task /\ task.pc = "put"
  BY DEF DeskInv, Shape, PutInvoice, At
<1>2. task.id \in Ids /\ task.to \in Stages /\ task.to # "issued"
  BY <1>1 DEF DeskInv, Asked, PutsPre
<1>3. invoices' = [invoices EXCEPT ![task.id] = row] /\ Go(t, pc) /\ UNCHANGED <<moves, nextNumber>>
  BY DEF PutInvoice
<1>4. row \in Rows /\ row.stage # "issued"
  <2>1. task.row.posted \in BOOLEAN /\ task.kind \in Kinds \cup {None} /\ task.number \in Nat
    BY <1>1 DEF Task, Rows
  <2> QED
    BY <1>2, <2>1 DEF Rows
<1>5. pc \in Pcs /\ pc # "idle" /\ pc \notin {"unique", "existing", "put"}
  BY DEF Pcs
<1> HIDE DEF row, pc
<1>6. NumbersUnique' /\ invoices' \in [Ids -> Rows]
  BY <1>2, <1>3, <1>4, WriteKeeps
<1>7. Moves(t, task.id, task.to, pc)
  BY <1>3, <1>5, GoMoves DEF DeskInv
<1>8. moves' \in [Ids -> SUBSET Nat]
  BY <1>3 DEF DeskInv, Shape
<1> HIDE DEF task
<1> QED
  BY <1>2, <1>3, <1>5, <1>6, <1>7, <1>8, WriteStill

LEMMA RemoveStill ==
  ASSUME DeskInv, NEW t \in Tasks, RemoveInvoice(t)
  PROVE  DeskInv'
<1>1. tasks[t].id \in Ids
  BY DEF DeskInv, Asked, RemoveInvoice, At
<1>2. invoices' = [invoices EXCEPT ![tasks[t].id] = NoRow] /\ End(t) /\ UNCHANGED <<moves, nextNumber>>
  BY DEF RemoveInvoice
<1>3. NoRow \in Rows /\ NoRow.stage # "issued"
  BY NoRowIsRow DEF NoRow
<1> HIDE DEF NoRow
<1>4. NumbersUnique' /\ invoices' \in [Ids -> Rows]
  BY <1>1, <1>2, <1>3, WriteKeeps
<1>5. Moves(t, None, None, "idle") /\ "idle" \in Pcs
  BY <1>2, EndMoves DEF DeskInv, Pcs
<1>6. moves' \in [Ids -> SUBSET Nat]
  BY <1>2 DEF DeskInv, Shape
<1> QED
  BY <1>2, <1>4, <1>5, <1>6, WriteStill

-----------------------------------------------------------------------------
(* Every step                                                              *)

LEMMA ReadsStill ==
  ASSUME V2, DeskInv, NEW t \in Tasks,
         ReadSettings(t) \/ DrawNumber(t) \/ ReadExisting(t) \/ RereadSettings(t) \/ ReadMoves(t)
  PROVE  DeskInv'
<1> DEFINE task == tasks[t]
<1>1. task \in Task /\ nextNumber \in Nat /\ UNCHANGED <<invoices, moves, nextNumber>>
      /\ moves' \in [Ids -> SUBSET Nat] /\ nextNumber' \in Nat
  BY DEF DeskInv, Shape, ReadSettings, DrawNumber, ReadExisting, RereadSettings, ReadMoves
<1>2. {"number", "counter", "clear", "issue", "unique", "put"} \subseteq Pcs
  BY DEF Pcs
<1>3. CASE End(t)
  BY <1>1, <1>3, EndStill
<1>4. CASE ReadSettings(t) /\ ~End(t)
  <2> DEFINE read == [task EXCEPT !.settings = nextNumber, !.pc = "number"]
  <2>1. tasks' = [tasks EXCEPT ![t] = read] /\ task.pc # "idle"
    BY <1>4 DEF ReadSettings, At
  <2>2. read \in Task /\ read.id = task.id /\ read.to = task.to /\ read.pc = "number"
    BY <1>1, <1>2 DEF Task
  <2> HIDE DEF read
  <2> QED
    BY <1>1, <2>1, <2>2, ReadStill
<1>5. CASE RereadSettings(t) /\ ~End(t)
  <2> DEFINE read == [task EXCEPT !.settings = nextNumber, !.pc = "counter"]
  <2>1. tasks' = [tasks EXCEPT ![t] = read] /\ task.pc # "idle"
    BY <1>5 DEF RereadSettings, At
  <2>2. read \in Task /\ read.id = task.id /\ read.to = task.to /\ read.pc = "counter"
    BY <1>1, <1>2 DEF Task
  <2> HIDE DEF read
  <2> QED
    BY <1>1, <2>1, <2>2, ReadStill
<1>6. CASE ReadMoves(t) /\ ~End(t)
  <2> DEFINE read == [task EXCEPT !.rows = moves[task.id], !.pc = "clear"]
  <2>1. tasks' = [tasks EXCEPT ![t] = read] /\ task.pc # "idle"
    BY <1>6 DEF ReadMoves, At
  <2>2. moves[task.id] \in SUBSET Nat
    BY <2>1 DEF DeskInv, Shape, Asked
  <2>3. read \in Task /\ read.id = task.id /\ read.to = task.to /\ read.pc = "clear"
    BY <1>1, <1>2, <2>2 DEF Task
  <2> HIDE DEF read
  <2> QED
    BY <1>1, <2>1, <2>3, ReadStill
<1>7. CASE DrawNumber(t) /\ ~End(t)
  <2> DEFINE minimum == MinimumNumber(task.kind)
             number == IF task.typed = 0 THEN minimum ELSE task.typed
             pc == IF Finance(t) THEN "issue" ELSE "unique"
             read == [task EXCEPT !.number = number, !.pc = pc]
  <2>1. tasks' = [tasks EXCEPT ![t] = read] /\ task.pc # "idle" /\ number \in 1 .. MaxNumber
    BY <1>7 DEF DrawNumber, At
  <2>2. pc \in Pcs /\ (pc \in {"unique", "existing", "put"} => task.to # "issued")
    BY <1>2, V2 DEF Finance
  <2> HIDE DEF number, pc
  <2>3. number \in Nat
    BY <2>1, DeskAssumption
  <2>4. read \in Task /\ read.id = task.id /\ read.to = task.to /\ read.pc = pc
    BY <1>1, <2>2, <2>3 DEF Task
  <2> HIDE DEF read
  <2> QED
    BY <1>1, <2>1, <2>2, <2>4, ReadStill
<1>8. CASE ReadExisting(t) /\ ~End(t)
  <2> DEFINE row == invoices[task.id]
             read == [task EXCEPT !.row = row, !.pc = "put", !.number = row.number]
  <2>1. tasks' = [tasks EXCEPT ![t] = read] /\ task.pc = "existing"
    BY <1>8 DEF ReadExisting, At
  <2>2. row \in Rows /\ row.number \in Nat
    BY <2>1 DEF DeskInv, Shape, Asked, Rows
  <2>3. task.to # "issued"
    BY <2>1 DEF DeskInv, PutsPre
  <2> HIDE DEF row
  <2>4. read \in Task /\ read.id = task.id /\ read.to = task.to /\ read.pc = "put"
    BY <1>1, <1>2, <2>2 DEF Task
  <2> HIDE DEF read
  <2> QED
    BY <1>1, <2>1, <2>3, <2>4, ReadStill
<1> HIDE DEF task
<1> QED
  BY <1>3, <1>4, <1>5, <1>6, <1>7, <1>8

LEMMA GoesStill ==
  ASSUME DeskInv, NEW t \in Tasks,
         AssertUniqueNumber(t) \/ RecordIssuedInvoice(t) \/ SaveInvoiceSettings(t) \/ DeleteMoves(t)
           \/ PutMove(t)
  PROVE  DeskInv'
<1>1. {"put", "count", "reread", "counter", "moves", "remove", "move"} \subseteq Pcs
  BY DEF Pcs
<1>2. invoices' = invoices /\ tasks[t].pc # "idle"
  BY DEF AssertUniqueNumber, RecordIssuedInvoice, SaveInvoiceSettings, DeleteMoves, PutMove, At
<1>3. nextNumber' \in Nat
  <2>1. tasks[t].settings \in Nat /\ tasks[t].number + 1 \in Nat
    BY DEF DeskInv, Shape, Task
  <2>2. Max({tasks[t].settings, tasks[t].number + 1}) \in Nat
    BY <2>1, MaxOfTwo
  <2> QED
    BY <2>2 DEF AssertUniqueNumber, RecordIssuedInvoice, SaveInvoiceSettings, DeleteMoves, PutMove,
                DeskInv, Shape
<1>4. moves' \in [Ids -> SUBSET Nat]
  <2>1. CASE UNCHANGED moves
    BY <2>1 DEF DeskInv, Shape
  <2>2. CASE DeleteMoves(t)
    BY <2>2 DEF DeleteMoves, DeskInv, Shape
  <2>3. CASE PutMove(t)
    <3>1. PICK r \in 1 .. MaxRow : moves' = [moves EXCEPT ![tasks[t].id] = @ \cup {r}]
      BY <2>3 DEF PutMove
    <3> QED
      BY <3>1, FreshMoves
  <2> QED
    BY <2>1, <2>2, <2>3 DEF AssertUniqueNumber, RecordIssuedInvoice, SaveInvoiceSettings
<1>5. \/ End(t)
      \/ Go(t, "put") /\ tasks[t].pc = "unique"
      \/ \E pc \in {"count", "reread", "counter", "moves", "remove", "move"} : Go(t, pc)
  BY DEF AssertUniqueNumber, RecordIssuedInvoice, SaveInvoiceSettings, DeleteMoves, PutMove, At
<1>6. CASE End(t)
  BY <1>2, <1>3, <1>4, <1>6, EndStill
<1>7. CASE Go(t, "put") /\ tasks[t].pc = "unique"
  <2>1. tasks[t].to # "issued"
    BY <1>7 DEF DeskInv, PutsPre
  <2> QED
    BY <1>1, <1>2, <1>3, <1>4, <1>7, <2>1, GoStill
<1>8. ASSUME NEW pc \in {"count", "reread", "counter", "moves", "remove", "move"}, Go(t, pc)
      PROVE  DeskInv'
  <2>1. pc \in Pcs /\ pc \notin {"unique", "existing", "put"}
    BY <1>1
  <2> QED
    BY <1>2, <1>3, <1>4, <1>8, <2>1, GoStill
<1> QED
  BY <1>5, <1>6, <1>7, <1>8

LEMMA CrashStill ==
  ASSUME DeskInv, Crash
  PROVE  DeskInv'
<1>1. tasks' = [t \in Tasks |-> Idle] /\ UNCHANGED <<invoices, moves, nextNumber>>
  BY DEF Crash
<1> HIDE DEF Idle
<1>2. Shape'
  BY <1>1, IdleIsTask DEF DeskInv, Shape
<1>3. Asked' /\ PutsPre'
  BY <1>1, IdleIsTask DEF Asked, PutsPre
<1> QED
  BY <1>1, <1>2, <1>3 DEF DeskInv, NumbersUnique, Issued

LEMMA DeskInit ==
  ASSUME Init
  PROVE  DeskInv
<1>1. NoRow \in Rows /\ NoRow.stage # "issued"
  BY NoRowIsRow DEF NoRow
<1>2. \A i \in Ids : invoices[i] = NoRow
  BY DEF Init
<1>3. Issued = {}
  BY <1>1, <1>2 DEF Issued
<1> HIDE DEF NoRow, Idle
<1>4. Shape
  BY <1>1, IdleIsTask DEF Init, Shape
<1>5. Asked /\ PutsPre
  BY IdleIsTask DEF Init, Asked, PutsPre
<1> QED
  BY <1>3, <1>4, <1>5 DEF DeskInv, NumbersUnique

LEMMA DeskNext ==
  ASSUME V2, DeskInv, [Next]_vars
  PROVE  DeskInv'
<1>1. CASE UNCHANGED vars
  BY <1>1 DEF vars, DeskInv, Shape, Asked, PutsPre, NumbersUnique, Issued
<1>2. CASE Crash
  BY <1>2, CrashStill
<1>3. ASSUME NEW t \in Tasks, Ask(t) \/ Step(t)
      PROVE  DeskInv'
  BY <1>3, BeginStill, IssueStill, PutStill, RemoveStill, ReadsStill, GoesStill DEF Step
<1> QED
  BY <1>1, <1>2, <1>3 DEF Next

(* With finance no two issued invoices ever share a number, whichever     *)
(* commands run at once, whatever was typed and wherever the program      *)
(* stops (InvoiceController.js:23-28, RetailPostingService.js).           *)
THEOREM NumbersCorrect == V2 => (Spec => []NumbersUnique)
<1>1. Init => DeskInv
  BY DeskInit
<1>2. V2 /\ DeskInv /\ [Next]_vars => DeskInv'
  BY DeskNext
<1>3. DeskInv => NumbersUnique
  BY DEF DeskInv
<1>4. ASSUME V2
      PROVE  Spec => []NumbersUnique
  <2>1. DeskInv /\ [Next]_vars => DeskInv'
    BY <1>2, <1>4
  <2> QED
    BY <1>1, <2>1, <1>3, PTL DEF Spec
<1> QED
  BY <1>4

-----------------------------------------------------------------------------
(* With one command at a time what is posted stays as it is.               *)

OneCommand == \A t, u \in Tasks : t = u

PostedIssued == \A i \in Ids : invoices[i].posted => invoices[i].stage = "issued"

\* A command works on an invoice that was not posted when it began and is not
\* yet, unless it has posted it itself, after which only counters follow.
Spares(task) ==
  task.pc # "idle" =>
    /\ ~task.row.posted
    /\ task.pc = "issue" => task.to = "issued"
    /\ \/ ~invoices[task.id].posted
       \/ task.to = "issued" /\ task.pc \in {"count", "reread", "counter"}

PostedInv == DeskInv /\ PostedIssued /\ \A t \in Tasks : Spares(tasks[t])

LEMMA OnlyCommand ==
  ASSUME OneCommand, Shape, NEW t \in Tasks, NEW task, tasks' = [tasks EXCEPT ![t] = task]
  PROVE  \A u \in Tasks : tasks'[u] = task
BY DEF OneCommand, Shape

LEMMA TaskSpares ==
  ASSUME OneCommand, PostedInv, NEW t \in Tasks, NEW task, tasks' = [tasks EXCEPT ![t] = task],
         UNCHANGED invoices, Spares(task)
  PROVE  PostedIssued' /\ \A u \in Tasks : Spares(tasks[u])'
<1>1. \A u \in Tasks : tasks'[u] = task
  BY OnlyCommand DEF PostedInv, DeskInv
<1> QED
  BY <1>1 DEF PostedInv, PostedIssued, Spares

LEMMA EndSpares ==
  ASSUME OneCommand, PostedInv, NEW t \in Tasks, End(t), UNCHANGED invoices
  PROVE  PostedIssued' /\ \A u \in Tasks : Spares(tasks[u])'
<1>1. Spares(Idle)
  BY IdleIsTask DEF Spares
<1> HIDE DEF Idle
<1> QED
  BY <1>1, TaskSpares DEF End

LEMMA GoSpares ==
  ASSUME OneCommand, PostedInv, NEW t \in Tasks, NEW pc \in Pcs \ {"issue"}, Go(t, pc),
         tasks[t].pc # "idle", UNCHANGED invoices,
         \/ ~invoices[tasks[t].id].posted
         \/ tasks[t].to = "issued" /\ pc \in {"count", "reread", "counter"}
  PROVE  PostedIssued' /\ \A u \in Tasks : Spares(tasks[u])'
<1> DEFINE task == [tasks[t] EXCEPT !.pc = pc]
<1>1. tasks[t] \in Task
  BY DEF PostedInv, DeskInv, Shape
<1>2. task.id = tasks[t].id /\ task.to = tasks[t].to /\ task.pc = pc /\ task.row = tasks[t].row
  BY <1>1 DEF Task
<1>3. tasks' = [tasks EXCEPT ![t] = task]
  BY DEF Go
<1> HIDE DEF task
<1>4. Spares(task)
  BY <1>2 DEF PostedInv, Spares
<1> QED
  BY <1>3, <1>4, TaskSpares

LEMMA BeginSpares ==
  ASSUME OneCommand, PostedInv, NEW t \in Tasks, NEW op, NEW i \in Ids, NEW to, NEW kind,
         NEW typed, NEW pc \in Pcs \ {"issue"}, Begin(t, op, i, to, kind, typed, pc),
         ~invoices[i].posted
  PROVE  PostedIssued' /\ \A u \in Tasks : Spares(tasks[u])'
<1> DEFINE row == invoices[i]
           task == [pc |-> pc, op |-> op, id |-> i, to |-> to, kind |-> kind, typed |-> typed,
                    row |-> row, settings |-> 0, number |-> 0, rows |-> {}]
<1>1. tasks' = [tasks EXCEPT ![t] = task] /\ UNCHANGED invoices
  BY DEF Begin
<1>2. task.pc = pc /\ task.id = i /\ task.row = invoices[i]
  OBVIOUS
<1> HIDE DEF task
<1>3. Spares(task)
  BY <1>2 DEF Spares
<1> QED
  BY <1>1, <1>3, TaskSpares

LEMMA AskSpares ==
  ASSUME OneCommand, PostedInv, NEW t \in Tasks, Ask(t)
  PROVE  PostedIssued' /\ (\A u \in Tasks : Spares(tasks[u])') /\ UNCHANGED <<invoices, moves>>
<1>1. ASSUME NEW i \in Ids, NEW to, NEW kind, NEW typed,
             CreateInvoice(t, i, to, kind, typed) \/ EditInvoice(t, i, to, kind, typed)
      PROVE  PostedIssued' /\ (\A u \in Tasks : Spares(tasks[u])') /\ UNCHANGED <<invoices, moves>>
  <2> DEFINE pc == IF V2 /\ to = "issued" THEN "settings" ELSE "existing"
  <2>1. ~invoices[i].posted
    BY <1>1 DEF CreateInvoice, EditInvoice, NoRow
  <2>2. \/ Begin(t, "create", i, to, kind, typed, "settings")
        \/ Begin(t, "edit", i, to, kind, typed, pc)
    BY <1>1 DEF CreateInvoice, EditInvoice
  <2>3. "settings" \in Pcs \ {"issue"} /\ pc \in Pcs \ {"issue"}
    BY DEF Pcs
  <2> HIDE DEF pc
  <2>4. PostedIssued' /\ (\A u \in Tasks : Spares(tasks[u])')
    BY <2>1, <2>2, <2>3, BeginSpares
  <2> QED
    BY <2>2, <2>4 DEF Begin
<1>2. ASSUME NEW i \in Ids, ConvertPreInvoice(t, i) \/ DeleteInvoice(t, i)
      PROVE  PostedIssued' /\ (\A u \in Tasks : Spares(tasks[u])') /\ UNCHANGED <<invoices, moves>>
  <2> DEFINE kind == invoices[i].kind
  <2>1. ~invoices[i].posted
    BY <1>2 DEF ConvertPreInvoice, DeleteInvoice, PostedInv, PostedIssued
  <2>2. \/ Begin(t, "convert", i, "issued", kind, 0, "number")
        \/ Begin(t, "delete", i, "absent", kind, 0, "moves")
    BY <1>2 DEF ConvertPreInvoice, DeleteInvoice
  <2>3. "number" \in Pcs \ {"issue"} /\ "moves" \in Pcs \ {"issue"}
    BY DEF Pcs
  <2> HIDE DEF kind
  <2>4. PostedIssued' /\ (\A u \in Tasks : Spares(tasks[u])')
    BY <2>1, <2>2, <2>3, BeginSpares
  <2> QED
    BY <2>2, <2>4 DEF Begin
<1> QED
  BY <1>1, <1>2 DEF Ask

\* A command that has not come to its counters works on what is not posted.
LEMMA NotPosted ==
  ASSUME PostedInv, NEW t \in Tasks, tasks[t].pc # "idle",
         tasks[t].pc \notin {"count", "reread", "counter"}
  PROVE  tasks[t].id \in Ids /\ ~invoices[tasks[t].id].posted /\ ~tasks[t].row.posted
BY DEF PostedInv, DeskInv, Asked, Spares

LEMMA ReadsSpare ==
  ASSUME V2, OneCommand, PostedInv, NEW t \in Tasks,
         ReadSettings(t) \/ DrawNumber(t) \/ ReadExisting(t) \/ RereadSettings(t) \/ ReadMoves(t)
  PROVE  PostedIssued' /\ (\A u \in Tasks : Spares(tasks[u])') /\ UNCHANGED <<invoices, moves>>
<1> DEFINE task == tasks[t]
<1>1. task \in Task /\ UNCHANGED <<invoices, moves>>
  BY DEF PostedInv, DeskInv, Shape, ReadSettings, DrawNumber, ReadExisting, RereadSettings, ReadMoves
<1>2. CASE End(t)
  BY <1>1, <1>2, EndSpares
<1>3. CASE ReadSettings(t) /\ ~End(t)
  <2> DEFINE read == [task EXCEPT !.settings = nextNumber, !.pc = "number"]
  <2>1. tasks' = [tasks EXCEPT ![t] = read] /\ task.pc = "settings"
    BY <1>3 DEF ReadSettings, At
  <2>2. read.id = task.id /\ read.row = task.row /\ read.pc = "number"
    BY <1>1 DEF Task
  <2> HIDE DEF read
  <2>3. Spares(read)
    BY <2>1, <2>2, NotPosted DEF Spares
  <2> QED
    BY <1>1, <2>1, <2>3, TaskSpares
<1>4. CASE RereadSettings(t) /\ ~End(t)
  <2> DEFINE read == [task EXCEPT !.settings = nextNumber, !.pc = "counter"]
  <2>1. tasks' = [tasks EXCEPT ![t] = read] /\ task.pc = "reread"
    BY <1>4 DEF RereadSettings, At
  <2>2. read.id = task.id /\ read.to = task.to /\ read.row = task.row /\ read.pc = "counter"
    BY <1>1 DEF Task
  <2> HIDE DEF read
  <2>3. Spares(read)
    BY <2>1, <2>2 DEF PostedInv, Spares
  <2> QED
    BY <1>1, <2>1, <2>3, TaskSpares
<1>5. CASE ReadMoves(t) /\ ~End(t)
  <2> DEFINE read == [task EXCEPT !.rows = moves[task.id], !.pc = "clear"]
  <2>1. tasks' = [tasks EXCEPT ![t] = read] /\ task.pc = "moves"
    BY <1>5 DEF ReadMoves, At
  <2>2. read.id = task.id /\ read.row = task.row /\ read.pc = "clear"
    BY <1>1 DEF Task
  <2> HIDE DEF read
  <2>3. Spares(read)
    BY <2>1, <2>2, NotPosted DEF Spares
  <2> QED
    BY <1>1, <2>1, <2>3, TaskSpares
<1>6. CASE DrawNumber(t) /\ ~End(t)
  <2> DEFINE number == IF task.typed = 0 THEN MinimumNumber(task.kind) ELSE task.typed
             pc == IF Finance(t) THEN "issue" ELSE "unique"
             read == [task EXCEPT !.number = number, !.pc = pc]
  <2>1. tasks' = [tasks EXCEPT ![t] = read] /\ task.pc = "number"
    BY <1>6 DEF DrawNumber, At
  <2>2. pc = "issue" => task.to = "issued"
    BY DEF Finance
  <2> HIDE DEF number, pc
  <2>3. read.id = task.id /\ read.to = task.to /\ read.row = task.row /\ read.pc = pc
    BY <1>1 DEF Task
  <2> HIDE DEF read
  <2>4. Spares(read)
    BY <2>1, <2>2, <2>3, NotPosted DEF Spares
  <2> QED
    BY <1>1, <2>1, <2>4, TaskSpares
<1>7. CASE ReadExisting(t) /\ ~End(t)
  <2> DEFINE row == invoices[task.id]
             read == [task EXCEPT !.row = row, !.pc = "put", !.number = row.number]
  <2>1. tasks' = [tasks EXCEPT ![t] = read] /\ task.pc = "existing"
    BY <1>7 DEF ReadExisting, At
  <2>2. ~row.posted /\ ~invoices[task.id].posted
    BY <2>1, NotPosted
  <2> HIDE DEF row
  <2>3. read.id = task.id /\ read.row = row /\ read.pc = "put"
    BY <1>1 DEF Task
  <2> HIDE DEF read
  <2>4. Spares(read)
    BY <2>2, <2>3 DEF Spares
  <2> QED
    BY <1>1, <2>1, <2>4, TaskSpares
<1> HIDE DEF task
<1> QED
  BY <1>1, <1>2, <1>3, <1>4, <1>5, <1>6, <1>7

\* The steps that go on, and what they do to the movements.
LEMMA GoesSpare ==
  ASSUME V2, OneCommand, PostedInv, NEW t \in Tasks,
         AssertUniqueNumber(t) \/ RecordIssuedInvoice(t) \/ SaveInvoiceSettings(t) \/ DeleteMoves(t)
           \/ PutMove(t)
  PROVE  PostedIssued' /\ (\A u \in Tasks : Spares(tasks[u])') /\ PostedStep
<1>1. {"put", "count", "reread", "counter", "moves", "remove", "move"} \subseteq Pcs \ {"issue"}
  BY DEF Pcs
<1>2. invoices' = invoices /\ tasks[t].pc # "idle"
  BY DEF AssertUniqueNumber, RecordIssuedInvoice, SaveInvoiceSettings, DeleteMoves, PutMove, At
<1>3. PostedStep
  <2>1. CASE UNCHANGED moves
    BY <1>2, <2>1 DEF PostedStep
  <2>2. CASE DeleteMoves(t) \/ PutMove(t)
    <3>1. ~invoices[tasks[t].id].posted
      BY <2>2, NotPosted DEF DeleteMoves, PutMove, At
    <3>2. \E new : moves' = [moves EXCEPT ![tasks[t].id] = new]
      BY <2>2 DEF DeleteMoves, PutMove
    <3>3. \A i \in Ids \ {tasks[t].id} : moves'[i] = moves[i]
      BY <3>2 DEF PostedInv, DeskInv, Shape
    <3> QED
      BY <1>2, <3>1, <3>3 DEF PostedStep
  <2> QED
    BY <2>1, <2>2 DEF AssertUniqueNumber, RecordIssuedInvoice, SaveInvoiceSettings
<1>4. CASE End(t)
  BY <1>2, <1>3, <1>4, EndSpares
<1>5. CASE ~invoices[tasks[t].id].posted /\ ~End(t)
  <2>1. \E pc \in {"put", "count", "reread", "counter", "moves", "remove", "move"} : Go(t, pc)
    BY <1>5 DEF AssertUniqueNumber, RecordIssuedInvoice, SaveInvoiceSettings, DeleteMoves, PutMove
  <2> QED
    BY <1>1, <1>2, <1>3, <1>5, <2>1, GoSpares
<1>6. CASE invoices[tasks[t].id].posted /\ ~End(t)
  <2>1. tasks[t].to = "issued" /\ tasks[t].pc \in {"count", "reread", "counter"}
    BY <1>2, <1>6 DEF PostedInv, Spares
  <2>2. RecordIssuedInvoice(t) \/ SaveInvoiceSettings(t)
    BY <2>1 DEF AssertUniqueNumber, DeleteMoves, PutMove, At
  <2>3. Finance(t)
    BY <2>1, V2 DEF Finance
  <2>4. Go(t, "reread") \/ Go(t, "counter")
    BY <1>6, <2>2, <2>3 DEF RecordIssuedInvoice, SaveInvoiceSettings
  <2> QED
    BY <1>1, <1>2, <1>3, <2>1, <2>4, GoSpares
<1> QED
  BY <1>4, <1>5, <1>6

\* The steps that write an invoice.
LEMMA WriteSpares ==
  ASSUME OneCommand, PostedInv, NEW t \in Tasks, NEW i \in Ids, NEW row,
         ~invoices[i].posted, invoices' = [invoices EXCEPT ![i] = row],
         row.posted => row.stage = "issued", \A j \in Ids \ {i} : moves'[j] = moves[j]
  PROVE  PostedIssued' /\ PostedStep /\ invoices'[i] = row
<1>1. \A j \in Ids : invoices'[j] = IF j = i THEN row ELSE invoices[j]
  BY DEF PostedInv, DeskInv, Shape
<1> QED
  BY <1>1 DEF PostedInv, PostedIssued, PostedStep

LEMMA IssueSpares ==
  ASSUME OneCommand, PostedInv, NEW t \in Tasks, IssueInvoice(t)
  PROVE  PostedIssued' /\ (\A u \in Tasks : Spares(tasks[u])') /\ PostedStep
<1> DEFINE i == tasks[t].id
           kind == tasks[t].kind
           number == tasks[t].number
           row == [stage |-> "issued", posted |-> TRUE, kind |-> kind, number |-> number]
<1>1. tasks[t] \in Task /\ tasks[t].pc = "issue"
  BY DEF PostedInv, DeskInv, Shape, IssueInvoice, At
<1>2. i \in Ids /\ ~invoices[i].posted /\ ~tasks[t].row.posted /\ tasks[t].to = "issued"
  BY <1>1, NotPosted DEF PostedInv, Spares
<1>3. CASE invoices[i].stage = "issued" \/ NumberTaken(number, None)
  <2>1. End(t) /\ UNCHANGED <<invoices, moves>>
    BY <1>3 DEF IssueInvoice
  <2> QED
    BY <2>1, EndSpares DEF PostedStep
<1>4. CASE ~(invoices[i].stage = "issued" \/ NumberTaken(number, None))
  <2> DEFINE task == [tasks[t] EXCEPT !.pc = "count"]
  <2>1. /\ invoices' = [invoices EXCEPT ![i] = row]
        /\ \E new : moves' = [moves EXCEPT ![i] = new]
        /\ tasks' = [tasks EXCEPT ![t] = task]
    BY <1>4 DEF IssueInvoice, Go
  <2>2. row.posted => row.stage = "issued"
    OBVIOUS
  <2>3. task.to = "issued" /\ task.pc = "count" /\ task.row = tasks[t].row
    BY <1>1, <1>2 DEF Task
  <2> HIDE DEF row, i, task
  <2>4. \A j \in Ids \ {i} : moves'[j] = moves[j]
    BY <2>1 DEF PostedInv, DeskInv, Shape
  <2>5. PostedIssued' /\ PostedStep
    BY <1>2, <2>1, <2>2, <2>4, WriteSpares
  <2>6. \A u \in Tasks : tasks'[u] = task
    BY <2>1, OnlyCommand DEF PostedInv, DeskInv
  <2>7. \A u \in Tasks : Spares(tasks[u])'
    BY <1>2, <2>3, <2>6 DEF Spares
  <2> QED
    BY <2>5, <2>7
<1> QED
  BY <1>3, <1>4

LEMMA PutSpares ==
  ASSUME V2, OneCommand, PostedInv, NEW t \in Tasks, PutInvoice(t)
  PROVE  PostedIssued' /\ (\A u \in Tasks : Spares(tasks[u])') /\ PostedStep
<1> DEFINE i == tasks[t].id
           stage == tasks[t].to
           posted == tasks[t].row.posted
           kind == tasks[t].kind
           number == tasks[t].number
           row == [stage |-> stage, posted |-> posted, kind |-> kind, number |-> number]
           counts == tasks[t].to = "issued" /\ (tasks[t].op = "create" \/ tasks[t].row.stage = "pre")
           pc == IF counts /\ tasks[t].op # "convert" THEN "count" ELSE "moves"
           task == [tasks[t] EXCEPT !.pc = pc]
<1>1. tasks[t] \in Task /\ tasks[t].pc = "put"
  BY DEF PostedInv, DeskInv, Shape, PutInvoice, At
<1>2. i \in Ids /\ ~invoices[i].posted /\ ~posted
  BY <1>1, NotPosted
<1>3. /\ invoices' = [invoices EXCEPT ![i] = row] /\ UNCHANGED moves
      /\ tasks' = [tasks EXCEPT ![t] = task]
  BY DEF PutInvoice, Go
<1>4. pc # "issue" /\ row.posted = posted
  OBVIOUS
<1> HIDE DEF pc
<1>5. task.pc = pc /\ task.row.posted = posted /\ task.id = i
  BY <1>1 DEF Task
<1> HIDE DEF row, i, task, posted
<1>6. PostedIssued' /\ PostedStep /\ invoices'[i] = row
  BY <1>2, <1>3, <1>4, WriteSpares
<1>7. \A u \in Tasks : tasks'[u] = task
  BY <1>3, OnlyCommand DEF PostedInv, DeskInv
<1>8. \A u \in Tasks : Spares(tasks[u])'
  BY <1>2, <1>4, <1>5, <1>6, <1>7 DEF Spares
<1> QED
  BY <1>6, <1>8

LEMMA RemoveSpares ==
  ASSUME OneCommand, PostedInv, NEW t \in Tasks, RemoveInvoice(t)
  PROVE  PostedIssued' /\ (\A u \in Tasks : Spares(tasks[u])') /\ PostedStep
<1> DEFINE i == tasks[t].id
<1>1. i \in Ids /\ ~invoices[i].posted
  BY NotPosted DEF RemoveInvoice, At
<1>2. invoices' = [invoices EXCEPT ![i] = NoRow] /\ UNCHANGED moves /\ tasks' = [tasks EXCEPT ![t] = Idle]
  BY DEF RemoveInvoice, End
<1>3. ~NoRow.posted
  BY DEF NoRow
<1> HIDE DEF i, NoRow, Idle
<1>4. PostedIssued' /\ PostedStep
  BY <1>1, <1>2, <1>3, WriteSpares
<1>5. \A u \in Tasks : tasks'[u] = Idle
  BY <1>2, OnlyCommand DEF PostedInv, DeskInv
<1>6. \A u \in Tasks : Spares(tasks[u])'
  BY <1>5, IdleIsTask DEF Spares
<1> QED
  BY <1>4, <1>6

LEMMA PostedNext ==
  ASSUME V2, OneCommand, PostedInv, [Next]_vars
  PROVE  PostedInv' /\ PostedStep
<1>1. DeskInv'
  BY DeskNext DEF PostedInv
<1>2. CASE UNCHANGED vars
  BY <1>1, <1>2 DEF vars, PostedInv, PostedIssued, Spares, PostedStep
<1>3. CASE Crash
  <2>1. tasks' = [t \in Tasks |-> Idle] /\ UNCHANGED <<invoices, moves>>
    BY <1>3 DEF Crash
  <2> HIDE DEF Idle
  <2>2. \A t \in Tasks : Spares(tasks[t])'
    BY <2>1, IdleIsTask DEF Spares
  <2> QED
    BY <1>1, <2>1, <2>2 DEF PostedInv, PostedIssued, PostedStep
<1>4. ASSUME NEW t \in Tasks, Ask(t)
      PROVE  PostedInv' /\ PostedStep
  BY <1>1, <1>4, AskSpares DEF PostedInv, PostedStep
<1>5. ASSUME NEW t \in Tasks,
             ReadSettings(t) \/ DrawNumber(t) \/ ReadExisting(t) \/ RereadSettings(t) \/ ReadMoves(t)
      PROVE  PostedInv' /\ PostedStep
  BY <1>1, <1>5, ReadsSpare DEF PostedInv, PostedStep
<1>6. ASSUME NEW t \in Tasks,
             AssertUniqueNumber(t) \/ RecordIssuedInvoice(t) \/ SaveInvoiceSettings(t)
               \/ DeleteMoves(t) \/ PutMove(t)
      PROVE  PostedInv' /\ PostedStep
  BY <1>1, <1>6, GoesSpare DEF PostedInv
<1>7. ASSUME NEW t \in Tasks, IssueInvoice(t) \/ PutInvoice(t) \/ RemoveInvoice(t)
      PROVE  PostedInv' /\ PostedStep
  BY <1>1, <1>7, IssueSpares, PutSpares, RemoveSpares DEF PostedInv
<1> QED
  BY <1>2, <1>3, <1>4, <1>5, <1>6, <1>7 DEF Next, Step

(* With finance and one command at a time a posted invoice and its stock   *)
(* movements are never rewritten or removed, wherever a command is cut     *)
(* short (InvoiceController.js:119-120). What two commands at once can do  *)
(* is the run desk_overwrite.                                              *)
THEOREM PostedCorrect == V2 /\ OneCommand => (Spec => PostedKept)
<1>1. ASSUME Init
      PROVE  PostedInv
  <2>1. DeskInv
    BY <1>1, DeskInit
  <2>2. \A i \in Ids : ~invoices[i].posted
    BY <1>1 DEF Init, NoRow
  <2>3. \A t \in Tasks : tasks[t].pc = "idle"
    BY <1>1 DEF Init, Idle
  <2> QED
    BY <2>1, <2>2, <2>3 DEF PostedInv, PostedIssued, Spares
<1>2. ASSUME V2, OneCommand
      PROVE  Spec => PostedKept
  <2>1. PostedInv /\ [Next]_vars => PostedInv' /\ PostedStep
    BY <1>2, PostedNext
  <2> QED
    BY <1>1, <2>1, PTL DEF Spec, PostedKept
<1> QED
  BY <1>2
=============================================================================
