----------------------------- MODULE InvoiceDesk -----------------------------
(***************************************************************************)
(* InvoiceController: pre-invoices, their conversion and the numbering of  *)
(* invoices. A command reads and writes the stores in transactions of its  *)
(* own, with an await between any two of them, so two commands interleave: *)
(* two windows, or a button pressed while an earlier command still runs.   *)
(*                                                                         *)
(* One action is one such transaction. What issueInvoice does to stock,    *)
(* money and ledger is RetailPosting; here it is one stock movement.       *)
(* Companies and the rows' content are left out, and the licence is        *)
(* writable (module License).                                              *)
(***************************************************************************)
EXTENDS Naturals, FiniteSets, FiniteSetsExt

CONSTANTS Ids,       \* the invoices
          Kinds,     \* sale, purchase, ...
          Tasks,     \* commands that may run at once
          Typed,     \* numbers a user may type in manual mode, 0 for none
          MaxNumber, \* bound on the numbers drawn
          MaxRow,    \* bound on the uids of stock movements
          V2,        \* whether finance is activated
          Crashes,   \* whether the program may stop between two steps
          None

ASSUME DeskAssumption ==
  /\ Typed \subseteq Nat /\ MaxNumber \in Nat \ {0} /\ MaxRow \in Nat \ {0}
  /\ V2 \in BOOLEAN /\ Crashes \in BOOLEAN /\ None \notin Ids \cup Kinds

VARIABLES invoices,   \* the store: stage, financePosted, kind and number of each
          moves,      \* stock movements by refId, as sets of uids
          nextNumber, \* the counter in the invoice settings
          counted,    \* the invoices recordIssuedInvoice has counted
          tasks       \* the commands under way

vars == <<invoices, moves, nextNumber, counted, tasks>>

NoRow == [stage |-> "absent", posted |-> FALSE, kind |-> None, number |-> 0]

\* The locals of a command: what it was asked, and what it has read.
Idle == [pc |-> "idle", op |-> None, id |-> None, to |-> None, kind |-> None, typed |-> 0,
         row |-> NoRow, settings |-> 0, number |-> 0, rows |-> {}]

Init ==
  /\ invoices = [i \in Ids |-> NoRow]
  /\ moves = [i \in Ids |-> {}]
  /\ nextNumber = 1 /\ counted = {}
  /\ tasks = [t \in Tasks |-> Idle]

Issued == {i \in Ids : invoices[i].stage = "issued"}

\* getNextNumber: by kind, and by the counter that all kinds share.
MinimumNumber(kind) ==
  Max({nextNumber} \cup {invoices[i].number + 1 : i \in {j \in Issued : invoices[j].kind = kind}})

NumberTaken(number, id) == \E i \in Issued \ {id} : invoices[i].number = number

Go(t, pc) == tasks' = [tasks EXCEPT ![t].pc = pc]
End(t) == tasks' = [tasks EXCEPT ![t] = Idle]
At(t, pc) == tasks[t].pc = pc

Finance(t) == V2 /\ tasks[t].to = "issued"
-----------------------------------------------------------------------------
(* save, convertPreInvoice and delete, up to their first read              *)

Begin(t, op, i, to, kind, typed, pc) ==
  /\ At(t, "idle")
  /\ tasks' = [tasks EXCEPT ![t] =
       [pc |-> pc, op |-> op, id |-> i, to |-> to, kind |-> kind, typed |-> typed,
        row |-> invoices[i], settings |-> 0, number |-> 0, rows |-> {}]]
  /\ UNCHANGED <<invoices, moves, nextNumber, counted>>

CreateInvoice(t, i, to, kind, typed) ==
  /\ invoices[i] = NoRow /\ moves[i] = {} /\ i \notin counted
  /\ \A u \in Tasks : tasks[u].id # i
  /\ Begin(t, "create", i, to, kind, typed, "settings")

EditInvoice(t, i, to, kind, typed) ==
  /\ invoices[i].stage # "absent" /\ ~invoices[i].posted
  /\ Begin(t, "edit", i, to, kind, typed, IF V2 /\ to = "issued" THEN "settings" ELSE "existing")

ConvertPreInvoice(t, i) ==
  /\ invoices[i].stage = "pre"
  /\ Begin(t, "convert", i, "issued", invoices[i].kind, 0, "number")

\* Mutant: a posted invoice may be deleted.
DeletePosted(t, i) ==
  /\ invoices[i].stage # "absent"
  /\ Begin(t, "delete", i, "absent", invoices[i].kind, 0, "moves")

DeleteInvoice(t, i) ==
  /\ invoices[i].stage # "absent" /\ ~invoices[i].posted
  /\ Begin(t, "delete", i, "absent", invoices[i].kind, 0, "moves")

-----------------------------------------------------------------------------
(* Their steps                                                             *)

\* With finance, a saved row is read again: it must still be a pre-invoice.
ReadSettings(t) ==
  /\ At(t, "settings")
  /\ IF Finance(t) /\ tasks[t].op = "edit" /\ invoices[tasks[t].id].stage # "pre"
     THEN End(t)
     ELSE tasks' = [tasks EXCEPT ![t].settings = nextNumber, ![t].pc = "number"]
  /\ UNCHANGED <<invoices, moves, nextNumber, counted>>

DrawNumber(t) ==
  LET task == tasks[t]
      minimum == MinimumNumber(task.kind)
      number == IF task.typed = 0 THEN minimum ELSE task.typed
  IN  /\ At(t, "number") /\ number \in 1 .. MaxNumber
      /\ IF number < minimum
         THEN End(t)
         ELSE tasks' = [tasks EXCEPT ![t].number = number,
                          ![t].pc = IF Finance(t) THEN "issue" ELSE "unique"]
      /\ UNCHANGED <<invoices, moves, nextNumber, counted>>

AssertUniqueNumber(t) ==
  /\ At(t, "unique")
  /\ IF NumberTaken(tasks[t].number, IF tasks[t].op = "convert" THEN tasks[t].id ELSE None)
     THEN End(t) ELSE Go(t, "put")
  /\ UNCHANGED <<invoices, moves, nextNumber, counted>>

\* A uid that no row has and no command remembers.
FreshRow(r) == r \notin UNION {moves[i] : i \in Ids} \cup UNION {tasks[t].rows : t \in Tasks}

\* Mutant: the transaction trusts the number read before it.
IssueAnyNumber(t) ==
  LET task == tasks[t]
  IN  /\ At(t, "issue")
      /\ IF invoices[task.id].stage = "issued"
         THEN End(t) /\ UNCHANGED <<invoices, moves>>
         ELSE /\ invoices' = [invoices EXCEPT ![task.id] =
                   [stage |-> "issued", posted |-> TRUE, kind |-> task.kind, number |-> task.number]]
              /\ \E r \in 1 .. MaxRow : FreshRow(r) /\ moves' = [moves EXCEPT ![task.id] = @ \cup {r}]
              /\ Go(t, "count")
      /\ UNCHANGED <<nextNumber, counted>>

\* issueInvoice, in one transaction.
IssueInvoice(t) ==
  LET task == tasks[t]
  IN  /\ At(t, "issue")
      /\ IF invoices[task.id].stage = "issued" \/ NumberTaken(task.number, None)
         THEN End(t) /\ UNCHANGED <<invoices, moves>>
         ELSE /\ invoices' = [invoices EXCEPT ![task.id] =
                   [stage |-> "issued", posted |-> TRUE, kind |-> task.kind, number |-> task.number]]
              /\ \E r \in 1 .. MaxRow : FreshRow(r) /\ moves' = [moves EXCEPT ![task.id] = @ \cup {r}]
              /\ Go(t, "count")
      /\ UNCHANGED <<nextNumber, counted>>

\* An edit without finance reads the row once more, to keep what it does not set.
ReadExisting(t) ==
  /\ At(t, "existing")
  /\ IF invoices[tasks[t].id].stage = "absent"
     THEN End(t)
     ELSE tasks' = [tasks EXCEPT ![t].row = invoices[tasks[t].id], ![t].pc = "put",
                      ![t].number = invoices[tasks[t].id].number]
  /\ UNCHANGED <<invoices, moves, nextNumber, counted>>

\* The put of a row without finance overwrites whatever is there by now.
PutInvoice(t) ==
  LET task == tasks[t]
      issues == task.to = "issued" /\ (task.op = "create" \/ task.row.stage = "pre")
  IN  /\ At(t, "put")
      /\ invoices' = [invoices EXCEPT ![task.id] =
           [stage |-> task.to, posted |-> task.row.posted, kind |-> task.kind, number |-> task.number]]
      /\ Go(t, IF issues /\ task.op # "convert" THEN "count" ELSE "moves")
      /\ UNCHANGED <<moves, nextNumber, counted>>

RecordIssuedInvoice(t) ==
  /\ At(t, "count")
  /\ counted' = counted \cup {tasks[t].id}
  /\ CASE Finance(t) /\ tasks[t].op = "convert" -> Go(t, "reread")
       [] Finance(t) \/ tasks[t].op = "create"  -> Go(t, "counter")
       [] tasks[t].op = "edit" /\ ~Finance(t)   -> Go(t, "moves")
       [] OTHER -> End(t)
  /\ UNCHANGED <<invoices, moves, nextNumber>>

\* A conversion reads the settings again before it saves the counter.
RereadSettings(t) ==
  /\ At(t, "reread")
  /\ tasks' = [tasks EXCEPT ![t].settings = nextNumber, ![t].pc = "counter"]
  /\ UNCHANGED <<invoices, moves, nextNumber, counted>>

\* Mutant: the counter is moved by one, whatever number was typed.
SaveNextSetting(t) ==
  /\ At(t, "counter")
  /\ nextNumber' = tasks[t].settings + 1
  /\ IF Finance(t) THEN End(t) ELSE Go(t, "moves")
  /\ UNCHANGED <<invoices, moves, counted>>

SaveInvoiceSettings(t) ==
  /\ At(t, "counter")
  /\ nextNumber' = Max({tasks[t].settings, tasks[t].number + 1})
  /\ IF Finance(t) THEN End(t) ELSE Go(t, "moves")
  /\ UNCHANGED <<invoices, moves, counted>>

\* _rebuildStockMovements, and the same reads and deletes of delete.
ReadMoves(t) ==
  /\ At(t, "moves")
  /\ tasks' = [tasks EXCEPT ![t].rows = moves[tasks[t].id], ![t].pc = "clear"]
  /\ UNCHANGED <<invoices, moves, nextNumber, counted>>

DeleteMoves(t) ==
  /\ At(t, "clear")
  /\ moves' = [moves EXCEPT ![tasks[t].id] = @ \ tasks[t].rows]
  /\ CASE tasks[t].op = "delete" -> Go(t, "remove")
       [] tasks[t].to = "issued" -> Go(t, "move")
       [] OTHER -> End(t)
  /\ UNCHANGED <<invoices, nextNumber, counted>>

PutMove(t) ==
  /\ At(t, "move")
  /\ \E r \in 1 .. MaxRow : FreshRow(r) /\ moves' = [moves EXCEPT ![tasks[t].id] = @ \cup {r}]
  /\ IF tasks[t].op = "convert" THEN Go(t, "count") ELSE End(t)
  /\ UNCHANGED <<invoices, nextNumber, counted>>

RemoveInvoice(t) ==
  /\ At(t, "remove")
  /\ invoices' = [invoices EXCEPT ![tasks[t].id] = NoRow]
  /\ End(t)
  /\ UNCHANGED <<moves, nextNumber, counted>>

Step(t) ==
  \/ ReadSettings(t) \/ DrawNumber(t) \/ AssertUniqueNumber(t) \/ IssueInvoice(t)
  \/ ReadExisting(t) \/ PutInvoice(t) \/ RecordIssuedInvoice(t) \/ RereadSettings(t)
  \/ SaveInvoiceSettings(t) \/ ReadMoves(t) \/ DeleteMoves(t) \/ PutMove(t) \/ RemoveInvoice(t)

Ask(t) ==
  \/ \E i \in Ids, to \in {"pre", "issued"}, kind \in Kinds, typed \in Typed :
       CreateInvoice(t, i, to, kind, typed) \/ EditInvoice(t, i, to, kind, typed)
  \/ \E i \in Ids : ConvertPreInvoice(t, i) \/ DeleteInvoice(t, i)

\* The program is closed or dies; the stores remain.
Crash ==
  /\ Crashes /\ \E t \in Tasks : ~At(t, "idle")
  /\ tasks' = [t \in Tasks |-> Idle]
  /\ UNCHANGED <<invoices, moves, nextNumber, counted>>

Next == Crash \/ \E t \in Tasks : Ask(t) \/ Step(t)

Spec == Init /\ [][Next]_vars
-----------------------------------------------------------------------------
Row == [stage: {"absent", "pre", "issued"}, posted: BOOLEAN, kind: Kinds \cup {None},
        number: 0 .. MaxNumber]

TypeOK ==
  /\ invoices \in [Ids -> Row]
  /\ \A i \in Ids : invoices[i].posted => i \in Issued
  /\ moves \in [Ids -> SUBSET (1 .. MaxRow)]
  /\ nextNumber \in 1 .. MaxNumber + 1
  /\ counted \subseteq Ids
  /\ \A t \in Tasks : tasks[t].row \in Row /\ tasks[t].number \in 0 .. MaxNumber
                      /\ (At(t, "idle") <=> tasks[t] = Idle)

Quiet == \A t \in Tasks : At(t, "idle")

(* No two issued invoices have one number, of whatever kind                *)
(* (InvoiceController.js:23-28).                                           *)
NumbersUnique == \A i, j \in Issued : invoices[i].number = invoices[j].number => i = j

(* A posted invoice and its stock movements are never rewritten or removed *)
(* (InvoiceController.js:119-120).                                         *)
PostedStep ==
  \A i \in Ids : invoices[i].posted => invoices'[i] = invoices[i] /\ moves'[i] = moves[i]
PostedKept == [][PostedStep]_vars

(* While nothing runs, the number a user is offered is a free one: the     *)
(* counter, shared by the kinds, and the invoices of a kind never disagree *)
(* so that issuing is refused for good.                                    *)
OfferedNumberFree ==
  Quiet => \A kind \in Kinds : ~NumberTaken(MinimumNumber(kind), None)

(* While nothing runs, an issued invoice has moved the stock once and any  *)
(* other document has not.                                                 *)
StockFollowsInvoices ==
  Quiet => \A i \in Ids : Cardinality(moves[i]) = IF i \in Issued THEN 1 ELSE 0

(* While nothing runs, every issued invoice has been counted for the trial.*)
IssuesCounted == Quiet => Issued \subseteq counted
=============================================================================
