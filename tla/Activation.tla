----------------------------- MODULE Activation ------------------------------
(***************************************************************************)
(* How a company gets from its first documents to integrated accounting:   *)
(* the treasury accounts and the documents that TreasuryController,        *)
(* ChequeController and ExpenseController keep without journals, the chart *)
(* below account 101, the opening journal of OpeningBalanceService and     *)
(* RetailPostingService.activate.                                          *)
(*                                                                         *)
(* The controllers read and write in transactions of their own, one action *)
(* each; activate, commit and the other services run in one transaction    *)
(* and are one action. Invoices are in InvoiceDesk, and what a posting     *)
(* does besides the cash account in RetailPosting. One period stays open,  *)
(* the user is an administrator, and the opening names no stock: a balance *)
(* with a quantity has a movement, and movements refuse the opening.       *)
(***************************************************************************)
EXTENDS Integers, FiniteSets, FiniteSetsExt, Functions

CONSTANTS Subs,     \* ids of accounts that may be added to the chart
          CashIds,  \* ids of treasury accounts
          DocIds,   \* ids of transactions, expenses and cheques
          Kinds,    \* a subset of {"transaction", "expense", "cheque"}
          Initials, \* opening balances a user may enter
          Tasks,    \* commands that may run at once
          Crashes,  \* whether the program may stop between two steps
          Header, Trade, Capital, \* accounts 101, 401 and 301
          None

\* What the constants must be; the module that instantiates this one assumes it.
ActivationAssumption ==
  /\ Kinds \subseteq {"transaction", "expense", "cheque"}
  /\ Initials \subseteq Nat /\ 0 \in Initials /\ Crashes \in BOOLEAN
  /\ Header # Trade /\ Header # Capital /\ Trade # Capital
  /\ {Header, Trade, Capital} \cap Subs = {} /\ None \notin Subs \cup CashIds \cup DocIds

VARIABLES parent,   \* the parent of each account of the chart, None for an id not in use
          postable, \* whether the cash header 101 takes journal lines
          used,     \* accounts with posted journal lines
          booked,   \* net debit of each account by journals of treasury rows and expenses
          cash,     \* the treasury accounts
          docs,     \* transactions, expenses and cheques
          enabled,  \* the setting finance_v2_enabled
          tasks     \* the commands under way

vars == <<parent, postable, used, booked, cash, docs, enabled, tasks>>
ledger == <<parent, postable, used, booked>>

Accounts == {Header, Trade, Capital} \cup Subs

NoCash == [present |-> FALSE, initial |-> 0, account |-> None, default |-> FALSE]
NoDoc == [kind |-> None, posted |-> FALSE, cash |-> None, status |-> None]
Idle == [pc |-> "idle", id |-> None, row |-> NoDoc, cash |-> NoCash,
         rows |-> [c \in CashIds |-> NoCash]]

\* The default chart, with the groups left out.
Init ==
  /\ parent = [a \in Accounts |-> IF a \in Subs THEN None ELSE "group"]
  /\ postable = TRUE
  /\ used = {} /\ booked = [a \in Accounts |-> 0]
  /\ cash = [c \in CashIds |-> NoCash]
  /\ docs = [d \in DocIds |-> NoDoc]
  /\ enabled = FALSE
  /\ tasks = [t \in Tasks |-> Idle]

Chart == {a \in Accounts : parent[a] # None}
Leaf(a) == a \in Chart /\ \A b \in Chart : parent[b] # a
Takes(a) == Leaf(a) /\ (a = Header => postable)
Treasury == {c \in CashIds : cash[c].present}
Documents == {d \in DocIds : docs[d].kind # None}

At(t, pc) == tasks[t].pc = pc
End(t) == tasks' = [tasks EXCEPT ![t] = Idle]
Begin(t, pc, id) == tasks' = [tasks EXCEPT ![t] = [Idle EXCEPT !.pc = pc, !.id = id]]

\* uid() never draws an id twice, not even one a command still holds.
FreshDoc(d) == docs[d] = NoDoc /\ \A t \in Tasks : tasks[t].id # d
FreshCash(c) == cash[c] = NoCash /\ \A t \in Tasks : tasks[t].id # c

\* cashLedger: the account a treasury row posts to.
Linked(row) ==
  /\ row.account # None
  /\ parent[row.account] = Header /\ Leaf(row.account)
-----------------------------------------------------------------------------
(* The chart                                                               *)

\* A group, a general account, a subsidiary and a detail: four levels.
AddAccount(t, a, p) ==
  /\ At(t, "idle")
  /\ parent[a] = None /\ p \in Chart
  /\ p \in Subs => parent[p] \notin Subs
  /\ p \notin used
  /\ parent' = [parent EXCEPT ![a] = p]
  /\ UNCHANGED <<postable, used, booked, cash, docs, enabled, tasks>>

\* A manual journal, posted.
PostJournal(t, a, b) ==
  /\ At(t, "idle")
  /\ a # b /\ Takes(a) /\ Takes(b)
  /\ used' = used \cup {a, b}
  /\ UNCHANGED <<parent, postable, booked, cash, docs, enabled, tasks>>
-----------------------------------------------------------------------------
(* OpeningBalanceService.commit                                            *)

Total(rows) == MapThenSumSet(LAMBDA c : cash[c].initial, rows)

Activity == \E d \in Documents : docs[d].kind \in {"transaction", "expense", "cheque"}

\* The role cash asks for an asset account: 101 or one below it.
Asset(a) == a = Header \/ parent[a] = Header \/ (parent[a] \in Subs /\ parent[parent[a]] = Header)

\* examine finds no problem with an opening of these cash rows on these
\* accounts. Lines of the role other may lie on any account that takes lines.
Examined(rows, lines) ==
  /\ used = {} /\ ~Activity /\ rows \subseteq Treasury
  /\ Cardinality(lines) >= 2 /\ \A a \in lines : Takes(a)
  /\ Total(rows) > 0 => \E a \in lines : Asset(a)

CommitOpening(t, rows, lines) ==
  /\ At(t, "idle") /\ Examined(rows, lines)
  /\ used' = lines
  /\ UNCHANGED <<parent, postable, booked, cash, docs, enabled, tasks>>
-----------------------------------------------------------------------------
(* RetailPostingService.activate and createTreasuryAccount                 *)

\* The accounts activate works on: a default cash box when there is none.
Money(box) == IF Treasury = {} THEN [cash EXCEPT ![box] = [NoCash EXCEPT !.present = TRUE, !.default = TRUE]]
              ELSE cash

NoBusiness == ~\E d \in Documents : docs[d].kind \in {"transaction", "expense", "cheque"}

HeaderUnused == Header \notin used

\* subs gives every unlinked treasury account an id of a new account.
Activate(t, box, subs) ==
  LET money == Money(box)
      rows == {c \in CashIds : money[c].present}
      unlinked == {c \in rows : money[c].account = None}
  IN  /\ At(t, "idle") /\ ~enabled
      /\ NoBusiness
      /\ Treasury = {} => FreshCash(box)
      /\ \A c \in rows : money[c].initial = 0
      /\ Leaf(Trade) /\ HeaderUnused
      /\ \A c \in rows \ unlinked : Linked(money[c])
      /\ subs \in [unlinked -> {a \in Subs : parent[a] = None}] /\ IsInjective(subs)
      /\ parent' = [a \in Accounts |-> IF a \in Range(subs) THEN Header ELSE parent[a]]
      /\ postable' = FALSE
      /\ cash' = [c \in CashIds |-> IF c \in unlinked THEN [money[c] EXCEPT !.account = subs[c]]
                                                      ELSE money[c]]
      /\ enabled' = TRUE
      /\ UNCHANGED <<used, booked, docs, tasks>>

\* createAccount: the rows are listed for the default flag, then the setting
\* is read, then the row is written or handed to the service.
CreateAccount(t, c, initial) ==
  /\ At(t, "idle") /\ FreshCash(c)
  /\ tasks' = [tasks EXCEPT ![t] = [Idle EXCEPT !.pc = "account mode", !.id = c, !.cash =
                 [present |-> TRUE, initial |-> initial, account |-> None, default |-> Treasury = {}]]]
  /\ UNCHANGED <<ledger, cash, docs, enabled>>

AccountMode(t) ==
  /\ At(t, "account mode")
  /\ tasks' = [tasks EXCEPT ![t].pc = IF enabled THEN "post account" ELSE "put account"]
  /\ UNCHANGED <<ledger, cash, docs, enabled>>

\* Mutant: the new account is put below 101 without a look at its lines.
PostAccountAnyway(t, a) ==
  LET task == tasks[t]
  IN  /\ At(t, "post account") /\ parent[a] = None
      /\ IF task.cash.initial # 0
         THEN UNCHANGED <<parent, cash>>
         ELSE /\ parent' = [parent EXCEPT ![a] = Header]
              /\ cash' = [cash EXCEPT ![task.id] =
                   [task.cash EXCEPT !.default = Treasury = {}]]
      /\ End(t)
      /\ UNCHANGED <<postable, used, booked, docs, enabled>>

PostAccount(t, a) ==
  LET task == tasks[t]
  IN  /\ At(t, "post account") /\ parent[a] = None
      /\ IF task.cash.initial # 0 \/ Header \in used
         THEN UNCHANGED <<parent, cash>>
         ELSE /\ parent' = [parent EXCEPT ![a] = Header]
              /\ cash' = [cash EXCEPT ![task.id] =
                   [task.cash EXCEPT !.account = a, !.default = Treasury = {}]]
      /\ End(t)
      /\ UNCHANGED <<postable, used, booked, docs, enabled>>

PutAccount(t) ==
  /\ At(t, "put account")
  /\ cash' = [cash EXCEPT ![tasks[t].id] = tasks[t].cash]
  /\ End(t)
  /\ UNCHANGED <<ledger, docs, enabled>>

\* updateAccount: the row is read, then the setting, then the row is written.
UpdateAccount(t, c, initial) ==
  /\ At(t, "idle") /\ c \in Treasury
  /\ tasks' = [tasks EXCEPT ![t] = [Idle EXCEPT !.pc = "update mode", !.id = c,
                 !.cash = [cash[c] EXCEPT !.initial = initial], !.rows = cash]]
  /\ UNCHANGED <<ledger, cash, docs, enabled>>

UpdateMode(t) ==
  LET task == tasks[t]
  IN  /\ At(t, "update mode")
      /\ IF enabled /\ task.cash.initial # task.rows[task.id].initial
         THEN End(t) ELSE tasks' = [tasks EXCEPT ![t].pc = "put account"]
      /\ UNCHANGED <<ledger, cash, docs, enabled>>

\* deleteAccount: the row is read, then the transactions, then the row goes.
DeleteAccount(t, c) ==
  /\ At(t, "idle") /\ c \in Treasury /\ cash[c].account = None
  /\ Begin(t, "account use", c)
  /\ UNCHANGED <<ledger, cash, docs, enabled>>

AccountUse(t) ==
  /\ At(t, "account use")
  /\ IF \E d \in Documents : docs[d].cash = tasks[t].id
     THEN End(t) ELSE tasks' = [tasks EXCEPT ![t].pc = "delete account"]
  /\ UNCHANGED <<ledger, cash, docs, enabled>>

RemoveAccount(t) ==
  /\ At(t, "delete account")
  /\ cash' = [cash EXCEPT ![tasks[t].id] = NoCash]
  /\ End(t)
  /\ UNCHANGED <<ledger, docs, enabled>>
-----------------------------------------------------------------------------
(* Transactions, expenses and cheques                                      *)

\* create: the setting is read, then the document is written or posted.
Create(t, d, kind, c) ==
  /\ At(t, "idle") /\ FreshDoc(d)
  /\ IF kind = "transaction" THEN c \in Treasury ELSE c = None
  /\ tasks' = [tasks EXCEPT ![t] = [Idle EXCEPT !.pc = IF enabled THEN "post" ELSE "put", !.id = d,
                 !.row = [kind |-> kind, posted |-> FALSE, cash |-> c, status |-> "pending"]]]
  /\ UNCHANGED <<ledger, cash, docs, enabled>>

\* An expense is paid from the default account, or else from any.
Payer == IF \E c \in Treasury : cash[c].default THEN {c \in Treasury : cash[c].default} ELSE Treasury

\* postTransaction takes 1 in, postExpense pays 1, postCheque moves no cash.
Post(t) ==
  LET row == tasks[t].row
      pay(c, n) ==
        /\ booked' = [booked EXCEPT ![cash[c].account] = @ + n]
        /\ used' = used \cup {cash[c].account, Trade}
        /\ docs' = [docs EXCEPT ![tasks[t].id] = [row EXCEPT !.posted = TRUE, !.cash = c]]
  IN  /\ At(t, "post")
      /\ \/ /\ row.kind = "transaction" /\ cash[row.cash].present /\ Linked(cash[row.cash]) /\ Leaf(Trade)
            /\ pay(row.cash, 1)
         \/ /\ row.kind = "expense" /\ Leaf(Trade)
            /\ \E c \in Payer : Linked(cash[c]) /\ pay(c, -1)
         \/ /\ row.kind = "cheque" /\ Leaf(Trade)
            /\ used' = used \cup {Trade}
            /\ docs' = [docs EXCEPT ![tasks[t].id] = [row EXCEPT !.posted = TRUE]]
            /\ UNCHANGED booked
      /\ End(t)
      /\ UNCHANGED <<parent, postable, cash, enabled>>

Refused(t) ==
  /\ At(t, "post")
  /\ LET row == tasks[t].row
     IN  \/ ~Leaf(Trade)
         \/ row.kind = "transaction" /\ ~(cash[row.cash].present /\ Linked(cash[row.cash]))
         \/ row.kind = "expense" /\ (Payer = {} \/ \E c \in Payer : ~Linked(cash[c]))
  /\ End(t)
  /\ UNCHANGED <<ledger, cash, docs, enabled>>

Put(t) ==
  /\ At(t, "put")
  /\ docs' = [docs EXCEPT ![tasks[t].id] = tasks[t].row]
  /\ End(t)
  /\ UNCHANGED <<ledger, cash, enabled>>

\* update, and changeStatus of a cheque: the row is read, then written back.
Update(t, d, status) ==
  /\ At(t, "idle") /\ d \in Documents /\ ~docs[d].posted
  /\ docs[d].kind = "cheque" \/ (docs[d].kind = "expense" /\ status = docs[d].status)
  /\ tasks' = [tasks EXCEPT ![t] = [Idle EXCEPT !.pc = "put", !.id = d,
                 !.row = [docs[d] EXCEPT !.status = status]]]
  /\ UNCHANGED <<ledger, cash, docs, enabled>>

Delete(t, d) ==
  /\ At(t, "idle") /\ d \in Documents /\ ~docs[d].posted
  /\ Begin(t, "delete", d)
  /\ UNCHANGED <<ledger, cash, docs, enabled>>

Remove(t) ==
  /\ At(t, "delete")
  /\ docs' = [docs EXCEPT ![tasks[t].id] = NoDoc]
  /\ End(t)
  /\ UNCHANGED <<ledger, cash, enabled>>

\* The program is closed or dies; the stores remain.
Crash ==
  /\ Crashes /\ \E t \in Tasks : ~At(t, "idle")
  /\ tasks' = [t \in Tasks |-> Idle]
  /\ UNCHANGED <<ledger, cash, docs, enabled>>

Setup(t) ==
  \/ \E a \in Subs, p \in Accounts : AddAccount(t, a, p)
  \/ \E a, b \in Accounts : PostJournal(t, a, b)
  \/ \E rows \in SUBSET CashIds, lines \in SUBSET Accounts : CommitOpening(t, rows, lines)
  \/ \E box \in CashIds, rows \in SUBSET CashIds : \E subs \in [rows -> Subs] : Activate(t, box, subs)

Accounting(t) ==
  \/ \E c \in CashIds, n \in Initials : CreateAccount(t, c, n) \/ UpdateAccount(t, c, n)
  \/ AccountMode(t) \/ PutAccount(t) \/ UpdateMode(t)
  \/ \E a \in Subs : PostAccount(t, a)
  \/ \E c \in CashIds : DeleteAccount(t, c)
  \/ AccountUse(t) \/ RemoveAccount(t)

Documenting(t) ==
  \/ \E d \in DocIds, kind \in Kinds, c \in CashIds \cup {None} : Create(t, d, kind, c)
  \/ Post(t) \/ Refused(t) \/ Put(t)
  \/ \E d \in DocIds, status \in {"pending", "cleared"} : Update(t, d, status)
  \/ \E d \in DocIds : Delete(t, d)
  \/ Remove(t)

Next == Crash \/ \E t \in Tasks : Setup(t) \/ Accounting(t) \/ Documenting(t)

Spec == Init /\ [][Next]_vars
-----------------------------------------------------------------------------
Quiet == \A t \in Tasks : At(t, "idle")

CashRow == [present: BOOLEAN, initial: Initials, account: Subs \cup {None}, default: BOOLEAN]
Doc == [kind: Kinds \cup {None}, posted: BOOLEAN, cash: CashIds \cup {None},
        status: {None, "pending", "cleared"}]

TypeOK ==
  /\ parent \in [Accounts -> Accounts \cup {None, "group"}]
  /\ postable \in BOOLEAN /\ enabled \in BOOLEAN /\ used \subseteq Chart
  /\ cash \in [CashIds -> CashRow] /\ docs \in [DocIds -> Doc]
  /\ \A c \in CashIds \ Treasury : cash[c] = NoCash
  /\ \A d \in DocIds \ Documents : docs[d] = NoDoc
  /\ \A t \in Tasks : tasks[t].row \in Doc /\ tasks[t].cash \in CashRow

(* An account with posted lines never becomes a parent, whichever command  *)
(* adds an account (AccountingService.js:92-99): posting to it goes on.    *)
UsedStayLeaves == \A a \in used, b \in Chart : parent[b] # a

(* While nothing runs, an activated company has a treasury account, and    *)
(* each is linked to a subsidiary of 101 of its own                        *)
(* (RetailPostingService.js:128-139).                               *)
CashLinked ==
  Quiet /\ enabled =>
    /\ Treasury # {}
    /\ \A c \in Treasury : cash[c].account # None /\ parent[cash[c].account] = Header
    /\ \A c, d \in Treasury : cash[c].account = cash[d].account => c = d

(* While nothing runs, an activated company has no document without a      *)
(* journal (RetailPostingService.js:91-98).                                *)
AllPosted == Quiet /\ enabled => \A d \in Documents : docs[d].posted

(* While nothing runs, the balance the treasury screen computes from its   *)
(* rows is what the journals of those rows and of expenses left on the     *)
(* linked account (TreasuryController.js:118-148); manual journals and the *)
(* opening are not among them.                                             *)
BalancesAgree ==
  Quiet /\ enabled =>
    \A c \in Treasury :
      booked[cash[c].account] =
        cash[c].initial + Cardinality({d \in Documents : docs[d].kind = "transaction" /\ docs[d].cash = c})
                        - Cardinality({d \in Documents : docs[d].kind = "expense" /\ docs[d].cash = c})

(* While nothing runs, no treasury account of an activated company begins  *)
(* with an amount of its own: what an opening journal booked is not        *)
(* counted again by the treasury screen, whichever of the opening, the     *)
(* activation and the account came first (OpeningBalanceService.js:73-81,  *)
(* RetailPostingService.js:109,149, TreasuryController.js:75).             *)
OpenedInOnePlace == Quiet /\ enabled => \A c \in Treasury : cash[c].initial = 0

(* Once activated, 101 is a structural parent: it has no lines of any      *)
(* journal, manual, opening or commercial (RetailPostingService.js:34-35); *)
(* an opening that put lines on it bars the activation.                    *)
HeaderStructural == enabled => Header \notin used
=============================================================================
