----------------------------- MODULE ContactCard -----------------------------
(***************************************************************************)
(* What a contact owes, four times over: getBalance, getBalanceMap, the    *)
(* card of getLedger and the totals of getGlobalSummary, each computed     *)
(* from documents without finance and from journal lines with it.          *)
(*                                                                         *)
(* A document is a kind, a contact, an amount and whether it is open: a    *)
(* pre-invoice or a cheque still pending. The contacts are fixed, see      *)
(* MasterData. What a posting writes besides the lines of the contact is   *)
(* in RetailPosting.                                                       *)
(***************************************************************************)
EXTENDS Integers, Sequences, FiniteSets, SequencesExt, FiniteSetsExt

CONSTANTS Contacts,
          Amounts,  \* amounts of documents
          MaxDocs,  \* documents recorded
          None      \* no contact

\* What the constants must be; the module that instantiates this one assumes it.
ContactCardAssumption ==
  Amounts \subseteq Nat \ {0} /\ MaxDocs \in Nat /\ None \notin Contacts

Sales == {"sale", "sale_return", "non_formal"}
Invoices == Sales \cup {"purchase", "purchase_return"}
Transactions == {"receipt", "payment", "transfer"}
Cheques == {"inbound", "outbound"}
Docs == [kind : Invoices \cup Transactions \cup Cheques, contact : Contacts \cup {None},
         amount : Amounts, open : BOOLEAN,
         endorsee : Contacts \cup {None}]  \* whom a cheque was handed on to

VARIABLES docs,    \* the documents, in the order they were created
          lines,   \* lines on the control accounts 102 and 201, in the order of their dates
          enabled  \* the setting finance_v2_enabled

vars == <<docs, lines, enabled>>

Init == docs = <<>> /\ lines = <<>> /\ enabled = FALSE

Sum(s, Value(_)) == FoldLeft(LAMBDA total, x : total + Value(x), 0, s)
Those(s, c) == SelectSeq(s, LAMBDA x : x.contact = c)
-----------------------------------------------------------------------------
(* Documents                                                               *)

\* Only invoices and cheques can be open; cheques and returns have a contact.
Valid(doc) ==
  /\ doc.endorsee = None
  /\ doc.open => doc.kind \in Invoices \cup Cheques
  /\ doc.kind \in Cheques \cup {"sale_return", "purchase_return"} => doc.contact # None
  /\ doc.kind = "transfer" => doc.contact = None

\* Without finance a document is written as it is.
Save(doc) ==
  /\ ~enabled /\ Valid(doc) /\ Len(docs) < MaxDocs
  /\ docs' = Append(docs, doc)
  /\ UNCHANGED <<lines, enabled>>

\* ... and rewritten or deleted; a cheque that leaves "pending" stays listed.
Rewrite(n, doc) ==
  /\ ~enabled /\ Valid(doc) /\ doc.kind = docs[n].kind
  /\ docs' = [docs EXCEPT ![n] = doc]
  /\ UNCHANGED <<lines, enabled>>

Delete(n) ==
  /\ ~enabled
  /\ docs' = RemoveAt(docs, n)
  /\ UNCHANGED <<lines, enabled>>

Activate ==
  /\ ~enabled /\ \A n \in DOMAIN docs : docs[n].kind \in Invoices /\ docs[n].open
  /\ enabled' = TRUE
  /\ UNCHANGED <<docs, lines>>

Debit(account, doc) == [account |-> account, contact |-> doc.contact, posted |-> TRUE,
                        debit |-> doc.amount, credit |-> 0]
Credit(account, doc) == [account |-> account, contact |-> doc.contact, posted |-> TRUE,
                         debit |-> 0, credit |-> doc.amount]

\* The line a posted document leaves on a control account.
ControlLine(doc) ==
  CASE doc.kind \in {"sale", "non_formal"} -> <<Debit("102", doc)>>
    [] doc.kind = "purchase" -> <<Credit("201", doc)>>
    [] doc.kind = "sale_return" -> <<Credit("102", doc)>>
    [] doc.kind = "purchase_return" -> <<Debit("201", doc)>>
    [] doc.kind = "receipt" -> <<Credit("102", doc)>>
    [] doc.kind = "payment" -> <<Debit("201", doc)>>
    [] doc.kind = "inbound" -> <<Credit("102", doc)>>
    [] doc.kind = "outbound" -> <<Debit("201", doc)>>
    [] OTHER -> <<>>

Post(doc) ==
  /\ enabled /\ Valid(doc) /\ Len(docs) < MaxDocs
  /\ doc.kind \in Cheques => doc.open
  /\ docs' = Append(docs, doc)
  /\ lines' = IF doc.kind \in Invoices /\ doc.open THEN lines ELSE lines \o ControlLine(doc)
  /\ UNCHANGED enabled

\* A cheque that bounces gives back what it settled; one that clears does not,
\* and stays open here.
Bounce(n) ==
  /\ enabled /\ docs[n].kind \in Cheques /\ docs[n].open /\ docs[n].endorsee = None
  /\ docs' = [docs EXCEPT ![n].open = FALSE]
  /\ lines' = Append(lines, IF docs[n].kind = "inbound" THEN Debit("102", docs[n]) ELSE Credit("201", docs[n]))
  /\ UNCHANGED enabled

\* An inbound cheque pays another contact: that one is debited, not the drawer.
Endorse(n, to) ==
  /\ enabled /\ docs[n].kind = "inbound" /\ docs[n].open /\ docs[n].endorsee = None
  /\ to # docs[n].contact
  /\ docs' = [docs EXCEPT ![n].endorsee = to]
  /\ lines' = Append(lines, Debit("201", [docs[n] EXCEPT !.contact = to]))
  /\ UNCHANGED enabled

\* A manual journal names no contact, and as a draft it does not count.
Journal(account, amount, posted) ==
  /\ Len(lines) < MaxDocs
  /\ lines' = Append(lines, [account |-> account, contact |-> None, posted |-> posted,
                             debit |-> amount, credit |-> 0])
  /\ UNCHANGED <<docs, enabled>>

Next ==
  \/ \E doc \in Docs : Save(doc) \/ Post(doc)
  \/ \E n \in DOMAIN docs : Delete(n) \/ Bounce(n) \/ \E doc \in Docs : Rewrite(n, doc)
  \/ \E n \in DOMAIN docs, to \in Contacts : Endorse(n, to)
  \/ Activate
  \/ \E account \in {"102", "201", "401"}, amount \in Amounts, posted \in BOOLEAN :
       Journal(account, amount, posted)

Spec == Init /\ [][Next]_vars
-----------------------------------------------------------------------------
(* The figures                                                             *)

\* _financialContactRows: posted lines of 102 and 201 that name a contact.
ContactRows == SelectSeq(lines, LAMBDA l : l.account \in {"102", "201"} /\ l.posted /\ l.contact # None)

Net(row) == row.debit - row.credit

\* Mutant: pre-invoices count.
EveryInvoice(doc) == doc.kind \in Invoices

Issued(doc) == doc.kind \in Invoices /\ ~doc.open

Balance(c) ==
  IF enabled THEN Sum(Those(ContactRows, c), Net)
  ELSE LET of(kind) == Sum(SelectSeq(Those(docs, c), LAMBDA d :
                             d.kind = kind /\ (kind \in Invoices => Issued(d))), LAMBDA d : d.amount)
       IN  (of("sale") - of("sale_return")) - of("receipt") + of("payment")

\* getBalanceMap adds up every contact in one pass.
BalanceMap ==
  IF enabled
  THEN FoldLeft(LAMBDA map, row : [map EXCEPT ![row.contact] = @ + Net(row)],
                [c \in Contacts |-> 0], ContactRows)
  ELSE FoldLeft(LAMBDA map, d :
         IF d.contact = None \/ (d.kind \in Invoices /\ d.open) THEN map
         ELSE [map EXCEPT ![d.contact] = @ + CASE d.kind \in {"sale", "payment"} -> d.amount
                                               [] d.kind \in {"sale_return", "receipt"} -> -d.amount
                                               [] OTHER -> 0],
         [c \in Contacts |-> 0], docs)

Row(debit, credit) == [debit |-> debit, credit |-> credit]

\* The rows of getLedger without finance; a pending cheque is a note only.
CardRow(doc) ==
  CASE doc.kind \in {"sale", "purchase_return", "payment"} -> <<Row(doc.amount, 0)>>
    [] doc.kind \in {"sale_return", "purchase", "receipt"} -> <<Row(0, doc.amount)>>
    [] doc.kind \in Cheques /\ doc.open -> <<Row(0, 0)>>
    [] OTHER -> <<>>

CardRows(c) ==
  IF enabled THEN Those(ContactRows, c)
  ELSE FlattenSeq([n \in DOMAIN Those(docs, c) |->
         LET doc == Those(docs, c)[n]
         IN  IF doc.kind \in Invoices /\ doc.open THEN <<>> ELSE CardRow(doc)])

Running(balance, row) == balance + row.debit - row.credit

\* The card: its totals and the balance under its last row.
Card(c) ==
  [debit |-> Sum(CardRows(c), LAMBDA r : r.debit), credit |-> Sum(CardRows(c), LAMBDA r : r.credit),
   final |-> FoldLeft(Running, 0, CardRows(c))]

\* How the pages show a balance.
Label(balance) ==
  [side |-> IF balance > 0 THEN "debtor" ELSE IF balance < 0 THEN "creditor" ELSE "settled",
   amount |-> IF balance < 0 THEN -balance ELSE balance]

\* A row of the list of contacts, and the list under a filter by balance.
ListShows(c) == Label(BalanceMap[c])
Filtered(side) == {c \in Contacts : ListShows(c).side = side}

\* The card on the screen; it is printed from a getLedger of its own.
CardShows(c) == [head |-> Label(Card(c).final), debit |-> Card(c).debit, credit |-> Card(c).credit]
PrintShows(c) == CardShows(c)

Debtors == {c \in Contacts : BalanceMap[c] > 0}
Creditors == {c \in Contacts : BalanceMap[c] < 0}

Summary ==
  [debt |-> MapThenSumSet(LAMBDA c : BalanceMap[c], Debtors),
   credit |-> MapThenSumSet(LAMBDA c : -BalanceMap[c], Creditors),
   debtors |-> Cardinality(Debtors), creditors |-> Cardinality(Creditors)]
-----------------------------------------------------------------------------
(* Properties                                                              *)

\* Documents and lines are whole, and lines name one side each.
TypeOK ==
  /\ docs \in Seq(Docs) /\ enabled \in BOOLEAN
  /\ \A n \in DOMAIN lines : lines[n].contact \in Contacts \cup {None} /\ lines[n].debit * lines[n].credit = 0

\* The list of contacts and a single contact show one balance, in both modes
\* (ContactController.js:114 and :139).
MapIsBalance == \A c \in Contacts : BalanceMap[c] = Balance(c)

\* With finance the card of a contact, and its print, end in the balance of the
\* list of contacts.
PostedCardIsBalance == enabled => \A c \in Contacts :
  ListShows(c) = CardShows(c).head /\ ListShows(c) = PrintShows(c).head

\* With finance the ledger owes each contact what its documents say.
LedgerFollowsDocuments == enabled => \A c \in Contacts :
  LET value(d) == CASE d.kind \in Invoices /\ d.open -> 0
                    [] d.kind \in Cheques /\ ~d.open -> 0
                    [] d.kind \in {"sale", "non_formal", "purchase_return", "payment", "outbound"} -> d.amount
                    [] d.kind = "transfer" -> 0
                    [] OTHER -> -d.amount
  IN  BalanceMap[c] = Sum(Those(docs, c), value)
                       + Sum(SelectSeq(docs, LAMBDA d : d.endorsee = c), LAMBDA d : d.amount)

\* The card foots: its last balance is the difference of its totals.
CardFoots == \A c \in Contacts : Card(c).final = Card(c).debit - Card(c).credit

\* What the debtors owe less what is owed to the creditors is the net of all
\* contacts, and with finance the net of the control accounts' contact lines;
\* the cards over the list count the rows its filters leave.
SummaryNets ==
  /\ Summary.debtors = Cardinality(Filtered("debtor"))
  /\ Summary.creditors = Cardinality(Filtered("creditor"))
  /\ Summary.debt - Summary.credit = MapThenSumSet(LAMBDA c : Balance(c), Contacts)
  /\ enabled => Summary.debt - Summary.credit = Sum(ContactRows, Net)

=============================================================================
