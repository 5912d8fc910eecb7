# Finora Pro in TLA+

Finora Pro (the `Factor-easyPro` repository) is an offline Persian application
for invoicing, stock, treasury and double-entry accounting. It runs in a
WebView (Vite, Tauri), and all of its data is in IndexedDB, in one database
for several companies. This directory holds a model of the code that decides
about money and about what a user is shown of it, its TLC runs, and TLAPS
proofs.

Paths are relative to the repository, called `src/` here: the application's
code is in `src/src/`, its tests in `src/tests/`, its decision records in
`src/docs/`. `PROJECT.json` maps every definition to the lines it models, and
lists the hazards with the properties that look for them.

Contents: [1 the system](#1-the-system), [2 the modules](#2-the-modules),
[3 the runs](#3-the-runs), [4 the proofs](#4-the-proofs),
[5 where the code and its statements part](#5-where-the-code-and-its-statements-part),
[6 what is not modelled](#6-what-is-not-modelled), [7 plan](#7-plan).

## 1. The system

### How it executes

There is one process with one thread per window. Every command is an `async`
method. A command that posts runs inside one
`StorageService.transaction(stores, fn, 'readwrite')`: IndexedDB serialises
transactions whose stores overlap, across windows too, and one that throws is
rolled back as a whole. So a posting is atomic, and what interleaves is

* the order in which a user, or several windows, issue commands;
* the awaits of controllers and views, which read, ask the user, and then write
  in further transactions - and the program may be closed at any of them;
* the writes outside IndexedDB (`localStorage`, files, the license).

### Components

| component | state | operations | correct when |
|---|---|---|---|
| General ledger: `AccountingService.js`, `AccountingCore.mjs`, `LedgerReports.mjs`, `AccountingView.js` | chart, periods, journals and lines | seed and extend the chart, open and close a period, save, edit, discard and post a draft, post, reverse, report | what is posted balances and never changes, a closed period is final, a source is journalled once, reports add up |
| Commercial posting: `RetailPostingService.js` | invoices, treasury, settlements, expenses, cheques, movements, balances, stocktakes | issue an invoice or a return, receive, pay, refund, transfer, expense, cheque, stock transfer, stocktake, activation | documents, ledger, cash book and stock name the same amounts |
| Return settlement: `ReturnSettlementCore.mjs` | none (a preview) | preview a sale return | it predicts what posting does |
| Finance arithmetic: `RetailFinanceCore.mjs` | none | moving average, discount split | exact to the rial |
| Audit log: `AuditService.js`, `AuditChain.js` | audit events | append, restore, verify | one event per effect, an unbroken chain |
| Reconciliation and diagnostics: `ReconciliationCore.mjs`, `FinancialDiagnosticsService.js` | none (reads all) | compare ledger, documents and stock | reports exactly the real differences |
| Backup and restore: `CompanyBackupService.js` | every store of a company | merge or replace from a file | posted facts survive, an emptied company is given back |
| Storage: `StorageService.js` | the connection, schema version, full snapshots | open, upgrade, transaction, export, import | one connection, every caller answered |
| Invoices and numbering: `InvoiceController.js` | invoices, movements, settings | save, edit, convert a pre-invoice, delete, number | numbers unique, a final invoice never rewritten |
| Treasury, cheque, expense controllers | accounts and their flags, documents before activation | enter, edit, delete | every document and opening in the ledger once accounting is active |
| Licensing: `LicenseService.js`, `LicensePolicy.mjs`, `SecureState.js` | trial, counter, lease | trial, activation, permission to write, wipe | until a wipe the trial is one, and no right is lost |
| Opening balances: `OpeningBalanceService.js`, `OpeningBalanceDryRun.mjs` | journals of the opening | check, preview, post | posted once, first, what was reviewed |
| Excel: `ExcelController.js` | products, contacts | import (merge, replace), export | the list is that of the sheet, or has its new rows |
| Products and contacts | their lists and cards | edit, delete, balances | guards of deletion, one figure in all places |
| Authentication and companies: `Auth.js`, `CompanyService.js`, `DataScope.js` | users, session, active company | sign in, roles, switch | the company chosen scopes every read, no plain password |
| Settings and reports: `ReportController.js`, `ReportsView.js`, dates | view state | report, print | figures of the period they name |
| User interface: views, `Modal.js`, `NumberInput.js` | windows, fields | enter, save, close | what is saved is what is shown, once |
| Holoo preflight, desktop shell | none | validate foreign text, package | not modelled |

### How they interact

`InvoiceController`, `TreasuryController`, `ChequeController` and
`ExpenseController` call `RetailPostingService` once the company's integrated
accounting is activated. `RetailPostingService` shares `journal_entries`,
`fiscal_periods` and `stocktakes` with `AccountingService`: it posts journals
under the sources that `RESERVED_SOURCES` keeps from manual journals, and
`closePeriod` refuses while a stocktake is open. Both append to the audit log in
the same transaction. The preview of a return, the two controls and the reports
read the same rows again, each with code of its own. A backup reads and writes
every store beneath all of them.

### What is hard

1. **Two books.** Ten kinds of documents write the ledger and their own rows.
   Nothing but the agreement of signs and accounts in all of them keeps control
   accounts, cash book and stock equal to the ledger.
2. **Money that goes both ways.** A sale is paid, returned and refunded in
   parts, in any order; three commands keep three caps, each computed from the
   stored rows.
3. **Rounding.** The moving average, the cost of partial returns and the split
   of a discount round to whole rials, and the leftovers must not leak.
4. **Long-lived sessions.** A stocktake freezes a snapshot for days while other
   commands run and periods close. Drafts and open windows live as long.
5. **Reads before an await, writes after it** in the controllers and views.
6. **Crashes, restores and other windows**, outside any single transaction.
7. **The same figure computed several times**: balances of a contact, stock of a
   product, totals of an invoice, days of two calendars.

## 2. The modules

One command of a service is one action, with everything that would throw as its
guard, because a command that throws changes nothing. A command of a controller
or a view is one action per step between two awaits, with the local variables of
the command in a record of its task.

| module | models | state |
|---|---|---|
| `PostedBook` | abstract: an append-only book of balanced journals with periods locked for good | `book`, `locked` |
| `Ledger` | `AccountingService.js` over the validators of `AccountingCore.mjs`, with the commercial entry points that share its stores | `chart`, `period`, `journal`, `stocktake`, `commands` (the spent audit keys) |
| `LedgerReports` | extends `Ledger`: trial balance, balance sheet, profit and loss | none of its own |
| `LedgerRecovery` | extends `Ledger`: export, wipe and both modes of restore, the audit chain, identities of accounts and rows | adds `accountId`, `chain`, `batches`, `backups` |
| `RetailFinanceCore` | the pure functions of `RetailFinanceCore.mjs` | |
| `ReturnSettlement` | abstract: what may be collected on an invoice, returned and refunded | `gross`, `paid`, `returned`, `refunded` |
| `ReturnPreview` | extends `ReturnSettlement`: `previewSaleReturn` over `ReturnSettlementCore.mjs`, and the posting that comes later | adds `shown` |
| `RetailPosting` | `RetailPostingService.js` over `RetailFinanceCore`, shown to implement `ReturnSettlement` | `journals`, `invoices`, `treasury`, `expenses`, `cheques`, `stock`, `movements`, `stocktakes`, `closed` |
| `Reconciliation` | extends `RetailPosting`: the reconciliation report and the quick check, over stores that are sound, miss a row or hold an altered one | none of its own |
| `RetailRecovery` | extends `RetailPosting`: backup and restore of the commercial stores | adds `chain`, `backups` |
| `InvoiceDesk` | `InvoiceController` step by step: numbers, pre-invoices, conversion, deletion, the counter of the trial | `invoices`, `moves`, `nextNumber`, `counted`, `tasks` |
| `ContactCard` | a contact's balance, the map of balances, the card and the summary | `docs`, `lines`, `enabled` |
| `MasterData` | products and contacts: entry, deletion, movements, Excel import and export | `master`, `refs`, `enabled`, `export`, `reading`, `dialogs`, `raw`, `tasks` |
| `Activation` | treasury accounts, documents before accounting, the opening journal, `activate` | `parent`, `postable`, `used`, `booked`, `cash`, `docs`, `enabled`, `tasks` |
| `OpeningFile` | the page that previews and posts an opening file, its reloads, and other windows | the page, its answers under way, `books`, `agreeing` |
| `StorageOpen` | `StorageService.init` beside other windows; the browser's queue of open requests is external | `version`, `queue`, `request`, `handles`, `db`, `opening`, `caller`, `others` |
| `FullRestore` | `exportAll`, `importAll`, `clearAll` over documents, audit chain and users | `doc`, `lines`, `chain`, `users`, `backups`, `uid` |
| `Session` | start, migrations of passwords and rows, sign-in, companies | users, rows, session and companies |
| `License` | trial, lease, clock, protected state and its queue of writes, the wipe of all data | `clock`, `disk`, `state`, `lease`, `writes`, ... |
| `Calendar` | `Jalali.js` and the dozen copies of its conversions; the ranges and columns built on them | `gdate`, `jdate` |
| `SalesReports` | `ReportController` and the page that shows and prints its four tabs | documents, `filter`, `cache`, `refreshes`, `page` |
| `InvoiceForm` | the fields of an invoice form and the controller's second calculation | `rows`, `fields`, `totals`, `saved`, ... |
| `EntryForms` | windows, keys, saves and pages of the other forms | `windows`, `ctx`, `saves`, `written`, `route`, ... |
| `WorkbenchForms` | the journal window and the count sheet | `status`, `stored`, `windows`, `fields`, `busy`, ... |
| `NumberInput` | a numeric field and its caret | `text`, `caret`, `state`, `typed` |
| `SumTheorems` | what `SumFunction` of the community modules gives, proved; no model | |
| `LedgerProofs`, `RecoveryProofs`, `RetailProofs`, `StorageProofs`, `OpeningProofs`, `DeskProofs`, `ListProofs` | proofs, section 4 | |
| `MC...` | the small worlds TLC checks, section 3 | |

Abstractions that several modules share:

* `Ledger` keeps the lines of a journal, since it is about which lines are
  legal. `RetailPosting` keeps the net debit of each account per journal; of
  validation there remains what its own documents can still fail: at least two
  lines with an amount, and that they balance.
* Child stores (`journal_lines`, `invoice_items`, `stocktake_lines`) are kept in
  their parents, with which they are written - except where a restore takes them
  apart (`batches` of `LedgerRecovery`, `lines` of `FullRestore`).
* A model is one company and one authorised user, since every command checks
  both first and changes nothing when they do not fit; `Session` and
  `FullRestore` are about users and companies.
* Amounts stay far below 2^53, where the `safeInteger` guards would throw.
* In `RetailPosting` the accounts it posts to are leaves of the chart, as
  `activate` has checked; `LinesOnLeaves` of `Ledger`, proved, says that an
  account stays one once it has lines. Contacts of a return are those of its
  original.
* Closing a period, with everything `closePeriod` checks of journals, is
  `Ledger`'s. In `RetailPosting` a period closes when no stocktake is open in it,
  and takes nothing afterwards.
* The clock has no daylight saving.

A definition whose comment begins with "Mutant" is no part of a specification.
Each is a plausible mistake in the definition below it, and `PROJECT.json` names
the property that finds it.

## 3. The runs

A configuration explores several **worlds**: instances of modules on constants
of their own. `WorldInit` picks one, a behaviour stays in it, and what belongs
to the others keeps its initial value, so that a state of a run is a state of
one world, and the worlds do not interact. A world in braces means that what
follows is said of that world only. Properties named below without
a run are conjuncts of the run's property; the comment of each says what it
claims and of which lines.

### `ledger` (`MCLedger`)

Worlds, on one ledger of 2 journals, 2 periods of 2 dates and the default chart:
*ledger*, with a custom subsidiary, a closed account, a stocktake and three lists
of lines (a sale into the subsidiary, the sale given back, one that only a draft
may have); *reports*, without these and without business documents, with four
lists (a sale, its cost paid in by the owner, the sale given back, the one for a
draft).

| property | says |
|---|---|
| `PeriodsHold` | a closed period holds posted journals only, no journal is outside its period, and an open stocktake always keeps an open period |
| `PostingsSound` | what is posted balances, on leaves of the chart, once per source |
| `ReversalPaired` | an original and its reversal name and cancel each other, neither is reversed again |
| `AuditMatchesState` | a unique audit key is spent exactly when its effect is in the stores, so nothing is refused as a replay that is none |
| `AppendOnlyBook` | `Ledger` implements `PostedBook` |
| `ClosedReportFrozen` | the trial balance of a closed period never changes |
| `ReportsAgree` | every report balances, equity grows by the profit, by period is by dates, the profits of the periods add up to that of the books |

Two journals compete for a source, a period and an account; a reversal needs an
original and a reversal; the third interfering journal adds states and, for any
number, is covered by the proofs.

### `settlement` (`MCSettlement`)

Worlds: *contract*, `ReturnSettlement` with 2 invoices and amounts to 4;
*preview*, the same with one invoice and a preview that may be followed by any
commands before its return is posted;
*posting*, 3 invoices of a service out of seven forms, 4 treasury rows;
*cash*, an invoice, 2 cheques, an expense, 2 accounts, 2 treasury rows; *goods*
and *money*, `Reconciliation` over 3 invoices with a transfer and a stocktake,
and over 3 invoices with a cheque, an expense and 3 treasury rows; *discount*,
every invoice of up to 4 lines of 0..4 rials and every discount.

| property | says |
|---|---|
| `RefundsSound` | refunds lie within what was paid beyond the net invoice, and after one nothing is owed |
| `CreditStopsCollection` | an invoice paid beyond its net is not collected on again |
| `PreviewFaithful` | *{preview}* the return posted after a preview, however old, leaves no more debt and no less credit than was shown, exactly that if no receipt and no return came between; what was refused can never be posted, what was allowed fits the invoice until another return of it |
| `SettlesReturns` | *{posting}* `RetailPosting` implements `ReturnSettlement` |
| `MoneyAgrees` | *{posting, cash}* control accounts and cash book of the ledger are the sums of the documents, and an invoice's paid amount is the sum of its transactions |
| `ReconciliationExact` | *{goods, money}* the report is empty for sound books, and is not once a row is lost that another names (`NamedRows`) or an amount altered that another repeats (`RepeatedAmounts`); the quick check finds nothing the report does not |
| `DiscountShared` | *{discount}* the whole discount is shared, within a rial of each line's share, by largest remainder, the earlier line first |

The settlement of an invoice involves it and its returns only: three rows are an
original with two returns, or two originals and a return; amounts 1 and 2 of a
total of 3 give exact, partial and excessive steps.

### `commercial` (`MCRetailPosting`)

Worlds, on one shop of 2 warehouses and a good and a service: *periods*, documents
of every kind of which three at most write a journal, in 2 periods of a day that
close; *stock*, on one day and without the treasury, 4 invoices out of seven forms
with costs that do not divide by the units, a transfer, a stocktake.

| property | says |
|---|---|
| `ChequeEvidence` | a cleared cheque has exactly one transaction, of its amount, direction, account and day, any other none |
| `ClosedPeriodFrozen` | no command adds, takes or changes a journal, a transaction or a movement of a closed period, an invoice of it but for what is paid of it, or the issue or settlement of a cheque in it, and none reopens it |
| `GoodsAgree` | balances are the sums of movements and the inventory account their worth, a sale given back whole restores its cost, a counted stocktake can always be finished |

### `recovery` (`MCRecovery`)

Worlds: *ledger*, 2 journals, a period, a stocktake, one file and both modes;
*shop*, a purchase, a sale with a down payment, a cheque, one file and both modes;
*count*, 3 invoices and a stocktake, one file and merges; *merge*, a purchase, a
sale and a transfer between 2 warehouses, two files, two restores and merges.

| property | says |
|---|---|
| `RestoreKeepsHistory` | no restore, of any file in any mode, changes a posted journal, one of its lines or an event of the audit log |
| `RestoresFaithful` | every file restored into emptied stores, in every mode, gives back the company it was exported from, restoring it again changes nothing but the receipt, and documents and movements that are there stay as they are |
| `ExportsRestorable` | no state the commands can reach is refused when it is exported and restored into emptied stores |
| `RecoveredSound` | types; *{ledger}* a source is posted once, *{shop}* settlements agree with invoices; *{count, merge}* a merge keeps the balances and movements in agreement and a counted session finishable, if the company has what the file has of transfers and sessions (`HasUnaudited`), and wiped stores given back are in agreement |

A restore involves one file and what happened since it was taken, its own later
restores included, so that one file is enough where the audit log tells the
versions apart. It does not tell transfers of stock and sessions of a count, which
leave no event: *merge* has a second file, and section 5 says what is excluded.

### `desk` (`MCDesk`)

Worlds: *stops*, 2 invoices, 2 kinds, one command that may stop between any two
steps; *finance*, 3 invoices, typed numbers, no stop; *legacy*, the same with 2
invoices before activation; *races*, 2 commands that interleave and stop;
*cards*, 2 contacts, 2 documents and what the ledger says of them.

| property | says |
|---|---|
| `NumbersUnique` | no two issued invoices share a number |
| `PostedKept` | a posted invoice and its movements are never rewritten or removed |
| `DocumentsFollow` | while nothing runs: *{finance}* the number offered next is free and every issue was counted, *{legacy}* the movements are those of the invoices; *{races}* numbers are unique |
| `CardsAgree` | *{cards}* balance, map of balances, card and summary are one figure, that of the journals, or before the activation of the sales, returns, money and cheques (section 5 for the purchases) |

### `start` (`MCStart`)

Worlds: *open*, 2 callers, 3 requests, 2 other windows; *session*, 4 earlier
installations, 2 users, 2 companies; *trial*, *faulty* and *licensed*, a clock of
up to 5 or 7 half days, 3 invoices, with and without faults of the protected store;
*racing*, an invoice beside the activation of a licence;
*full*, 2 documents, 3 users, 2 files.

| property | says |
|---|---|
| `OneConnection` | the window's only open connection is the one it hands out |
| `EverybodyAnswered` | whoever calls `init` is answered, another window's upgrade is granted, a boot ends in a page |
| `SignInSound` | whoever is in has given a password that is kept as a hash and is no default one, unless he or the manager chose it; the company that scopes the reads is one he is allowed in and changes by his choice only, also when another window adds companies; users stay within the limit; earlier rows go to one company together |
| `TrialSound` | until all data are wiped: *{trial}* at most the invoices of the trial are issued, *{faulty}* an end once seen is final and the trial is not begun again, *{licensed}* a restart loses no right, *{racing}* the count falls only when a licence is stored over it |
| `FullRestoreSound` | *{full}* finalized documents, the limit of users and everybody's access survive a restore, and an empty installation is given back what was exported |

**Fairness.** `WF(Browser)`: IndexedDB answers the request at the head of its
queue when it can (its specification says so). `WF(Timeout(r))`: a timer that was
set fires (`StorageService.js:142`). `WF(Boot)`: the steps from `main.bootstrap` to
the first page follow each other without the user. Callers, other windows,
crashes and users are not fair: nobody has to do anything. The other runs need
none, except *hasty* below.

### `opening` (`MCOpening`)

Worlds: *file*, 3 files of which one is broken, 3 redraws of the page, 2 answers
under way, reloads, answers that are lost, other windows that post, a patient user;
*orderly*, 2 accounts, 2 documents of three kinds, one command at a time, which may
be cut short; *racing*, 2 commands that interleave and crash.

| property | says |
|---|---|
| `OpenedOnce` | an opening is the first journal and the only opening, however often it is confirmed |
| `PostsWhatIsShown` | what is posted is the file the report names and the input holds |
| `ActivationSound` | *{orderly}* once active every cash account and document is in the ledger, what the treasury computes for a linked account is what the journals of its rows and expenses left there, and no money is opened both by a journal and by its account; *{racing}* accounts in use stay leaves and 101 has no lines |

### `reports` (`MCReports`)

Worlds: *calendar*, every day from 1403 to 1407, two leap years; *figures*, 2
documents or expenses on 2 days, 2 contacts, a product; *page*, 2 refreshes that
overlap, eight steps each, while dates are typed one by one.

| property | says |
|---|---|
| `CalendarExact` | *{calendar}* conversions are those of the calendars, a date is accepted when it exists, ranges and due days hold the days they name, to the day (of last year all but 30 Esfand, of three months from 89 to 92 days back), the columns of the charts are disjoint and hold every day of theirs (the monthly chart up to the 28th), and the windows of days and weeks only slide forward |
| `ReportsSound` | *{figures}* tabs, print and dashboard add up to the documents; *{page}* when nothing loads, the page shows the period it names |

### `forms` (`MCForms`)

Worlds: *patient*, *twice* and *hurried*, `EntryForms` with up to 4 windows and 3
saves under a user who waits, who opens and presses twice, and who does
anything; *journal* and *sheet*, `WorkbenchForms` under a user who waits, with 3
journals and with a session; *hasty*, both under one who does not; *invoice*, up
to 2 rows and 6 edits; *number*, up to 5 symbols.

| property | says |
|---|---|
| `EntriesSound` | *{patient}* a form makes one row, is not left dead, an error means nothing was saved and a save closes its own window; *{twice}* one invoice per form; *{journal, sheet}* what is saved is what is shown, once; *{hurried, hasty}* Escape takes the top window, a refusal keeps the forms, posted rows stay, every save is answered |
| `FieldsSound` | *{invoice}* the controller accepts the form's figures, cash is paid in full, a part payment is kept, what is saved is what is shown and comes back; *{number}* the form holds the number that is shown, as typed, and the caret keeps its place |

**Fairness** of *hasty*: `WF(Answer)`, the database answers each request, if by an
abort.

### `lists` (`MCLists`)

Worlds: *entry*, 2 rows that are goods, services or contacts, 3 movements,
documents or pre-invoices, one command at a time; *import*, a sheet of three
products imported as products or as contacts from up to two dialogs into 4 ids,
both modes, stopped between any two steps; *export*, replacements by workbooks that
were exported, of one list or of both, into 3 ids.

| property | says |
|---|---|
| `RefsSound` | no movement loses its product and no document or pre-invoice its contact; with finance what has moved stays a good |
| `ListsExact` | *{import}* a merge of a sheet whose rows have keys adds new rows only, also when started over, *{import, export}* a replacement that ends leaves the rows of its sheet, as the list it is imported into reads them, and no other; *{entry}* with finance the listed stock is the kardex's |

### Runs that are expected to fail

* `return_rounding`, `ReturnsWithinCost`: a partial return is restocked at a
  rounded share of the cost (`RetailPostingService.js:306-308`), and only the one
  that completes the sale takes the remainder. Four units that cost 2 and come
  back one at a time are restocked at 1, 1, 1; the fourth would take -1 and is
  refused for good. `src/tests/retail-phase2.test.mjs:255` is titled "v2 all
  partial sale returns restore every rial of original COGS"; its numbers leave a
  positive remainder. `FullReturnRestoresCost` shows that the title holds
  whenever the last return can be posted.
* `desk_overwrite`, `PostedKept` with two commands: `InvoiceController.js:119`
  says "Existing posted documents are never silently rewritten." `save` checks
  the row it has read and writes in a later transaction that checks nothing;
  when the pre-invoice is converted in between, the posted invoice becomes a
  pre-invoice again, beside its journal.

### Bounds

`MaxTreasury`, `MaxUid`, `MaxNumber`, `MaxRow`, `MaxRefs`, `MaxDocs`, `MaxSaves`,
`MaxTurns`, `MaxRenders`, `MaxAwaited`, `MaxBooks`, `MaxDialogs`, `MaxBackups`,
`MaxRestores`, `MaxEdits`, `MaxLength`, `MaxClock` and
`MaxIssued` limit the length of a behaviour, each in the guard of the one action
that counts it up; `MaxQty`, `MaxTotal` and `MaxLines` and the set `Amounts` the size of
values; the sets of ids the number of actors. None limits which steps may
follow which. Every run has `CHECK_DEADLOCK FALSE`, since ids and bounds are used
up in the end and users may stop; what must never be stuck is a property
(`CountedSessionFinishes`, `ExportsRestorable`, `NoDeadForm`, `EverybodyAnswered`).
Symmetry is over ids that are only compared; runs with liveness use none.

## 4. The proofs

TLAPS proves the following for all values of the constants that satisfy the
named assumptions of the component (`LedgerAssumption`, `SettlementAssumption`,
`RetailAssumption`, `DeskAssumption`, `MasterDataAssumption`,
`OpeningAssumption`, `StorageAssumption`, `RecoveryAssumption`; TLC evaluates them in the runs): any
number of journals, periods, accounts, documents, tasks and windows, and any
amounts. The assumptions say what kind of thing a constant is: that names of
documents of different kinds differ, that a default row is a row, that a list
has an amount. One restricts a size: goods and warehouses are finitely many, since
the worth of the stock is a sum over them.

| theorem | states | of the run |
|---|---|---|
| `LedgerProofs!TypeCorrect`, `ClosedPeriodCorrect`, `DatesCorrect`, `SourceCorrect`, `BalanceCorrect` | `TypeOK` and the parts of `PeriodsHold` and `PostingsSound` | |
| `LedgerProofs!ReversalCorrect` | `ReversalPaired` | `ledger` |
| `LedgerProofs!LeavesCorrect`, `SessionsCorrect` | `LinesOnLeaves`, `OpenStocktakeFinalizable` | |
| `LedgerProofs!PeriodsCorrect` | `PeriodsHold` | `ledger` |
| `LedgerProofs!PostingsCorrect` | `PostingsSound` | `ledger` |
| `LedgerProofs!AuditCorrect` | `AuditMatchesState` | `ledger` |
| `LedgerProofs!BookCorrect` | `AppendOnlyBook`: `Ledger` implements `PostedBook` | `ledger` |
| `LedgerProofs!ReportsFrozen` | `ClosedReportFrozen` | `ledger` |
| `LedgerProofs!ReportsCorrect` | `ReportsAgree` | `ledger` |
| `RetailProofs!RefundsCorrect`, `RefundsSettled` | the parts of `RefundsSound` | |
| `RetailProofs!RefundsSoundCorrect` | `RefundsSound` | `settlement` |
| `RetailProofs!CollectionStops` | `CreditStopsCollection` | `settlement` |
| `RetailProofs!PreviewCorrect` | `PreviewFaithful` | `settlement` |
| `RetailProofs!SettlesReturnsCorrect` | `SettlesReturns`: `RetailPosting` implements `ReturnSettlement` | `settlement` |
| `RetailProofs!MoneyAgreesCorrect` | `MoneyAgrees` | `settlement` |
| `RetailProofs!ChequeCorrect` | `ChequeEvidence` | `commercial` |
| `RetailProofs!FrozenCorrect` | `ClosedPeriodFrozen` | `commercial` |
| `RetailProofs!GoodsCorrect` | `GoodsAgree` | `commercial` |
| `DeskProofs!NumbersCorrect` | `NumbersUnique`, with finance | `desk` |
| `DeskProofs!PostedCorrect` | `PostedKept`, with finance, one command at a time | `desk` |
| `ListProofs!RefsCorrect` | `RefsSound`, one command at a time, no replacing import | `lists` |
| `RecoveryProofs!RestoreCorrect` | `RestoreKeepsHistory` | `recovery` |
| `RecoveryProofs!GivesBackCorrect`, `IdempotentCorrect` | the parts of `RestoresFaithful` about the ledger: `RestoreGivesBack`, `RestoreIdempotent` | |
| `RecoveryProofs!SourcesCorrect` | `SourcePostedOnce` across restores, a part of `RecoveredSound` | |
| `StorageProofs!ConnectionCorrect` | `OneConnection` | `start` |
| `OpeningProofs!OpenedOnceCorrect` | `OpenedOnce` | `opening` |
| `OpeningProofs!ShownCorrect` | `PostsWhatIsShown`, with a patient user | `opening` |

### Hypotheses

Five theorems have one beside the assumptions, and each is the code's own
condition or the boundary of a known gap of section 5:

* `V2` (`DeskProofs`): the company has activated integrated accounting. Before
  that `save` turns a pre-invoice into an invoice without asking whether its
  number is taken (`InvoiceController.js:144`).
* `OneCommand` (`DeskProofs!PostedCorrect`, `ListProofs`): any two tasks are
  equal, so commands do not overlap, though each may be cut short anywhere.
  With two at once the code does overwrite: `desk_overwrite`, and the guard of a
  deletion that a movement overtakes.
* `NoReplacement` (`ListProofs`): `ExcelController`'s replace mode deletes without
  the guards (`ExcelController.js:471`).
* `Patient` (`OpeningProofs!ShownCorrect`): the user lets a preview arrive before
  he chooses another file (`AccountingView.js:140`).

### Arguments

**Ledger.** `LedgerInv` is the inductive invariant: types, `DatedInPeriod`,
`ClosedPeriodSettled`, `PlainUnlessPosted`, `SourcePostedOnce`, `PostedBalanced`,
`ReversalPaired`. The conjuncts need each other: a draft is kept out of a closed
period because periods do not overlap and a journal is dated in its own one, and
a reversal stays paired because rows that are not posted are linked to nothing.
`StepSummary` shows that each command does one of four things to the journals
(creates, edits, discards, reverses one) with what the validators guarantee of
it, and `PeriodSummary` what it does to the periods; so the invariant is preserved
by four cases instead of thirteen. `BookInv` adds the chart (codes unique, lines
on leaves), the sessions, that lines come from the lists a command was given, and
`AuditInv`; the refinement and the frozen report follow from one step of it. That
one needs no sum to be evaluated: the set of rows it sums over does not change.

**Reports.** The figures of a report are sums over accounts and journals of sums
over lines. `ReportInv` adds to `BookInv` what exchanging them needs: the types of
accounts are the five that exist, a period begins before it ends, and posted
journals and periods are finitely many. Then the net of each class of accounts is
the sum over the journals counted (`ClassNets`); that each of these balances makes
every report balance and equity grow by the profit, the figures of disjoint sets of
journals add up (`FiguresAdd`), and a journal is named by its period exactly when it
is dated in it (`NamedIsDated`), which is `DatedInPeriod` and that periods do not
overlap.

**Settlement.** `SettlementInv`: amounts are naturals and refunds lie within the
credit. The caps of `recordCash` and of a return establish and keep it.

**Sums.** `SumFunction` folds addition by recursion, so what it gives needs an
induction over finite sets. The provers cannot instantiate one that is stated of
a predicate; `FiniteDescent` (`SumTheorems`) is one of a *set of sets*: a collection
of subsets of S that holds a set whenever it holds the set less any member holds
all of them, because the strict subset ordering of a finite set is well-founded.
From it follow that the recursion has one solution and what the sum of a function
is when a member is added, changed or renamed, and when the domain is split into
two parts or into classes.

**Posting implements the contract.** The mapping takes the payment and the credit
of an invoice, which are sums over its returns, to the two variables of the
contract. `InvoiceInv` says what those sums need: only finitely many invoices are
issued, a return names an original of the right kind, nobody has paid more than
the document's total. A command issues an invoice, settles one, or leaves them
alone (`Issues`, `Settles`); issuing a return adds to the sums of one original
(`SumChanges`) and is a `Return` of it, settling is `Collect` or `Refund`.

**The books and the documents.** `MoneyInv`: the list of transactions, the invoices
and the cheques have the form their commands give them, the journals are finitely
many and a journal of the treasury bears the number of a row of the list, so that
the next number is free; and `Reckoned`, the equations of `MoneyAgrees` in the
figures that the steps move. `MoneyAgrees` alone is not inductive: that a sum grows
by what a command adds holds of finite stores only, and that a settlement of an
invoice changes no other invoice's sum needs the numbers to be unique. Each
command has a lemma of its own that says what it adds to each balance and to each
sum of documents, from lemmas on one journal, one row of the treasury, one cheque
and one invoice.

**The goods.** `GoodsInv`, relative to `MoneyInv` and `PeriodInv`, has four parts.
`InventoryInv`: movements and balances are of their kinds, and the movements
finitely many, what a journal does to the inventory account is an integer, and
`InventoryAgrees`. An invoice books its lines one after the other, each on the
balance the lines before it left, and nothing at all if one fails. `BookItems` is
therefore a recursive function over the lines; an invariant of it, `GoodsBooked`,
says that after each line the balances are those before plus the rows booked so
far, all of them naturals, and the journal of the invoice moves the account by the
same sum. A count books its rows in no particular order; that `SetToSeq` lists each
once is all that is used of it. `ItemsMoved` says that the rows of an invoice move
the units of its lines, so that the units a return may still take back are known
from the documents. `FullReturnRestoresCost` is inductive with it: the return that
takes the last unit is valued at what the others left of the cost, by whichever
line completes it, and no return comes after. `SessionInv` keeps a counted
stocktake finishable: a warehouse has one open session at most, its lines expect
what is in stock since every other command stops at `Counting`, its period cannot
close, and a session that is not posted has no journal. The journal of a count is
then `Postable`: what it costs to take out units that are there is a natural.

**Shop.** `ChequeInv`: rows of the treasury are well formed and every cheque is
`Evident`; each command but the two of a cheque adds at most one row, whose `ref`
is no cheque's (`AddsRow`). `PeriodInv` adds `Unmoved`: a document that does not
exist yet has no movements. Each store takes new rows only, stamped with the date
of the command, which lies in an open period (`Stamped`); so nothing dated in a
closed one is touched.

**Invoices.** `DeskInv`: whatever a command read before, the transaction of
`issueInvoice` reads the numbers again, and with finance the plain `put` is for
pre-invoices only (`PutsPre`). `PostedInv` adds that a posted invoice is issued and
that a command under way `Spares` it: its copy of the row is of one that was not
posted, and still is not, unless the command itself has just posted it and is
only counting. This is what fails with two commands.

**Lists.** `ListInv`: what a task has asked before it writes is `Answered` still:
the kind may change, the row is unused, the product is there. Only the task itself
could have changed the answer. The transaction of a posting with finance needs
none of this.

**Recovery.** A restore compares heads of posted journals and events, and puts
missing rows of lines; why do no lines of two versions meet in a posted journal?
`HistoryInv` says so of the company and all files at once: lines are those of their
rows (`LinesKept`), uids are drawn once (`UidsDrawn`), and every posted journal has
an event such that whoever has the event has the journal with the same rows
(`SettledAmong`). Of two logs of which one goes on from the other, the longer has
both events, so the rows agree (`SettledAgree`). A command posts with a new event
(`CompanyGoesOn`); a restore joins two histories (`SettledGoesOn`). `CompleteInv`
adds what the other stores need to be given back whole: an account with a uid is in
the chart, and a log without events goes with stores in which nothing was audited.
The checks `CheckRestored` makes are not used: the theorems hold without them.

**Storage.** `ConnectionInv`: of the requests of this window at most one is
pending in `opening`, and the handles that are open are the connection in `db`;
a connection that arrives after its timeout is closed by its own callback.

**Opening.** Only the answer to a commit posts, and it is accepted against the
master data and the periods of that moment; for a patient user the report, the
candidate, the input and the dialog name one file (`PatientInv`).

### What is only model-checked

* Sums that no theorem reaches: `ReconciliationExact`, `DiscountShared`,
  `CardsAgree`, `ReportsSound`. They are stated in the MC module
  of their run, about its worlds.
* Arithmetic of the calendars (`CalendarExact`) and of digits (`FieldsSound`):
  finite tables of cases, which TLC enumerates over five years and five symbols.
* Liveness under fairness: `EverybodyAnswered`, the last part of `EntriesSound`.
* `ENABLED`: `ExportsRestorable`.
* Conjunctions over several components at once (`DocumentsFollow`, `SignInSound`,
  `TrialSound`, `FullRestoreSound`, `ActivationSound`, `RecoveredSound`,
  `RestoresFaithful`, `EntriesSound`, `ListsExact`): they are stated in the MC
  module, about its worlds. Of the two about restores the parts on the ledger are
  proved.

## 5. Where the code and its statements part

Beside the two runs of section 3, modelling met places where the code does other
than a comment, a message or a document of the repository says. A passing run
excludes each of them by a constant or a guard, named in brackets where it has one;
without it the property fails.

*Restores.*
`CompanyBackupService.js:131` merges journal lines row by row, while an edited draft
has new ids for its lines, so a draft that is kept gets the lines of both versions
(`SettingsView.js:901` says duplicates are skipped); `importAll` does the same.
`:140` replaces what is not in `protectedPosted`: finished stocktakes go back to
open ones (`docs/adr/ADR-001...md:85`: a final count is not rewritten), closed
periods reopen and can never be closed again, as their audit key is spent
(`AuditService.js:48-49`), and `inventory_balances` go back while movements stay
[*count*: merges only], though `PROJECT_STATUS.md:113` says that a restore does
not rewrite the stock. A merge puts balances a company already has aside and takes
their movements: `transferStock` writes no audit event
(`RetailPostingService.js:698`), nor does the beginning of a count, so the logs of
two files agree of which one holds a transfer the other lacks; after the older one
was restored, merging the newer one adds movements beside a kept balance
[`HasUnaudited`]. `:205` lets a merge bring a discarded draft back into a
period closed since (`tests/a05-fiscal-close-gates.test.mjs:65`).

*Invoices.*
`InvoiceController.js:144`: duplicate numbers before activation [`V2`]. A crash
between the issue and the write of the counter makes the offered number a taken
one for another kind [*finance*: `Crashes`]. `LicenseService.js:113`: an invoice
whose counting is cut short is not counted
(`tests/license-policy.test.mjs:4`) [*trial*: `Faults`].

*Returns.*
The preview of a return (`RetailPostingService.js:52`) asks neither what is left of each
line nor whether the period is open, and its credit is before refunds: posting may
refuse what it shows [`ReturnPreview` states the figures only].

*Starting.*
`Auth.js:305` and `:316`: `changePassword` and `createUser` ask for eight characters only and
take the default password of earlier versions, which `:244` refuses
[`SignedInWithPassword` excepts who chose it].
`SettingsController.js:234`: `wipeAll` clears the protected store too, so the next
start begins a trial with no invoices counted and drops the licence; a save before
the reload puts the former state back [`TrialSound` holds until then].
`LicenseService.js:113`: an invoice counted while a licence is activated writes what it
read before, or is written over: the count is lost, or the licence is in memory only
until the next save [*racing*].
`StorageService.js:142`: after a blocked open only the first request has a timer; an
`init` called again meanwhile is never answered
(`tests/a07-indexeddb-blocked-startup.test.mjs:8`) [`Retry`].
`RetailPostingService.js:109`: an opening balance of cash that has been journalled,
as the message demands, still stops the activation, until the amount of the account is
set to zero by hand. `:91`: a document whose command has read that the company is
not active yet, and writes after the activation, stays without a journal
[*orderly*]. Manual journals and openings on a linked account are no rows of the
treasury, and its screen does not count them [`BalancesAgree` leaves them out].
`AccountingView.js:140`: a preview that arrives after another file was chosen offers
the file that was replaced [`Patient`].

*Lists.*
`ExcelController.js:471` deletes what movements refer to, `:481` (and `:539`) adds
keyless rows again at every merge (`SettingsView.js:316`) [`Keyed`];
`SettingsView.js:328` keeps the rows of two dialogs in one global, so the lower one
imports the file of the upper one under its own title, in the mode of the first
`#importMode` of the page; a confirmation pressed twice runs two imports [one at a
time]. `ExcelController.js:310`: the sheet of one section has no kind, so a service that
is exported and imported with it comes back as a good. `deleteProduct` asks movements:
lines of services and of pre-invoices keep the name of a product that is gone.
`ProductController.js:188` adds movements up in the order of random ids, so that a
count may be overtaken [with finance there are none].
`ContactController.js:125` leaves purchases out of the balances before activation;
`:297` uses `Formatters`, which the file does not import, so the card of a contact
with a pending cheque does not open.

*Reports.*
`ReportController.js:87`: last year ends on 29 Esfand, in a leap year too; `WindowsExact`
states the range as it is, without the day. The window of three months begins on
3 March on 31 May and on 1 March the day after. `:221` takes a line whose
discount is its whole price for one without a total; `:158` drops a negative cost of
sales; `:132` subtracts the discount of a returned sale twice.
`DashboardView.js:246` shows a month twice after the 28th, `:269` mixes the years of two
calendars, `:83` sums the Gregorian month under a Jalali heading.
`ReportsView.js:145`: a period typed while tabs load is used by the later ones
[`Impatient`]; `:534`: a print names the period of another tab.

*Forms.*
`InvoiceFormView.js:726`: rows without a product are in the summary only; `:214` shows a
saved rate of zero as 10; `:498`: a discount typed in a row is never taken off; `:641`:
the quick product's answer closes whichever window is on top.
`TreasuryView.js:342`, `AccountingView.js:487, :692`: two windows opened by two clicks
share their ids, and the upper one saves what the lower one shows.
`ChequesView.js:301`: a second press saves twice. `KeyboardShortcuts.js:71`: Enter saves
the lowest window; `Modal.js:66`: a save closes the top one, not its own.
`ProductsView.js:475` reports a failed redraw as a failed save; `Router.js:54` fills the
container of whichever page is current [all by `Habits`].
`NumberInput.js:32` wipes the decimal point of quantities; `:38`: a leading zero moves
the caret [`ZeroFirst`].

## 6. What is not modelled

* Hashes, signatures, encryption and password hashing: taken as collision-free or
  as a verified token. Parsing of workbooks and of foreign exports
  (`ExcelController`'s library, the Holoo preflight), layout, printing, packaging.
* `addWarehouse`; `setDefaultAccount`, `InvoiceController.markPaid`,
  `Auth.createUser`, `changePassword` and `login`, `CompanyService.create` and
  `StorageService.importAll` have no caller in the user interface; of these the
  model has those its own components define (`CreateUser`, `ImportAll`).
* Correction records (`document_corrections`): one per return and refund, next to
  rows the model has. Normalisation of legacy audit rows. Openings of stock and of
  contacts, which add sums to the comparison of `OpeningFile`. The sheets of documents
  that `exportAll` writes and nothing reads back.
* `Ledger` and `RetailPosting` are not composed: a manual journal on a control
  account, which the release notes allow, moves the ledger beside the documents, and
  reconciliation is there to name it.

## 7. Plan

1. Prove the parts of `SignInSound`, `TrialSound` and `FullRestoreSound` that are
   safety, each in a run of its component's own module.
2. Compose `Ledger` with `RetailPosting` over one chart.
3. `addWarehouse`, openings of stock, correction records.
