----------------------------- MODULE OpeningFile ----------------------------
(***************************************************************************)
(* The page that posts an opening balance from a file (AccountingView.js). *)
(* The file is read and examined without a write, the report is shown with *)
(* a button, and a confirmation posts the candidate. Reading and examining *)
(* are awaited, and their answer is stored in fields of the view whatever  *)
(* the user has done meanwhile. OpeningBalanceService.commit examines the  *)
(* file again in the transaction that writes it, and takes no file once a  *)
(* journal is posted, by whichever window or command. A reload of the      *)
(* program loses the answers under way, not the postings.                  *)
(***************************************************************************)
EXTENDS Naturals, FiniteSets, Sequences

CONSTANTS Files,       \* the files the user may choose
          Sound,       \* those that parse
          Patient,     \* the user does nothing while an answer is awaited
          MaxRenders,  \* how often the page is drawn, a bound
          MaxAwaited,  \* how many answers are awaited at once, a bound
          MaxBooks,    \* how many journals are posted, a bound
          None

ASSUME OpeningAssumption ==
  /\ Sound \subseteq Files /\ None \notin Files
  /\ Patient \in BOOLEAN
  /\ MaxRenders \in Nat /\ MaxAwaited \in Nat /\ MaxBooks \in Nat

VARIABLES page,       \* whether the tab is shown and how often it was drawn
          chosen,     \* the file in the input
          report,     \* what the page shows of a preview
          candidate,  \* _openingCandidate
          review,     \* _openingReview: whether it found the candidate ready
          previews,   \* files being read or examined, with their host element
          dialog,     \* the open confirmation and what the user saw when asking
          commits,    \* postings in flight, with what the user saw
          agreeing,   \* files that agree with the master data of now
          books       \* the posted journals: an opening with what its user saw, or None

vars == <<page, chosen, report, candidate, review, previews, dialog, commits, agreeing, books>>

Opening(f, seen) == [file |-> f, shown |-> seen.shown, chosen |-> seen.chosen]
Shown(f, ready) == [file |-> f, ready |-> ready]
NoReport == Shown(None, FALSE)

Init ==
  /\ page = [open |-> TRUE, n |-> 1]
  /\ chosen = None /\ report = NoReport
  /\ candidate = None /\ review = FALSE
  /\ previews = {} /\ dialog = None /\ commits = {}
  /\ agreeing \in SUBSET Sound
  /\ books = <<>>

\* The page can be used: nothing lies over it, and the user has had an answer.
Answered == previews = {} /\ \A c \in commits : ~c.awaited
AtHand == page.open /\ dialog = None /\ (Patient => Answered)

Forget == candidate' = None /\ review' = FALSE

\* Mutant: a candidate that was reviewed outlives the change of the input.
ChooseFileKept(f) ==
  /\ AtHand
  /\ chosen' = f
  /\ UNCHANGED <<page, report, candidate, review, previews, dialog, commits, agreeing, books>>

(* The change of the input: resetOpeningPreview.                           *)
ChooseFile(f) ==
  /\ AtHand
  /\ chosen' = f /\ Forget
  /\ report' = NoReport
  /\ UNCHANGED <<page, previews, dialog, commits, agreeing, books>>

(* previewOpeningFile up to its first await. The old report stays.         *)
PreviewFile ==
  /\ AtHand /\ chosen # None
  /\ Cardinality(previews) < MaxAwaited
  /\ Forget
  /\ previews' = previews \cup {[file |-> chosen, host |-> page.n]}
  /\ UNCHANGED <<page, chosen, report, dialog, commits, agreeing, books>>

KeepPreview(p) ==
  /\ candidate' = p.file /\ review' = (p.file \in agreeing)
  /\ report' = IF page = [open |-> TRUE, n |-> p.host]
               THEN Shown(p.file, p.file \in agreeing) ELSE report

(* The answer: the file does not parse, or it is the candidate now.        *)
PreviewDone(p) ==
  /\ previews' = previews \ {p}
  /\ IF p.file \in Sound
     THEN KeepPreview(p)
     ELSE /\ report' = IF page = [open |-> TRUE, n |-> p.host] THEN NoReport ELSE report
          /\ UNCHANGED <<candidate, review>>
  /\ UNCHANGED <<page, chosen, dialog, commits, agreeing, books>>

(* confirmOpeningPosting, from the button of a report that is ready.       *)
AskPosting ==
  /\ AtHand /\ report.ready
  /\ review /\ candidate # None
  /\ dialog' = [shown |-> report.file, chosen |-> chosen]
  /\ UNCHANGED <<page, chosen, report, candidate, review, previews, commits, agreeing, books>>

CancelPosting ==
  /\ dialog # None
  /\ dialog' = None
  /\ UNCHANGED <<page, chosen, report, candidate, review, previews, commits, agreeing, books>>

(* onConfirm takes the candidate of this moment; n tells the postings      *)
(* under way apart.                                                        *)
ConfirmPosting(n) ==
  /\ dialog # None /\ \A c \in commits : c.n # n
  /\ commits' = commits \cup {[n |-> n, awaited |-> TRUE, entry |-> Opening(candidate, dialog)]}
  /\ Forget /\ dialog' = None
  /\ UNCHANGED <<page, chosen, report, previews, agreeing, books>>

\* Mutant: the journals posted by now are not looked up again.
AcceptedAgain(f) == f \in agreeing

Accepted(f) == f \in agreeing /\ books = <<>>

(* commit: examined again and written, after which the view, if it is      *)
(* still there, shows the journals; or refused.                            *)
CommitDone(c) ==
  /\ commits' = commits \ {c}
  /\ books' = IF Accepted(c.entry.file) THEN Append(books, c.entry) ELSE books
  /\ IF Accepted(c.entry.file) /\ c.awaited
     THEN /\ page' = [page EXCEPT !.open = FALSE]
          /\ chosen' = None /\ report' = NoReport
     ELSE UNCHANGED <<page, chosen, report>>
  /\ UNCHANGED <<candidate, review, previews, dialog, agreeing>>

(* The window is reloaded: what it awaited is lost to it, and a            *)
(* transaction under way may still be done, or never.                      *)
Reload ==
  /\ page' = [page EXCEPT !.open = FALSE]
  /\ chosen' = None /\ report' = NoReport /\ Forget
  /\ previews' = {} /\ dialog' = None
  /\ commits' = {[n |-> c.n, awaited |-> FALSE, entry |-> c.entry] : c \in commits}
  /\ UNCHANGED <<agreeing, books>>

CommitLost(c) ==
  /\ ~c.awaited
  /\ commits' = commits \ {c}
  /\ UNCHANGED <<page, chosen, report, candidate, review, previews, dialog, agreeing, books>>

(* switchTab to another tab and back: the page is drawn anew, the fields   *)
(* of the view are kept.                                                   *)
SwitchTab ==
  /\ dialog = None /\ page.n < MaxRenders
  /\ page' = IF page.open THEN [page EXCEPT !.open = FALSE] ELSE [open |-> TRUE, n |-> page.n + 1]
  /\ chosen' = None /\ report' = NoReport
  /\ UNCHANGED <<candidate, review, previews, dialog, commits, agreeing, books>>

\* Another tab or user edits the contacts, the stock or the accounts.
MasterDataChanges(f) ==
  /\ f \in Sound
  /\ agreeing' = IF f \in agreeing THEN agreeing \ {f} ELSE agreeing \cup {f}
  /\ UNCHANGED <<page, chosen, report, candidate, review, previews, dialog, commits, books>>

\* Another window posts a journal, be it an opening of its own.
AnotherWindowPosts ==
  /\ Len(books) < MaxBooks
  /\ \/ books' = Append(books, None)
     \/ \E f \in Sound :
          Accepted(f) /\ books' = Append(books, Opening(f, [shown |-> f, chosen |-> f]))
  /\ UNCHANGED <<page, chosen, report, candidate, review, previews, dialog, commits, agreeing>>

Next ==
  \/ \E f \in Files : ChooseFile(f) \/ MasterDataChanges(f)
  \/ PreviewFile \/ AskPosting \/ CancelPosting \/ SwitchTab \/ Reload \/ AnotherWindowPosts
  \/ \E n \in 1..MaxAwaited : ConfirmPosting(n)
  \/ \E p \in previews : PreviewDone(p)
  \/ \E c \in commits : CommitDone(c) \/ CommitLost(c)

Spec == Init /\ [][Next]_vars

-----------------------------------------------------------------------------
(* An opening is the first journal of the books and the only opening:      *)
(* neither a second confirmation, nor one repeated because a reload lost   *)
(* the answer of the first, nor another window lays it over journals that  *)
(* were posted after its review (OpeningBalanceService.js:42-48, 133-145). *)
OpenedOnce == \A i \in DOMAIN books : books[i] # None => i = 1

(* The button of a report posts the file that it reports of, and which the *)
(* input still names: 'the file changed; it must be examined again'        *)
(* (AccountingView.js:120).                                                *)
PostsWhatIsShown ==
  \A i \in DOMAIN books :
    books[i] # None => books[i].file = books[i].shown /\ books[i].file = books[i].chosen
=============================================================================
