---------------------------- MODULE OpeningProofs ----------------------------
(***************************************************************************)
(* Proofs about OpeningFile for any files and periods and any number of    *)
(* redrawn pages and awaited answers.                                      *)
(***************************************************************************)
EXTENDS OpeningFile, TLAPS

(* The books only grow, by a journal of another window or, while they are  *)
(* empty, by an opening: that of a commit or of another window.            *)

IsBooks == \E S : books \in Seq(S)

Grown(e) == books' = Append(books, e)

LEMMA PostingStep ==
  ASSUME [Next]_vars
  PROVE  \/ UNCHANGED books
         \/ Grown(None)
         \/ books = <<>> /\ \E c \in commits : Grown(c.entry)
         \/ books = <<>> /\ \E f \in Sound : Grown(Opening(f, [shown |-> f, chosen |-> f]))
<1>1. ASSUME NEW c \in commits, CommitDone(c)
      PROVE  UNCHANGED books \/ (books = <<>> /\ Grown(c.entry))
  BY <1>1 DEF CommitDone, Accepted, Grown
<1>2. ASSUME NEW c \in commits, CommitLost(c) PROVE UNCHANGED books
  BY <1>2 DEF CommitLost
<1>3. ASSUME NEW f \in Files, ChooseFile(f) \/ MasterDataChanges(f) PROVE UNCHANGED books
  BY <1>3 DEF ChooseFile, MasterDataChanges
<1>4. ASSUME NEW p \in previews, PreviewDone(p) PROVE UNCHANGED books
  BY <1>4 DEF PreviewDone
<1>5. ASSUME NEW n \in 1..MaxAwaited, ConfirmPosting(n) PROVE UNCHANGED books
  BY <1>5 DEF ConfirmPosting
<1>6. CASE PreviewFile \/ AskPosting \/ CancelPosting \/ SwitchTab \/ Reload \/ UNCHANGED vars
  BY <1>6 DEF PreviewFile, AskPosting, CancelPosting, SwitchTab, Reload, vars
<1>7. CASE AnotherWindowPosts
  BY <1>7 DEF AnotherWindowPosts, Accepted, Grown
<1> QED
  BY <1>1, <1>2, <1>3, <1>4, <1>5, <1>6, <1>7 DEF Next

LEMMA GrownBooks ==
  ASSUME IsBooks, NEW e, Grown(e)
  PROVE  /\ IsBooks'
         /\ Len(books) \in Nat /\ DOMAIN books = 1..Len(books)
         /\ DOMAIN books' = 1..(Len(books) + 1)
         /\ books'[Len(books) + 1] = e
         /\ \A i \in DOMAIN books : books'[i] = books[i]
<1>1. PICK S : books \in Seq(S)
  BY DEF IsBooks
<1>2. books \in Seq(S \cup {e})
  BY <1>1
<1>3. Append(books, e) \in Seq(S \cup {e})
  BY <1>2
<1> QED
  BY <1>2, <1>3 DEF Grown, IsBooks

(* OpenedOnce: of all confirmations on their way, from whatever windows    *)
(* and after whatever reloads, one opens the books, and none opens books   *)
(* that hold a journal.                                                    *)
THEOREM OpenedOnceCorrect == Spec => []OpenedOnce
<1> DEFINE Inv == IsBooks /\ OpenedOnce
<1>1. Init => Inv
  <2> SUFFICES ASSUME Init PROVE Inv
    OBVIOUS
  <2>1. books = <<>> /\ <<>> \in Seq({})
    BY DEF Init
  <2> QED
    BY <2>1 DEF IsBooks, OpenedOnce
<1>2. Inv /\ [Next]_vars => Inv'
  <2> SUFFICES ASSUME Inv, [Next]_vars PROVE Inv'
    OBVIOUS
  <2>1. CASE UNCHANGED books
    BY <2>1 DEF IsBooks, OpenedOnce
  <2>2. CASE Grown(None)
    BY <2>2, GrownBooks DEF OpenedOnce
  <2>3. ASSUME NEW e, books = <<>>, Grown(e) PROVE Inv'
    <3>1. Len(books) = 0
      BY <2>3
    <3>2. DOMAIN books' = 1..1
      BY <2>3, <3>1, GrownBooks
    <3> QED
      BY <2>3, <3>2, GrownBooks DEF OpenedOnce
  <2> QED
    BY <2>1, <2>2, <2>3, PostingStep
<1>3. Inv => OpenedOnce
  OBVIOUS
<1> QED
  BY <1>1, <1>2, <1>3, PTL DEF Spec

-----------------------------------------------------------------------------
(* A patient user posts what is shown. The report that can be confirmed is *)
(* of the candidate and of the chosen file, an answer under way is for the *)
(* page as drawn or finds no report there, and nothing is under way while  *)
(* the confirmation is open.                                               *)

Same(c) == c.file = c.shown /\ c.file = c.chosen

ReportShows == report.ready /\ review => candidate = report.file /\ candidate = chosen

PreviewsFit ==
  /\ page.n \in Nat
  /\ previews # {} => review = FALSE
  /\ \A p, q \in previews : p = q
  /\ \A p \in previews :
       /\ p.host \in Nat /\ p.host <= page.n
       /\ \/ page = [open |-> TRUE, n |-> p.host] /\ p.file = chosen
          \/ page # [open |-> TRUE, n |-> p.host] /\ ~report.ready

DialogFits == dialog # None => previews = {} /\ candidate = dialog.shown /\ candidate = dialog.chosen

PageShape == page \in [open : BOOLEAN, n : Nat]

CommitsFit == \A c \in commits : Same(c.entry)

BooksFit ==
  IsBooks /\ \A i \in DOMAIN books : books[i] # None => Same(books[i])

PatientInv ==
  /\ PageShape /\ ReportShows /\ PreviewsFit /\ DialogFits
  /\ CommitsFit /\ BooksFit

LEMMA BooksKept ==
  ASSUME BooksFit, UNCHANGED books PROVE BooksFit'
  BY DEF BooksFit, IsBooks

LEMMA BooksGrown ==
  ASSUME BooksFit, NEW e, Grown(e), e # None => Same(e) PROVE BooksFit'
<1>1. IsBooks /\ \A i \in DOMAIN books : books[i] # None => Same(books[i])
  BY DEF BooksFit
<1>2. IsBooks'
  BY <1>1, GrownBooks
<1>3. ASSUME NEW i \in DOMAIN books', books'[i] # None PROVE Same(books'[i])
  <2>1. CASE i = Len(books) + 1
    BY <1>1, <1>3, <2>1, GrownBooks
  <2>2. CASE i \in DOMAIN books
    <3>1. books'[i] = books[i]
      BY <1>1, <2>2, GrownBooks
    <3> QED
      BY <1>1, <1>3, <2>2, <3>1
  <2> QED
    BY <1>1, <2>1, <2>2, GrownBooks
<1> QED
  BY <1>2, <1>3 DEF BooksFit

LEMMA PatientStep ==
  ASSUME Patient, PatientInv, [Next]_vars
  PROVE  PatientInv'
<1> USE DEF PatientInv, PageShape
<1>0. CASE UNCHANGED vars
  BY <1>0, BooksKept DEF vars, CommitsFit, ReportShows, PreviewsFit, DialogFits
<1>1. ASSUME NEW f \in Files, ChooseFile(f) PROVE PatientInv'
  BY <1>1, BooksKept DEF ChooseFile, AtHand, Answered, CommitsFit, Forget, NoReport, Shown, ReportShows, PreviewsFit, DialogFits
<1>2. CASE PreviewFile
  <2>1. previews' = {[file |-> chosen, host |-> page.n]} /\ page.open /\ dialog = None
        /\ review' = FALSE /\ UNCHANGED <<page, chosen, report, dialog, commits, books>>
    BY <1>2 DEF PreviewFile, AtHand, Answered, Forget
  <2>2. page = [open |-> TRUE, n |-> page.n] /\ page.n \in Nat
    BY <2>1
  <2> QED
    BY <2>1, <2>2, BooksKept DEF CommitsFit, ReportShows, PreviewsFit, DialogFits
<1>3. ASSUME NEW p \in previews, PreviewDone(p) PROVE PatientInv'
  <2>1. /\ previews' = {} /\ dialog = None
        /\ UNCHANGED <<page, chosen, dialog, commits, books>>
    BY <1>3 DEF PreviewDone, PreviewsFit, DialogFits
  <2>2. CASE p.file \in Sound /\ page = [open |-> TRUE, n |-> p.host]
    <3>1. candidate' = p.file /\ report'.file = p.file /\ p.file = chosen
      BY <1>3, <2>2 DEF PreviewDone, KeepPreview, Shown, PreviewsFit
    <3> QED
      BY <2>1, <3>1, BooksKept DEF CommitsFit, ReportShows, PreviewsFit, DialogFits
  <2>3. CASE page # [open |-> TRUE, n |-> p.host]
    <3>1. report' = report /\ ~report.ready
      BY <1>3, <2>3 DEF PreviewDone, KeepPreview, PreviewsFit
    <3> QED
      BY <2>1, <3>1, BooksKept DEF CommitsFit, ReportShows, PreviewsFit, DialogFits
  <2>4. CASE p.file \notin Sound /\ page = [open |-> TRUE, n |-> p.host]
    <3>1. ~report'.ready
      BY <1>3, <2>4 DEF PreviewDone, NoReport, Shown
    <3> QED
      BY <2>1, <3>1, BooksKept DEF CommitsFit, ReportShows, PreviewsFit, DialogFits
  <2> QED
    BY <2>2, <2>3, <2>4
<1>4. CASE AskPosting
  BY <1>4, BooksKept DEF AskPosting, AtHand, Answered, CommitsFit, ReportShows, PreviewsFit, DialogFits
<1>5. CASE CancelPosting
  BY <1>5, BooksKept DEF CancelPosting, CommitsFit, ReportShows, PreviewsFit, DialogFits
<1>6. ASSUME NEW n \in 1..MaxAwaited, ConfirmPosting(n) PROVE PatientInv'
  <2>1. /\ commits' = commits \cup {[n |-> n, awaited |-> TRUE, entry |-> Opening(candidate, dialog)]}
        /\ dialog # None
    BY <1>6 DEF ConfirmPosting
  <2>2. CommitsFit'
    BY <2>1 DEF CommitsFit, Same, DialogFits, Opening
  <2> QED
    BY <1>6, <2>2, BooksKept DEF ConfirmPosting, Forget, ReportShows, PreviewsFit, DialogFits
<1>7. ASSUME NEW c \in commits, CommitDone(c) PROVE PatientInv'
  <2>1. BooksFit'
    BY <1>7, BooksKept, BooksGrown DEF CommitDone, CommitsFit, Grown
  <2>2. CommitsFit'
    BY <1>7 DEF CommitDone, CommitsFit
  <2>3. CASE Accepted(c.entry.file) /\ c.awaited
    <3>1. /\ page' = [page EXCEPT !.open = FALSE] /\ chosen' = None /\ report' = NoReport
          /\ UNCHANGED <<candidate, review, previews, dialog>>
      BY <1>7, <2>3 DEF CommitDone
    <3>2. /\ page' = [open |-> FALSE, n |-> page.n] /\ page'.n = page.n
          /\ page' \in [open : BOOLEAN, n : Nat] /\ ~report'.ready
      BY <3>1 DEF NoReport, Shown
    <3>3. \A n : page' # [open |-> TRUE, n |-> n]
      BY <3>2
    <3> QED
      BY <2>1, <2>2, <3>1, <3>2, <3>3 DEF ReportShows, PreviewsFit, DialogFits
  <2>4. CASE ~(Accepted(c.entry.file) /\ c.awaited)
    BY <1>7, <2>1, <2>2, <2>4 DEF CommitDone, ReportShows, PreviewsFit, DialogFits
  <2> QED
    BY <2>3, <2>4
<1>8. CASE SwitchTab
  <2>1. /\ dialog = None /\ chosen' = None /\ ~report'.ready
        /\ UNCHANGED <<candidate, review, previews, dialog, commits, books>>
    BY <1>8 DEF SwitchTab, NoReport, Shown
  <2>2. \/ page' = [open |-> FALSE, n |-> page.n]
        \/ page' = [open |-> TRUE, n |-> page.n + 1]
    BY <1>8 DEF SwitchTab
  <2>3. page' \in [open : BOOLEAN, n : Nat] /\ page'.n \in {page.n, page.n + 1}
    <3>1. page.n \in Nat
      BY DEF PreviewsFit
    <3>2. CASE page' = [open |-> FALSE, n |-> page.n]
      BY <3>1, <3>2
    <3>3. CASE page' = [open |-> TRUE, n |-> page.n + 1]
      BY <3>1, <3>3
    <3> QED
      BY <2>2, <3>2, <3>3
  <2>4. ASSUME NEW p \in previews
        PROVE  page' # [open |-> TRUE, n |-> p.host] /\ p.host <= page'.n
    <3>1. p.host \in Nat /\ p.host <= page.n
      BY DEF PreviewsFit
    <3>2. CASE page' = [open |-> FALSE, n |-> page.n]
      BY <3>1, <3>2
    <3>3. CASE page' = [open |-> TRUE, n |-> page.n + 1]
      BY <3>1, <3>3
    <3> QED
      BY <2>2, <3>2, <3>3
  <2>5. PreviewsFit'
    <3>1. page'.n \in Nat /\ (previews # {} => review' = FALSE)
      BY <2>1, <2>3 DEF PreviewsFit
    <3>2. \A p \in previews : p.host \in Nat /\ page' # [open |-> TRUE, n |-> p.host] /\ p.host <= page'.n
      BY <2>4 DEF PreviewsFit
    <3>3. \A p, q \in previews : p = q
      BY DEF PreviewsFit
    <3> QED
      BY <2>1, <3>1, <3>2, <3>3 DEF PreviewsFit
  <2>6. ReportShows' /\ DialogFits'
    BY <2>1 DEF ReportShows, DialogFits
  <2> QED
    BY <2>1, <2>3, <2>5, <2>6, BooksKept DEF CommitsFit
<1>9. ASSUME NEW f \in Files, MasterDataChanges(f) PROVE PatientInv'
  BY <1>9, BooksKept DEF MasterDataChanges, CommitsFit, ReportShows, PreviewsFit, DialogFits
<1>10. CASE Reload
  <2>1. /\ page' = [page EXCEPT !.open = FALSE] /\ review' = FALSE /\ ~report'.ready
        /\ previews' = {} /\ dialog' = None /\ UNCHANGED books
        /\ commits' = {[n |-> c.n, awaited |-> FALSE, entry |-> c.entry] : c \in commits}
    BY <1>10 DEF Reload, Forget, NoReport, Shown
  <2>2. page' = [open |-> FALSE, n |-> page.n] /\ page'.n = page.n /\ page'.n \in Nat
        /\ page' \in [open : BOOLEAN, n : Nat]
    BY <2>1
  <2>3. CommitsFit'
    BY <2>1 DEF CommitsFit
  <2> QED
    BY <2>1, <2>2, <2>3, BooksKept DEF ReportShows, PreviewsFit, DialogFits
<1>11. ASSUME NEW c \in commits, CommitLost(c) PROVE PatientInv'
  BY <1>11, BooksKept DEF CommitLost, CommitsFit, ReportShows, PreviewsFit, DialogFits
<1>12. CASE AnotherWindowPosts
  <2>1. ASSUME books' = Append(books, None) PROVE BooksFit'
    BY <2>1, BooksGrown DEF Grown
  <2>2. ASSUME NEW f \in Sound, books' = Append(books, Opening(f, [shown |-> f, chosen |-> f]))
        PROVE  BooksFit'
    <3>1. Same(Opening(f, [shown |-> f, chosen |-> f]))
      BY DEF Opening, Same
    <3> QED
      BY <2>2, <3>1, BooksGrown DEF Grown
  <2>3. BooksFit'
    BY <1>12, <2>1, <2>2 DEF AnotherWindowPosts
  <2> QED
    BY <1>12, <2>3 DEF AnotherWindowPosts, CommitsFit, ReportShows, PreviewsFit, DialogFits
<1> QED
  BY <1>0, <1>1, <1>2, <1>3, <1>4, <1>5, <1>6, <1>7, <1>8, <1>9, <1>10, <1>11, <1>12 DEF Next

(* PostsWhatIsShown: a user who lets each answer arrive posts the file     *)
(* that the report names and the input holds.                              *)
THEOREM ShownCorrect == Patient => (Spec => []PostsWhatIsShown)
<1> SUFFICES ASSUME Patient PROVE Spec => []PostsWhatIsShown
  OBVIOUS
<1>1. Init => PatientInv
  <2> SUFFICES ASSUME Init PROVE PatientInv
    OBVIOUS
  <2>1. BooksFit
    <3>1. books = <<>> /\ <<>> \in Seq({})
      BY DEF Init
    <3> QED
      BY <3>1 DEF BooksFit, IsBooks
  <2> QED
    BY <2>1 DEF Init, PatientInv, PageShape, CommitsFit, ReportShows, PreviewsFit, DialogFits, NoReport, Shown
<1>2. PatientInv /\ [Next]_vars => PatientInv'
  BY PatientStep
<1>3. PatientInv => PostsWhatIsShown
  BY DEF PatientInv, BooksFit, PostsWhatIsShown, Same
<1> QED
  BY <1>1, <1>2, <1>3, PTL DEF Spec
=============================================================================
