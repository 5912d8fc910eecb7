--------------------------- MODULE RecoveryProofs ---------------------------
(***************************************************************************)
(* What no restore takes back, what one gives back, what a second one adds *)
(* and that it lets no source in twice: for every ledger, any number of    *)
(* files and any length of the audit log.                                  *)
(*                                                                         *)
(* A restore compares the heads of posted journals and the events of the   *)
(* audit log, and then puts whatever rows of lines are missing. That this  *)
(* adds no line to a posted journal follows from the history of company    *)
(* and files alone: a posted journal is settled by an event, and whoever   *)
(* has that event has the journal with the same lines.                     *)
(***************************************************************************)
EXTENDS LedgerRecovery, FiniteSetTheorems, TLAPS

\* The company and its files.
All == backups \cup {Company}

IsPosted(c, j) == c.journal[j].status = "posted"

IsRow(row) ==
  /\ row = [status |-> row.status, period |-> row.period, date |-> row.date,
            source |-> row.source, lines |-> row.lines, reversedBy |-> row.reversedBy,
            reversalOf |-> row.reversalOf]
  /\ row.status \in {"absent", "draft", "posted", "discarded"}

Shaped(c) ==
  /\ c.journal = [j \in JournalIds |-> c.journal[j]]
  /\ \A j \in JournalIds : IsRow(c.journal[j])
  /\ c.batches = [j \in JournalIds |-> c.batches[j]]
  /\ c.chain \in Seq(Nat)

\* The lines of a journal are the rows that name it, and a row that is gone has none.
LinesKept(c) ==
  \A j \in JournalIds :
    /\ c.journal[j].lines = LinesOf(c.batches[j])
    /\ ~Present(c.journal[j]) => c.batches[j] = {}

UidsDrawn(c) == Uids(c) \subseteq 0 .. MaxUid

SameLines(c, d, j) == IsPosted(d, j) /\ d.batches[j] = c.batches[j]

\* Every posted journal is settled by an event: whoever has it has the journal.
SettledAmong(companies) ==
  \A c \in companies : \A j \in JournalIds :
    IsPosted(c, j) =>
      \E e \in ToSet(c.chain) :
        \A d \in companies : e \in ToSet(d.chain) => SameLines(c, d, j)

Sound(c) == Shaped(c) /\ LinesKept(c) /\ UidsDrawn(c)

HistoryInv == (\A c \in All : Sound(c)) /\ SettledAmong(All)

-----------------------------------------------------------------------------
(* Lines and uids.                                                         *)

\* A journal without rows has no lines.
LEMMA LinesOfNone == LinesOf({}) = <<>>
<1>1. Cardinality({}) = 0
  BY FS_EmptySet
<1> DEFINE none == [k \in 1 .. Cardinality({}) |-> InKeyOrder({})[k].lines]
<1>2. 1 .. Cardinality({}) = {}
  BY <1>1
<1>3. none = <<>>
  BY <1>2
<1>5. LinesOf({}) = FlattenSeq(none)
  BY DEF LinesOf
<1> HIDE DEF none
<1>4. Len(none) = 0
  BY <1>3
<1> QED
  BY <1>3, <1>4, <1>5 DEF FlattenSeq

\* One command wrote the lines: they are the lines of its batch.
LEMMA LinesOfOne ==
  ASSUME NEW uid, NEW lines
  PROVE  LinesOf({[uid |-> uid, lines |-> lines]}) = lines
<1> DEFINE batch == [uid |-> uid, lines |-> lines]
           written == {batch}
           seqs == [k \in 1 .. Cardinality(written) |-> InKeyOrder(written)[k].lines]
<1>1. Cardinality(written) = 1
  BY FS_Singleton
<1>2. InKeyOrder(written)[1] = batch
  <2>1. \E f \in [1 .. Cardinality(written) -> written] :
          \A i, k \in DOMAIN f : i < k => f[i].uid < f[k].uid
    <3> DEFINE g == [k \in 1 .. 1 |-> batch]
    <3>1. g \in [1 .. Cardinality(written) -> written]
      BY <1>1
    <3>2. \A i, k \in DOMAIN g : ~(i < k)
      OBVIOUS
    <3> QED  BY <3>1, <3>2
  <2>2. InKeyOrder(written) \in [1 .. Cardinality(written) -> written]
    BY <2>1 DEF InKeyOrder
  <2> QED  BY <2>2, <1>1
<1>3. seqs = [k \in 1 .. 1 |-> lines]
  BY <1>1, <1>2
<1> HIDE DEF seqs
<1>4. Len(seqs) = 1 /\ seqs[1] = lines
  <2>1. [k \in 1 .. 1 |-> lines] = <<lines>>
    OBVIOUS
  <2> QED  BY <1>3, <2>1
<1> DEFINE Flat(f) == f = [i \in 1 .. Len(seqs) |-> IF i = 1 THEN seqs[i] ELSE f[i - 1] \o seqs[i]]
           flatten == CHOOSE f : Flat(f)
<1>5. \E f : Flat(f)
  <2> DEFINE g == [i \in 1 .. 1 |-> seqs[1]]
  <2>1. Flat(g)
    BY <1>4
  <2> QED  BY <2>1
<1>6. Flat(flatten)
  BY <1>5
<1>7. flatten[1] = lines
  BY <1>4, <1>6
<1>8. FlattenSeq(seqs) = flatten[Len(seqs)]
  BY <1>4 DEF FlattenSeq
<1> QED
  BY <1>4, <1>7, <1>8 DEF LinesOf, seqs

\* A new uid is in no store and in no file; there is one beyond all that are drawn.
LEMMA AnyUid ==
  ASSUME HistoryInv
  PROVE  NextUid \in 1 .. MaxUid + 1 /\ \A c \in All : NextUid \notin Uids(c)
<1>1. \A c \in All : MaxUid + 1 \notin Uids(c)
  BY RecoveryAssumption DEF HistoryInv, Sound, UidsDrawn
<1>2. MaxUid + 1 \in 1 .. MaxUid + 1
  BY RecoveryAssumption
<1>3. \E uid \in 1 .. MaxUid + 1 :
        uid \notin Uids(Company) /\ \A b \in backups : uid \notin Uids(b)
  BY <1>1, <1>2 DEF All
<1>4. /\ NextUid \in 1 .. MaxUid + 1
      /\ NextUid \notin Uids(Company) /\ \A b \in backups : NextUid \notin Uids(b)
  BY <1>3 DEF NextUid
<1> QED
  BY <1>4 DEF All

LEMMA FreshUid ==
  ASSUME HistoryInv, NextUid <= MaxUid
  PROVE  NextUid \in 1 .. MaxUid /\ \A c \in All : NextUid \notin Uids(c)
BY AnyUid, RecoveryAssumption

\* The events of a company are among its uids.
LEMMA EventsAreUids ==
  ASSUME NEW c
  PROVE  ToSet(c.chain) \subseteq Uids(c)
BY DEF Uids

-----------------------------------------------------------------------------
(* Settled journals.                                                       *)

\* Of two companies of one history, those who have posted a journal have it
\* with the same lines.
LEMMA SettledAgree ==
  ASSUME NEW companies, SettledAmong(companies),
         NEW c \in companies, NEW b \in companies,
         ToSet(c.chain) \subseteq ToSet(b.chain) \/ ToSet(b.chain) \subseteq ToSet(c.chain),
         NEW j \in JournalIds, IsPosted(c, j), IsPosted(b, j)
  PROVE  c.batches[j] = b.batches[j]
<1>1. CASE ToSet(c.chain) \subseteq ToSet(b.chain)
  <2>1. PICK e \in ToSet(c.chain) :
          \A d \in companies : e \in ToSet(d.chain) => SameLines(c, d, j)
    BY DEF SettledAmong
  <2> QED  BY <1>1, <2>1 DEF SameLines
<1>2. CASE ToSet(b.chain) \subseteq ToSet(c.chain)
  <2>1. PICK e \in ToSet(b.chain) :
          \A d \in companies : e \in ToSet(d.chain) => SameLines(b, d, j)
    BY DEF SettledAmong
  <2> QED  BY <1>2, <2>1 DEF SameLines
<1> QED  BY <1>1, <1>2

\* A company goes on from others: it keeps what they have posted, and posts with
\* a new event only.
GoesOn(after, sources, uid, files) ==
  /\ \A b \in files : uid \notin ToSet(b.chain)
  /\ \A e \in ToSet(after.chain) : e = uid \/ \E s \in sources : e \in ToSet(s.chain)
  /\ \A s \in sources : \A j \in JournalIds : IsPosted(s, j) => SameLines(s, after, j)
  /\ \A j \in JournalIds :
       IsPosted(after, j) =>
         \/ uid \in ToSet(after.chain)
         \/ \E s \in sources : IsPosted(s, j) /\ ToSet(s.chain) \subseteq ToSet(after.chain)

LEMMA SettledGoesOn ==
  ASSUME NEW files, NEW c, SettledAmong(files \cup {c}),
         NEW after, NEW uid, NEW sources \in SUBSET (files \cup {c}),
         GoesOn(after, sources, uid, files)
  PROVE  SettledAmong(files \cup {after})
<1> DEFINE companies == files \cup {c}
           afterwards == files \cup {after}
<1> SUFFICES ASSUME NEW d \in afterwards, NEW j \in JournalIds, IsPosted(d, j)
             PROVE  \E e \in ToSet(d.chain) :
                      \A other \in afterwards : e \in ToSet(other.chain) => SameLines(d, other, j)
  BY DEF SettledAmong
<1> USE DEF GoesOn
<1>1. CASE d \in files
  <2>1. PICK e \in ToSet(d.chain) :
          \A other \in companies : e \in ToSet(other.chain) => SameLines(d, other, j)
    BY <1>1 DEF SettledAmong
  <2>2. ASSUME e \in ToSet(after.chain)
        PROVE  SameLines(d, after, j)
    <3>1. PICK s \in sources : e \in ToSet(s.chain)
      BY <1>1, <2>1, <2>2
    <3>2. SameLines(d, s, j)
      BY <2>1, <3>1
    <3> QED  BY <3>2 DEF SameLines
  <2> QED  BY <2>1, <2>2
<1>2. CASE d = after /\ uid \in ToSet(after.chain)
  <2>1. \A other \in afterwards : uid \in ToSet(other.chain) => other = after
    OBVIOUS
  <2> QED  BY <1>2, <2>1 DEF SameLines
<1>3. CASE d = after /\ uid \notin ToSet(after.chain)
  <2>1. PICK s \in sources : IsPosted(s, j) /\ ToSet(s.chain) \subseteq ToSet(after.chain)
    BY <1>3
  <2>2. SameLines(s, after, j)
    BY <2>1
  <2>3. PICK e \in ToSet(s.chain) :
          \A other \in companies : e \in ToSet(other.chain) => SameLines(s, other, j)
    BY <2>1 DEF SettledAmong
  <2>4. \A other \in afterwards : e \in ToSet(other.chain) => SameLines(after, other, j)
    <3> SUFFICES ASSUME NEW other \in afterwards, e \in ToSet(other.chain)
                 PROVE  SameLines(after, other, j)
      OBVIOUS
    <3>1. CASE other = after
      BY <3>1, <1>3 DEF SameLines
    <3>2. CASE other \in files
      BY <3>2, <2>2, <2>3 DEF SameLines
    <3> QED  BY <3>1, <3>2
  <2> QED  BY <1>3, <2>1, <2>3, <2>4
<1> QED  BY <1>1, <1>2, <1>3

-----------------------------------------------------------------------------
(* The audit log.                                                          *)

LEMMA PrefixEvents ==
  ASSUME NEW s \in Seq(Nat), NEW t \in Seq(Nat), IsPrefix(s, t)
  PROVE  ToSet(s) \subseteq ToSet(t)
<1>1. Len(s) <= Len(t) /\ SubSeq(s, 1, Len(s)) = SubSeq(t, 1, Len(s))
  BY DEF IsPrefix
<1>2. \A i \in DOMAIN s : i \in DOMAIN t /\ s[i] = t[i]
  <2> SUFFICES ASSUME NEW i \in DOMAIN s PROVE i \in DOMAIN t /\ s[i] = t[i]
    OBVIOUS
  <2>1. i \in 1 .. Len(s)
    OBVIOUS
  <2>2. SubSeq(s, 1, Len(s))[i] = s[i] /\ SubSeq(t, 1, Len(s))[i] = t[i]
    BY <2>1, <1>1
  <2> QED  BY <2>1, <2>2, <1>1
<1> QED
  BY <1>2 DEF ToSet

LEMMA AppendEvents ==
  ASSUME NEW s \in Seq(Nat), NEW e \in Nat
  PROVE  /\ Append(s, e) \in Seq(Nat)
         /\ ToSet(Append(s, e)) = ToSet(s) \cup {e}
         /\ IsPrefix(s, Append(s, e))
<1> DEFINE t == Append(s, e)
<1>1. t \in Seq(Nat) /\ Len(t) = Len(s) + 1
  OBVIOUS
<1>2. \A i \in 1 .. Len(s) : t[i] = s[i]
  OBVIOUS
<1>3. t[Len(s) + 1] = e
  OBVIOUS
<1> HIDE DEF t
<1>4. ToSet(t) = ToSet(s) \cup {e}
  <2>1. DOMAIN t = 1 .. Len(s) + 1 /\ DOMAIN s = 1 .. Len(s) /\ Len(s) \in Nat
    BY <1>1
  <2>2. \A x \in ToSet(t) : x \in ToSet(s) \cup {e}
    BY <2>1, <1>2, <1>3 DEF ToSet
  <2>3. \A x \in ToSet(s) \cup {e} : x \in ToSet(t)
    BY <2>1, <1>2, <1>3 DEF ToSet
  <2> QED  BY <2>2, <2>3
<1>5. IsPrefix(s, t)
  BY <1>1, <1>2 DEF IsPrefix
<1> QED
  BY <1>1, <1>4, <1>5 DEF t

\* The longer of two logs of one history goes on from both.
LEMMA LongerLog ==
  ASSUME NEW s \in Seq(Nat), NEW t \in Seq(Nat), IsPrefix(s, t) \/ IsPrefix(t, s)
  PROVE  LET longer == IF Len(s) > Len(t) THEN s ELSE t
         IN  /\ longer \in {s, t}
             /\ IsPrefix(t, longer)
             /\ ToSet(s) \subseteq ToSet(longer) /\ ToSet(t) \subseteq ToSet(longer)
<1>1. IsPrefix(t, t)
  BY DEF IsPrefix
<1>2. CASE Len(s) > Len(t)
  <2>1. IsPrefix(t, s)
    BY <1>2 DEF IsPrefix
  <2> QED  BY <1>2, <2>1, PrefixEvents
<1>3. CASE ~(Len(s) > Len(t))
  <2>1. ToSet(s) \subseteq ToSet(t)
    <3>1. CASE IsPrefix(s, t)
      BY <3>1, PrefixEvents
    <3>2. CASE IsPrefix(t, s)
      <4>1. Len(s) = Len(t) /\ Len(s) \in Nat /\ DOMAIN s = 1 .. Len(s) /\ DOMAIN t = 1 .. Len(t)
        BY <3>2, <1>3 DEF IsPrefix
      <4>2. SubSeq(s, 1, Len(s)) = SubSeq(t, 1, Len(t))
        BY <3>2, <4>1 DEF IsPrefix
      <4>3. IsPrefix(s, t)
        BY <4>1, <4>2 DEF IsPrefix
      <4> QED  BY <4>3, PrefixEvents
    <3> QED  BY <3>1, <3>2
  <2> QED  BY <1>1, <1>3, <2>1
<1> QED
  BY <1>2, <1>3

\* Events appended to a log that goes on from another.
LEMMA PrefixOfAppended ==
  ASSUME NEW s \in Seq(Nat), NEW t \in Seq(Nat), IsPrefix(s, t), NEW e \in Nat
  PROVE  IsPrefix(s, Append(t, e))
<1>1. Len(s) <= Len(t) /\ SubSeq(s, 1, Len(s)) = SubSeq(t, 1, Len(s))
  BY DEF IsPrefix
<1>2. \A i \in 1 .. Len(s) : s[i] = t[i] /\ Append(t, e)[i] = t[i]
  <2> SUFFICES ASSUME NEW i \in 1 .. Len(s) PROVE s[i] = t[i] /\ Append(t, e)[i] = t[i]
    OBVIOUS
  <2>1. SubSeq(s, 1, Len(s))[i] = s[i] /\ SubSeq(t, 1, Len(s))[i] = t[i]
    BY <1>1
  <2> QED  BY <1>1, <2>1
<1>3. Append(t, e) \in Seq(Nat) /\ Len(Append(t, e)) = Len(t) + 1
  OBVIOUS
<1> DEFINE u == Append(t, e)
<1> HIDE DEF u
<1>4. \A i \in 1 .. Len(s) : s[i] = u[i]
  BY <1>2 DEF u
<1>5. u \in Seq(Nat) /\ Len(u) = Len(t) + 1
  BY <1>3 DEF u
<1>6. SubSeq(s, 1, Len(s)) = SubSeq(u, 1, Len(s))
  BY <1>1, <1>4, <1>5
<1> QED
  BY <1>1, <1>5, <1>6 DEF IsPrefix, u

-----------------------------------------------------------------------------
(* The commands of the ledger.                                             *)

JournalShaped ==
  /\ journal = [j \in JournalIds |-> journal[j]]
  /\ \A j \in JournalIds : IsRow(journal[j])

\* What is posted stays posted with its lines, a new status is audited, and a
\* row that is deleted is empty.
RowKept(j) ==
  /\ Posted(j) => journal'[j].status = "posted" /\ journal'[j].lines = journal[j].lines
  /\ journal'[j].status # journal[j].status => commands' # commands
  /\ ~Present(journal'[j]) => journal'[j] = journal[j] \/ journal'[j].lines = <<>>

CommandKeeps == JournalShaped' /\ \A j \in JournalIds : RowKept(j)

LEMMA NewRowIsRow ==
  ASSUME NEW status \in {"absent", "draft", "posted", "discarded"},
         NEW p, NEW d, NEW lines, NEW src, NEW of
  PROVE  LET row == NewJournal(status, p, d, lines, src, of)
         IN  IsRow(row) /\ row.status = status /\ row.lines = lines
BY DEF NewJournal, IsRow

LEMMA UnchangedJournal ==
  ASSUME JournalShaped, journal' = journal
  PROVE  CommandKeeps
BY DEF CommandKeeps, RowKept, JournalShaped, Posted

\* A command that writes one row.
LEMMA OneRow ==
  ASSUME JournalShaped, NEW j \in JournalIds, NEW row,
         journal' = [journal EXCEPT ![j] = row], IsRow(row),
         Posted(j) => row.status = "posted" /\ row.lines = journal[j].lines,
         row.status # journal[j].status => commands' # commands,
         ~Present(row) => row.lines = <<>>
  PROVE  CommandKeeps
<1>1. journal' = [k \in JournalIds |-> IF k = j THEN row ELSE journal[k]]
  BY DEF JournalShaped
<1>2. JournalShaped'
  BY <1>1 DEF JournalShaped
<1>3. ASSUME NEW k \in JournalIds PROVE RowKept(k)
  <2>1. CASE k = j
    BY <2>1, <1>1 DEF RowKept
  <2>2. CASE k # j
    BY <2>2, <1>1 DEF RowKept, Posted
  <2> QED  BY <2>1, <2>2
<1> QED  BY <1>2, <1>3 DEF CommandKeeps

\* A new row, at a uid that was free.
LEMMA FreeRow ==
  ASSUME JournalShaped, NEW j \in JournalIds, journal[j].status = "absent",
         NEW status \in {"draft", "posted"}, NEW p, NEW d, NEW lines, NEW src, NEW of,
         journal' = [journal EXCEPT ![j] = NewJournal(status, p, d, lines, src, of)],
         commands' # commands
  PROVE  CommandKeeps
<1> DEFINE row == NewJournal(status, p, d, lines, src, of)
<1>1. IsRow(row) /\ row.status = status
  BY NewRowIsRow
<1> HIDE DEF row
<1>2. ~Posted(j) /\ Present(row)
  BY <1>1 DEF Posted, Present
<1>3. journal' = [journal EXCEPT ![j] = row]
  BY DEF row
<1> QED  BY <1>1, <1>2, <1>3, OneRow

LEMMA Audited == \A key : Audit(key) => commands' # commands
BY DEF Audit

LEMMA CommandEffect ==
  ASSUME JournalShaped, OtherCommand
  PROVE  CommandKeeps
<1>1. ASSUME NEW row \in AccountRows, AddAccount(row)
      PROVE  CommandKeeps
  BY <1>1, UnchangedJournal DEF AddAccount
<1>2. CASE SeedDefaultChart
  BY <1>2, UnchangedJournal DEF SeedDefaultChart
<1>3. ASSUME NEW p \in PeriodIds, NEW start \in Dates, NEW end \in Dates, CreatePeriod(p, start, end)
      PROVE  CommandKeeps
  BY <1>3, UnchangedJournal DEF CreatePeriod
<1>4. ASSUME NEW p \in PeriodIds, ClosePeriod(p)
      PROVE  CommandKeeps
  BY <1>4, UnchangedJournal DEF ClosePeriod
<1>5. ASSUME NEW j \in JournalIds, NEW p, NEW d, NEW lines, NEW src, SaveDraftJournal(j, p, d, lines, src)
      PROVE  CommandKeeps
  BY <1>5, FreeRow, Audited DEF SaveDraftJournal
<1>6. ASSUME NEW j \in JournalIds, NEW p, NEW d, NEW lines, NEW src, PostJournal(j, p, d, lines, src)
      PROVE  CommandKeeps
  BY <1>6, FreeRow, Audited DEF PostJournal
<1>7. ASSUME NEW j \in JournalIds, NEW p, NEW d, NEW lines, NEW src, CommercialJournal(j, p, d, lines, src)
      PROVE  CommandKeeps
  BY <1>7, FreeRow, Audited DEF CommercialJournal
<1>8. ASSUME NEW j \in JournalIds, PostDraftJournal(j)
      PROVE  CommandKeeps
  <2> DEFINE row == [journal[j] EXCEPT !.status = "posted"]
  <2>1. journal[j].status = "draft" /\ journal' = [journal EXCEPT ![j] = row] /\ commands' # commands
    BY <1>8, Audited DEF PostDraftJournal
  <2>2. IsRow(row) /\ row.status = "posted"
    BY DEF IsRow, JournalShaped
  <2>3. ~Posted(j) /\ Present(row)
    BY <2>1, <2>2 DEF Posted, Present
  <2> HIDE DEF row
  <2> QED  BY <2>1, <2>2, <2>3, OneRow
<1>9. ASSUME NEW j \in JournalIds, DiscardDraftJournal(j)
      PROVE  CommandKeeps
  <2> DEFINE row == NoJournal("discarded")
  <2>1. journal[j].status = "draft" /\ journal' = [journal EXCEPT ![j] = row] /\ commands' # commands
    BY <1>9, Audited DEF DiscardDraftJournal
  <2>2. IsRow(row) /\ row.status = "discarded" /\ row.lines = <<>>
    BY NewRowIsRow DEF NoJournal
  <2>3. ~Posted(j)
    BY <2>1 DEF Posted
  <2> HIDE DEF row
  <2> QED  BY <2>1, <2>2, <2>3, OneRow
<1>10. ASSUME NEW original \in JournalIds, NEW j \in JournalIds, NEW p, NEW d,
              ReverseJournal(original, j, p, d)
       PROVE  CommandKeeps
  <2> DEFINE lines == ReversingLines(journal[original].lines)
             row == NewJournal("posted", p, d, lines, ReversalSource(original), original)
             marked == [journal[original] EXCEPT !.reversedBy = j]
  <2>1. /\ journal[j].status = "absent" /\ Posted(original) /\ commands' # commands
        /\ journal' = [journal EXCEPT ![j] = row, ![original].reversedBy = j]
    BY <1>10, Audited DEF ReverseJournal
  <2>2. IsRow(row) /\ row.status = "posted"
    BY NewRowIsRow
  <2>3. IsRow(marked) /\ marked.status = "posted" /\ marked.lines = journal[original].lines
    BY <2>1 DEF IsRow, JournalShaped, Posted
  <2>4. original # j
    BY <2>1 DEF Posted
  <2>5. journal' = [k \in JournalIds |-> IF k = original THEN marked ELSE IF k = j THEN row ELSE journal[k]]
    <3> HIDE DEF row
    <3> QED  BY <2>1, <2>4 DEF JournalShaped
  <2> HIDE DEF row, marked
  <2>6. JournalShaped'
    BY <2>2, <2>3, <2>5 DEF JournalShaped
  <2>7. ASSUME NEW k \in JournalIds PROVE RowKept(k)
    <3>1. CASE k = original
      BY <3>1, <2>1, <2>3, <2>5 DEF RowKept, Present
    <3>2. CASE k # original /\ k = j
      BY <3>2, <2>1, <2>2, <2>5 DEF RowKept, Present, Posted
    <3>3. CASE k # original /\ k # j
      BY <3>3, <2>5 DEF RowKept, Posted
    <3> QED  BY <3>1, <3>2, <3>3
  <2> QED  BY <2>6, <2>7 DEF CommandKeeps
<1>11. ASSUME NEW s \in StocktakeIds, NEW w \in Warehouses, NEW d \in Dates, NewStocktake(s, w, d)
       PROVE  CommandKeeps
  BY <1>11, UnchangedJournal DEF NewStocktake
<1>12. ASSUME NEW s \in StocktakeIds, FinalizeStocktake(s)
       PROVE  CommandKeeps
  <2>1. CASE UNCHANGED <<journal, commands>>
    BY <2>1, UnchangedJournal
  <2>2. CASE ~UNCHANGED <<journal, commands>>
    <3>1. PICK p \in PeriodIds :
            \E j \in JournalIds, lines \in LineLists :
              CommercialJournal(j, p, stocktake[s].date, lines, StocktakeSource(s))
      BY <1>12, <2>2 DEF FinalizeStocktake
    <3> QED  BY <3>1, <1>7
  <2> QED  BY <2>1, <2>2
<1> QED
  BY <1>1, <1>2, <1>3, <1>4, <1>5, <1>6, <1>7, <1>8, <1>9, <1>10, <1>11, <1>12
  DEF OtherCommand, PostCommercial

-----------------------------------------------------------------------------
(* The steps.                                                              *)

LEMMA UidsOf ==
  ASSUME NEW c
  PROVE  /\ \A code \in Codes : c.accountId[code] \in Uids(c)
         /\ \A j \in JournalIds : \A batch \in c.batches[j] : batch.uid \in Uids(c)
BY DEF Uids

LEMMA UidsWithin ==
  ASSUME NEW c, NEW drawn, ToSet(c.chain) \subseteq drawn,
         \A code \in Codes : c.accountId[code] \in drawn,
         \A j \in JournalIds : \A batch \in c.batches[j] : batch.uid \in drawn
  PROVE  Uids(c) \subseteq drawn
BY DEF Uids

LEMMA CompanyFields ==
  /\ Company.journal = journal /\ Company.batches = batches /\ Company.chain = chain
  /\ Company.accountId = accountId
BY DEF Company

LEMMA SoundNow ==
  ASSUME HistoryInv
  PROVE  /\ JournalShaped
         /\ batches = [j \in JournalIds |-> batches[j]]
         /\ chain \in Seq(Nat)
         /\ \A j \in JournalIds : /\ journal[j].lines = LinesOf(batches[j])
                                  /\ ~Present(journal[j]) => batches[j] = {}
         /\ Uids(Company) \subseteq 0 .. MaxUid
BY CompanyFields DEF HistoryInv, All, Sound, Shaped, LinesKept, UidsDrawn, JournalShaped

\* The company changes and its files do not.
LEMMA CompanyStep ==
  ASSUME HistoryInv, backups' = backups, Sound(Company'), SettledAmong(backups \cup {Company'})
  PROVE  HistoryInv'
<1>1. All' = backups \cup {Company'}
  BY DEF All
<1>2. \A c \in All' : Sound(c)
  BY <1>1 DEF HistoryInv, All
<1>3. SettledAmong(All')
  BY <1>1
<1> QED  BY <1>2, <1>3 DEF HistoryInv

LEMMA ExportStep ==
  ASSUME HistoryInv, ExportBackup
  PROVE  HistoryInv'
<1>1. Company' = Company
  BY DEF ExportBackup, Company, vars, side
<1>2. All' = All
  BY <1>1 DEF ExportBackup, All
<1> QED  BY <1>2 DEF HistoryInv

LEMMA WipeStep ==
  ASSUME HistoryInv, WipeAll
  PROVE  HistoryInv'
<1> DEFINE after == Company'
<1>1. /\ after.chain = <<>>
      /\ after.journal = [j \in JournalIds |-> NoJournal("absent")]
      /\ after.batches = [j \in JournalIds |-> {}]
      /\ after.accountId = [code \in Codes |-> 0]
  BY DEF WipeAll, Company
<1>2. backups' = backups
  BY DEF WipeAll
<1> HIDE DEF after
<1>3. IsRow(NoJournal("absent")) /\ NoJournal("absent").status = "absent" /\ NoJournal("absent").lines = <<>>
  BY NewRowIsRow DEF NoJournal
<1>4. ToSet(after.chain) = {}
  BY <1>1 DEF ToSet
<1>5. Shaped(after)
  BY <1>1, <1>3 DEF Shaped
<1>6. LinesKept(after)
  BY <1>1, <1>3, LinesOfNone DEF LinesKept
<1>7. UidsDrawn(after)
  <2>1. /\ ToSet(after.chain) \subseteq {0}
        /\ \A code \in Codes : after.accountId[code] \in {0}
        /\ \A j \in JournalIds : \A batch \in after.batches[j] : batch.uid \in {0}
    BY <1>1, <1>4
  <2>2. Uids(after) \subseteq {0}
    BY <2>1, UidsWithin
  <2> QED  BY <2>2, RecoveryAssumption DEF UidsDrawn
<1>8. SettledAmong(backups \cup {after})
  <2>1. SettledAmong(backups \cup {Company})
    BY DEF HistoryInv, All
  <2>2. \A j \in JournalIds : ~IsPosted(after, j)
    BY <1>1, <1>3 DEF IsPosted
  <2>3. \E uid : \A b \in backups : uid \notin ToSet(b.chain)
    <3>1. MaxUid + 1 \notin 0 .. MaxUid
      BY RecoveryAssumption
    <3>2. \A b \in backups : Uids(b) \subseteq 0 .. MaxUid
      BY DEF HistoryInv, All, Sound, UidsDrawn
    <3>3. ASSUME NEW b \in backups PROVE ToSet(b.chain) \subseteq 0 .. MaxUid
      <4>1. ToSet(b.chain) \subseteq Uids(b)
        BY EventsAreUids
      <4> QED  BY <3>2, <4>1
    <3> QED  BY <3>1, <3>3
  <2>4. PICK uid : \A b \in backups : uid \notin ToSet(b.chain)
    BY <2>3
  <2>5. GoesOn(after, {}, uid, backups)
    BY <2>2, <2>4, <1>4 DEF GoesOn
  <2> QED  BY <2>1, <2>5, SettledGoesOn
<1> QED
  BY <1>2, <1>5, <1>6, <1>7, <1>8, CompanyStep DEF Sound, after

\* What a step with a new uid draws is drawn.
LEMMA DrawnStep ==
  ASSUME HistoryInv, NextUid <= MaxUid
  PROVE  /\ NextUid \in Nat
         /\ Uids(Company) \cup {NextUid} \subseteq 0 .. MaxUid
         /\ \A b \in backups : Uids(b) \cup {NextUid} \subseteq 0 .. MaxUid
         /\ \A b \in backups : NextUid \notin ToSet(b.chain)
<1>1. NextUid \in 1 .. MaxUid /\ \A c \in All : NextUid \notin Uids(c)
  BY FreshUid
<1>2. \A c \in All : Uids(c) \subseteq 0 .. MaxUid
  BY DEF HistoryInv, Sound, UidsDrawn
<1>3. \A b \in backups : NextUid \notin Uids(b)
  BY <1>1 DEF All
<1>4. \A b \in backups : NextUid \notin ToSet(b.chain)
  BY <1>3, EventsAreUids
<1> QED
  BY <1>1, <1>2, <1>4, RecoveryAssumption DEF All

\* The company goes on by itself: what it has posted stays, and posting draws
\* a new event.
LEMMA CompanyGoesOn ==
  ASSUME HistoryInv, NextUid <= MaxUid, backups' = backups, JournalShaped',
         batches' = [j \in JournalIds |-> batches'[j]],
         \A j \in JournalIds :
           /\ journal'[j].lines = LinesOf(batches'[j])
           /\ ~Present(journal'[j]) => batches'[j] = {}
           /\ \A batch \in batches'[j] : batch \in batches[j] \/ batch.uid = NextUid
           /\ Posted(j) => journal'[j].status = "posted" /\ batches'[j] = batches[j]
           /\ journal'[j].status = "posted" => Posted(j) \/ chain' = Append(chain, NextUid),
         chain' \in {chain, Append(chain, NextUid)},
         \A code \in Codes : accountId'[code] \in {accountId[code], NextUid}
  PROVE  HistoryInv'
<1> DEFINE after == Company'
           drawn == Uids(Company) \cup {NextUid}
<1>1. /\ after.journal = journal' /\ after.batches = batches' /\ after.chain = chain'
      /\ after.accountId = accountId'
  BY DEF Company
<1> HIDE DEF after
<1>2. NextUid \in Nat /\ drawn \subseteq 0 .. MaxUid /\ \A b \in backups : NextUid \notin ToSet(b.chain)
  BY DrawnStep
<1>3. chain \in Seq(Nat)
  BY SoundNow
<1>4. /\ chain' \in Seq(Nat)
      /\ ToSet(chain) \subseteq ToSet(chain') /\ ToSet(chain') \subseteq ToSet(chain) \cup {NextUid}
      /\ chain' = Append(chain, NextUid) => NextUid \in ToSet(chain')
  <2>1. /\ Append(chain, NextUid) \in Seq(Nat)
        /\ ToSet(Append(chain, NextUid)) = ToSet(chain) \cup {NextUid}
    BY <1>2, <1>3, AppendEvents
  <2> QED  BY <1>3, <2>1
<1>5. Shaped(after)
  BY <1>1, <1>4 DEF Shaped, JournalShaped
<1>6. LinesKept(after)
  BY <1>1 DEF LinesKept
<1>7. UidsDrawn(after)
  <2> HIDE DEF drawn
  <2>1. ToSet(chain) \subseteq drawn /\ NextUid \in drawn
    <3>1. ToSet(Company.chain) \subseteq Uids(Company)
      BY EventsAreUids
    <3> QED  BY <3>1, CompanyFields DEF drawn
  <2>2. \A code \in Codes : accountId[code] \in drawn
    BY UidsOf, CompanyFields DEF drawn
  <2>3. \A j \in JournalIds : \A batch \in batches[j] : batch.uid \in drawn
    BY UidsOf, CompanyFields DEF drawn
  <2>4. ToSet(after.chain) \subseteq drawn
    BY <1>1, <1>4, <2>1
  <2>5. \A code \in Codes : after.accountId[code] \in drawn
    BY <1>1, <2>1, <2>2
  <2>6. \A j \in JournalIds : \A batch \in after.batches[j] : batch.uid \in drawn
    BY <1>1, <2>1, <2>3
  <2>7. Uids(after) \subseteq drawn
    BY <2>4, <2>5, <2>6, UidsWithin
  <2> QED  BY <1>2, <2>7 DEF UidsDrawn
<1>8. SettledAmong(backups \cup {after})
  <2>1. SettledAmong(backups \cup {Company})
    BY DEF HistoryInv, All
  <2>2. \A j \in JournalIds : IsPosted(Company, j) => SameLines(Company, after, j)
    BY <1>1, CompanyFields DEF IsPosted, SameLines, Posted
  <2>3. \A e \in ToSet(after.chain) : e = NextUid \/ e \in ToSet(Company.chain)
    BY <1>1, <1>4, CompanyFields
  <2>4. \A j \in JournalIds :
          IsPosted(after, j) =>
            \/ NextUid \in ToSet(after.chain)
            \/ IsPosted(Company, j) /\ ToSet(Company.chain) \subseteq ToSet(after.chain)
    BY <1>1, <1>4, CompanyFields DEF IsPosted, Posted
  <2>5. GoesOn(after, {Company}, NextUid, backups)
    BY <2>2, <2>3, <2>4, <1>2 DEF GoesOn
  <2> QED  BY <2>1, <2>5, SettledGoesOn
<1> QED
  BY <1>5, <1>6, <1>7, <1>8, CompanyStep DEF Sound, after

LEMMA CommandStep ==
  ASSUME HistoryInv, NextUid <= MaxUid, CommandRows
  PROVE  HistoryInv'
<1>1. CommandKeeps
  BY CommandEffect, SoundNow DEF CommandRows
<1>2. batches' = [j \in JournalIds |->
        IF ~Present(journal'[j]) THEN {}
        ELSE IF journal'[j].lines = journal[j].lines THEN batches[j]
        ELSE {[uid |-> NextUid, lines |-> journal'[j].lines]}]
  BY DEF CommandRows
<1>3. ASSUME NEW j \in JournalIds
      PROVE  /\ journal'[j].lines = LinesOf(batches'[j])
             /\ ~Present(journal'[j]) => batches'[j] = {}
             /\ \A batch \in batches'[j] : batch \in batches[j] \/ batch.uid = NextUid
             /\ Posted(j) => journal'[j].status = "posted" /\ batches'[j] = batches[j]
             /\ journal'[j].status = "posted" => Posted(j) \/ chain' = Append(chain, NextUid)
  <2>1. RowKept(j) /\ journal[j].lines = LinesOf(batches[j])
        /\ (~Present(journal[j]) => batches[j] = {})
    BY <1>1, SoundNow DEF CommandKeeps
  <2>5. journal'[j].status = "posted" => Posted(j) \/ chain' = Append(chain, NextUid)
    BY <2>1 DEF RowKept, Posted, CommandRows
  <2>2. CASE ~Present(journal'[j])
    <3>1. batches'[j] = {}
      BY <1>2, <2>2
    <3>2. journal'[j].lines = <<>>
      BY <2>1, <2>2, LinesOfNone DEF RowKept
    <3> QED  BY <2>1, <2>2, <3>1, <3>2, LinesOfNone DEF Present, RowKept
  <2>3. CASE Present(journal'[j]) /\ journal'[j].lines = journal[j].lines
    <3>1. batches'[j] = batches[j]
      BY <1>2, <2>3
    <3> QED  BY <2>1, <2>3, <2>5, <3>1 DEF RowKept
  <2>4. CASE Present(journal'[j]) /\ journal'[j].lines # journal[j].lines
    <3>1. batches'[j] = {[uid |-> NextUid, lines |-> journal'[j].lines]}
      BY <1>2, <2>4
    <3>2. LinesOf({[uid |-> NextUid, lines |-> journal'[j].lines]}) = journal'[j].lines
      BY LinesOfOne
    <3>3. \A batch \in batches'[j] : batch.uid = NextUid
      BY <3>1
    <3>4. ~Posted(j)
      BY <2>1, <2>4 DEF RowKept
    <3> QED  BY <2>4, <2>5, <3>1, <3>2, <3>3, <3>4
  <2> QED  BY <2>2, <2>3, <2>4
<1>4. batches' = [j \in JournalIds |-> batches'[j]]
  BY <1>2
<1>5. JournalShaped' /\ chain' \in {chain, Append(chain, NextUid)} /\ backups' = backups
  BY <1>1 DEF CommandKeeps, CommandRows
<1>6. \A code \in Codes : accountId'[code] \in {accountId[code], NextUid}
  BY DEF CommandRows
<1> QED
  BY <1>3, <1>4, <1>5, <1>6, CompanyGoesOn

LEMMA EditStep ==
  ASSUME HistoryInv, NextUid <= MaxUid, EditDraftRows
  PROVE  HistoryInv'
<1>1. PICK j \in JournalIds, p \in PeriodIds, d \in Dates, lines \in LineLists, post \in BOOLEAN :
        /\ UpdateDraftJournal(j, p, d, lines, post)
        /\ batches' = [batches EXCEPT ![j] = {[uid |-> NextUid, lines |-> lines]}]
  BY DEF EditDraftRows
<1> DEFINE status == IF post THEN "posted" ELSE "draft"
           row == [journal[j] EXCEPT !.status = status, !.period = p, !.date = d, !.lines = lines]
<1>2. journal[j].status = "draft" /\ journal' = [journal EXCEPT ![j] = row]
  BY <1>1 DEF UpdateDraftJournal
<1>3. /\ JournalShaped /\ batches = [k \in JournalIds |-> batches[k]]
      /\ \A k \in JournalIds : /\ journal[k].lines = LinesOf(batches[k])
                               /\ ~Present(journal[k]) => batches[k] = {}
  BY SoundNow
<1>4. IsRow(row) /\ row.status \in {"draft", "posted"} /\ row.lines = lines
  <2>1. status \in {"draft", "posted"}
    OBVIOUS
  <2> HIDE DEF status
  <2>2. IsRow(journal[j])
    BY <1>3 DEF JournalShaped
  <2> DEFINE one == [journal[j] EXCEPT !.status = status]
             two == [one EXCEPT !.period = p]
             three == [two EXCEPT !.date = d]
  <2>3. IsRow(one) /\ one.status = status
    BY <2>1, <2>2 DEF IsRow
  <2> HIDE DEF one
  <2>4. IsRow(two) /\ two.status = status
    BY <2>3 DEF IsRow
  <2> HIDE DEF two
  <2>5. IsRow(three) /\ three.status = status
    BY <2>4 DEF IsRow
  <2> HIDE DEF three
  <2>6. IsRow([three EXCEPT !.lines = lines]) /\ [three EXCEPT !.lines = lines].status = status
        /\ [three EXCEPT !.lines = lines].lines = lines
    BY <2>5 DEF IsRow
  <2>7. row = [three EXCEPT !.lines = lines]
    BY DEF one, two, three
  <2> QED  BY <2>1, <2>6, <2>7
<1> HIDE DEF status, row
<1>5. journal' = [k \in JournalIds |-> IF k = j THEN row ELSE journal[k]]
  BY <1>2, <1>3 DEF JournalShaped
<1>6. batches' = [k \in JournalIds |-> IF k = j THEN {[uid |-> NextUid, lines |-> lines]} ELSE batches[k]]
  BY <1>1, <1>3
<1>7. JournalShaped'
  BY <1>3, <1>4, <1>5 DEF JournalShaped
<1>8. backups' = backups /\ chain' = Append(chain, NextUid) /\ accountId' = accountId
  BY DEF EditDraftRows
<1>9. ASSUME NEW k \in JournalIds
      PROVE  /\ journal'[k].lines = LinesOf(batches'[k])
             /\ ~Present(journal'[k]) => batches'[k] = {}
             /\ \A batch \in batches'[k] : batch \in batches[k] \/ batch.uid = NextUid
             /\ Posted(k) => journal'[k].status = "posted" /\ batches'[k] = batches[k]
  <2>1. CASE k = j
    <3>1. journal'[k] = row /\ batches'[k] = {[uid |-> NextUid, lines |-> lines]} /\ ~Posted(k)
      BY <2>1, <1>2, <1>5, <1>6 DEF Posted
    <3>2. LinesOf({[uid |-> NextUid, lines |-> lines]}) = lines
      BY LinesOfOne
    <3>3. Present(journal'[k])
      BY <3>1, <1>4 DEF Present
    <3> QED  BY <3>1, <3>2, <3>3, <1>4
  <2>2. CASE k # j
    BY <2>2, <1>3, <1>5, <1>6 DEF Posted
  <2> QED  BY <2>1, <2>2
<1>10. batches' = [k \in JournalIds |-> batches'[k]]
  BY <1>6
<1> QED
  BY <1>7, <1>8, <1>9, <1>10, CompanyGoesOn

-----------------------------------------------------------------------------
(* The restore.                                                            *)

LEMMA SameHeader ==
  ASSUME NEW row, NEW other, IsRow(row), IsRow(other), Header(row) = Header(other)
  PROVE  /\ row.status = other.status
         /\ \A lines : [row EXCEPT !.lines = lines] = [other EXCEPT !.lines = lines]
<1>1. Header(row).status = row.status /\ Header(other).status = other.status
  BY DEF Header, IsRow
<1>2. \A lines : [Header(row) EXCEPT !.lines = lines] = [row EXCEPT !.lines = lines]
  BY DEF Header, IsRow
<1>3. \A lines : [Header(other) EXCEPT !.lines = lines] = [other EXCEPT !.lines = lines]
  BY DEF Header, IsRow
<1> QED  BY <1>1, <1>2, <1>3

\* A row comes from the company or from the file; it is gone only if both have none.
LEMMA PutRow ==
  ASSUME NEW mode, NEW old, NEW new
  PROVE  LET put == Put(mode, old, new)
         IN  /\ put \in {old, new}
             /\ ~Present(put) => ~Present(old) /\ ~Present(new)
             /\ ~Present(new) /\ old.status = "posted" => put = old
             /\ ~Present(old) /\ Present(new) => put = new
BY DEF Put, Present

\* The events of one company and of one of its files: one log goes on from the other.
LEMMA OneHistory ==
  ASSUME HistoryInv, NEW b \in backups, SameHistory(b)
  PROVE  /\ b.chain \in Seq(Nat) /\ chain \in Seq(Nat)
         /\ ToSet(b.chain) \subseteq ToSet(chain) \/ ToSet(chain) \subseteq ToSet(b.chain)
<1>1. b.chain \in Seq(Nat) /\ chain \in Seq(Nat)
  BY SoundNow DEF HistoryInv, All, Sound, Shaped
<1> QED
  BY <1>1, PrefixEvents DEF SameHistory

\* What a restore makes of one journal.
RowRestored(b, j) ==
  /\ IsRow(journal'[j]) /\ journal'[j].lines = LinesOf(batches'[j])
  /\ ~Present(journal'[j]) => batches'[j] = {}
  /\ batches'[j] = batches[j] \cup b.batches[j]
  /\ Posted(j) => journal'[j] = journal[j] /\ batches'[j] = batches[j]
  /\ IsPosted(b, j) => journal'[j].status = "posted" /\ batches'[j] = b.batches[j]

LEMMA RestoreRow ==
  ASSUME HistoryInv, NEW b \in backups, NEW mode, Restore(b, mode), NEW j \in JournalIds
  PROVE  RowRestored(b, j)
<1> DEFINE old == journal[j]
           new == b.journal[j]
           put == Put(mode, old, new)
           rows == batches[j] \cup b.batches[j]
<1>1. SameHistory(b) /\ SamePosted(b, j)
  BY DEF Restore
<1>2. batches'[j] = rows /\ journal'[j] = [put EXCEPT !.lines = LinesOf(rows)]
  BY DEF Restore, Restored, PutBatches
<1>3. /\ IsRow(old) /\ old.lines = LinesOf(batches[j])
      /\ ~Present(old) => batches[j] = {}
  BY SoundNow DEF JournalShaped
<1>4. IsRow(new) /\ (~Present(new) => b.batches[j] = {})
  BY DEF HistoryInv, All, Sound, Shaped, LinesKept
<1>5. put \in {old, new} /\ IsRow(put)
  BY <1>3, <1>4, PutRow
<1>6. ASSUME Posted(j), IsPosted(b, j) PROVE batches[j] = b.batches[j]
  <2>1. IsPosted(Company, j)
    BY <1>6, CompanyFields DEF IsPosted, Posted
  <2>2. SettledAmong(All) /\ Company \in All /\ b \in All
    BY DEF HistoryInv, All
  <2>3. ToSet(b.chain) \subseteq ToSet(Company.chain) \/ ToSet(Company.chain) \subseteq ToSet(b.chain)
    BY <1>1, OneHistory, CompanyFields
  <2>4. Company.batches[j] = b.batches[j]
    BY <1>6, <2>1, <2>2, <2>3, SettledAgree
  <2> QED  BY <2>4, CompanyFields
<1>7. ASSUME Posted(j) \/ IsPosted(b, j), Present(old), Present(new)
      PROVE  /\ Posted(j) /\ IsPosted(b, j)
             /\ \A lines : [old EXCEPT !.lines = lines] = [new EXCEPT !.lines = lines]
  <2>1. Live(j)
    BY <1>3, <1>7 DEF Live, Present, IsRow
  <2>2. Header(old) = Header(new)
    BY <1>1, <1>7, <2>1 DEF SamePosted, IsPosted
  <2>3. old.status = new.status /\ \A lines : [old EXCEPT !.lines = lines] = [new EXCEPT !.lines = lines]
    BY <1>3, <1>4, <2>2, SameHeader
  <2> QED  BY <1>7, <2>3 DEF Posted, IsPosted
<1>8. IsRow(journal'[j]) /\ journal'[j].lines = LinesOf(batches'[j]) /\ journal'[j].status = put.status
  BY <1>2, <1>5 DEF IsRow
<1>9. ASSUME ~Present(journal'[j]) PROVE batches'[j] = {}
  <2>1. ~Present(put)
    BY <1>8, <1>9 DEF Present
  <2>2. ~Present(old) /\ ~Present(new)
    BY <2>1, PutRow
  <2> QED  BY <2>2, <1>2, <1>3, <1>4
<1>10. ASSUME Posted(j) PROVE journal'[j] = journal[j] /\ batches'[j] = batches[j]
  <2>1. [old EXCEPT !.lines = LinesOf(batches[j])] = old
    BY <1>3 DEF IsRow
  <2>2. CASE Present(new)
    <3>1. Present(old)
      BY <1>10 DEF Posted, Present
    <3>2. rows = batches[j]
      BY <1>6, <1>7, <1>10, <2>2, <3>1
    <3>3. [put EXCEPT !.lines = LinesOf(rows)] = [old EXCEPT !.lines = LinesOf(rows)]
      BY <1>5, <1>7, <1>10, <2>2, <3>1
    <3> QED  BY <1>2, <2>1, <3>2, <3>3
  <2>3. CASE ~Present(new)
    <3>1. rows = batches[j] /\ put = old
      BY <1>4, <1>10, <2>3, PutRow DEF Posted
    <3> QED  BY <1>2, <2>1, <3>1
  <2> QED  BY <2>2, <2>3
<1>11. ASSUME IsPosted(b, j) PROVE journal'[j].status = "posted" /\ batches'[j] = b.batches[j]
  <2>1. Present(new)
    BY <1>11 DEF IsPosted, Present
  <2>2. CASE Present(old)
    <3>1. Posted(j)
      BY <1>7, <1>11, <2>1, <2>2
    <3> QED  BY <1>6, <1>10, <1>11, <3>1 DEF Posted
  <2>3. CASE ~Present(old)
    <3>1. rows = b.batches[j] /\ put = new
      BY <1>3, <2>1, <2>3, PutRow
    <3> QED  BY <1>2, <1>8, <1>11, <3>1 DEF IsPosted
  <2> QED  BY <2>2, <2>3
<1> QED
  BY <1>2, <1>8, <1>9, <1>10, <1>11 DEF RowRestored

LEMMA RestoreStep ==
  ASSUME HistoryInv, NextUid <= MaxUid, NEW b \in backups, NEW mode, Restore(b, mode)
  PROVE  HistoryInv' /\ IsPrefix(chain, chain')
<1> DEFINE after == Company'
           drawn == 0 .. MaxUid
           longer == IF Len(b.chain) > Len(chain) THEN b.chain ELSE chain
<1>1. /\ after.journal = journal' /\ after.batches = batches' /\ after.chain = chain'
      /\ after.accountId = accountId'
  BY DEF Company
<1>2. /\ chain' = Append(longer, NextUid) /\ backups' = backups /\ SameHistory(b)
      /\ accountId' = [code \in Codes |->
           IF accountId[code] = 0 THEN b.accountId[code] ELSE accountId[code]]
      /\ journal' = [j \in JournalIds |-> journal'[j]]
      /\ batches' = [j \in JournalIds |-> batches'[j]]
  BY DEF Restore, Restored
<1> HIDE DEF after
<1>3. \A j \in JournalIds : RowRestored(b, j)
  BY RestoreRow
<1>4. /\ NextUid \in Nat /\ NextUid \in drawn
      /\ Uids(Company) \subseteq drawn /\ Uids(b) \subseteq drawn
      /\ \A d \in backups : NextUid \notin ToSet(d.chain)
  BY DrawnStep
<1> HIDE DEF drawn
<1>5. /\ b.chain \in Seq(Nat) /\ chain \in Seq(Nat)
      /\ longer \in Seq(Nat) /\ IsPrefix(chain, longer) /\ longer \in {chain, b.chain}
  <2>1. b.chain \in Seq(Nat) /\ chain \in Seq(Nat)
    BY <1>2, OneHistory
  <2>2. IsPrefix(b.chain, chain) \/ IsPrefix(chain, b.chain)
    BY <1>2 DEF SameHistory
  <2> QED  BY <2>1, <2>2, LongerLog
<1> HIDE DEF longer
<1>6. /\ chain' \in Seq(Nat) /\ IsPrefix(chain, chain')
      /\ ToSet(chain') = ToSet(longer) \cup {NextUid}
  BY <1>2, <1>4, <1>5, AppendEvents, PrefixOfAppended
<1>7. Shaped(after)
  BY <1>1, <1>2, <1>3, <1>6 DEF Shaped, RowRestored
<1>8. LinesKept(after)
  BY <1>1, <1>3 DEF LinesKept, RowRestored
<1>9. UidsDrawn(after)
  <2>1. ToSet(after.chain) \subseteq drawn
    <3>1. ToSet(Company.chain) \subseteq Uids(Company) /\ ToSet(b.chain) \subseteq Uids(b)
      BY EventsAreUids
    <3> QED  BY <3>1, <1>1, <1>4, <1>5, <1>6, CompanyFields
  <2>2. \A code \in Codes : accountId[code] \in drawn /\ b.accountId[code] \in drawn
    <3>1. \A code \in Codes : Company.accountId[code] \in drawn /\ b.accountId[code] \in drawn
      BY <1>4, UidsOf
    <3> QED  BY <3>1, CompanyFields
  <2>3. \A j \in JournalIds :
          /\ \A batch \in batches[j] : batch.uid \in drawn
          /\ \A batch \in b.batches[j] : batch.uid \in drawn
    <3>1. \A j \in JournalIds :
            /\ \A batch \in Company.batches[j] : batch.uid \in drawn
            /\ \A batch \in b.batches[j] : batch.uid \in drawn
      BY <1>4, UidsOf
    <3> QED  BY <3>1, CompanyFields
  <2>4. \A code \in Codes : after.accountId[code] \in drawn
    BY <1>1, <1>2, <2>2
  <2>5. \A j \in JournalIds : \A batch \in after.batches[j] : batch.uid \in drawn
    BY <1>1, <1>3, <2>3 DEF RowRestored
  <2>6. Uids(after) \subseteq drawn
    BY <2>1, <2>4, <2>5, UidsWithin
  <2> QED  BY <2>6 DEF UidsDrawn, drawn
<1>10. SettledAmong(backups \cup {after})
  <2>1. SettledAmong(backups \cup {Company})
    BY DEF HistoryInv, All
  <2>2. \A j \in JournalIds : IsPosted(Company, j) => SameLines(Company, after, j)
    BY <1>1, <1>3, CompanyFields DEF IsPosted, SameLines, Posted, RowRestored
  <2>3. \A j \in JournalIds : IsPosted(b, j) => SameLines(b, after, j)
    BY <1>1, <1>3 DEF IsPosted, SameLines, RowRestored
  <2>4. \A e \in ToSet(after.chain) : e = NextUid \/ e \in ToSet(Company.chain) \/ e \in ToSet(b.chain)
    BY <1>1, <1>5, <1>6, CompanyFields
  <2>5. NextUid \in ToSet(after.chain)
    BY <1>1, <1>6
  <2>6. GoesOn(after, {Company, b}, NextUid, backups)
    BY <2>2, <2>3, <2>4, <2>5, <1>4 DEF GoesOn
  <2>7. {Company, b} \in SUBSET (backups \cup {Company})
    OBVIOUS
  <2> QED  BY <2>1, <2>6, <2>7, SettledGoesOn
<1> QED
  BY <1>2, <1>6, <1>7, <1>8, <1>9, <1>10, CompanyStep DEF Sound, after

-----------------------------------------------------------------------------
(* Sources.                                                                *)

\* A row that is written keeps its source or names one that nobody uses.
SourceFree(j, row) ==
  row.status \in {"draft", "posted"} /\ row.source # NoSource =>
    \/ Live(j) /\ row.source = journal[j].source
    \/ ~SourceUsed(row.source)

\* One row is written; others keep source and status.
LEMMA OneSource ==
  ASSUME SourcePostedOnce, NEW j \in JournalIds, SourceFree(j, journal'[j]),
         \A k \in JournalIds \ {j} : /\ journal'[k].status = journal[k].status
                                     /\ journal'[k].source = journal[k].source
  PROVE  SourcePostedOnce'
<1> SUFFICES ASSUME NEW i \in JournalIds, NEW k \in JournalIds, i # k, Live(i)', Live(k)',
                    journal'[i].source # NoSource
             PROVE  journal'[i].source # journal'[k].source
  BY DEF SourcePostedOnce
<1>1. CASE i # j /\ k # j
  BY <1>1 DEF SourcePostedOnce, Live
<1>2. CASE i = j
  BY <1>2 DEF SourcePostedOnce, Live, SourceFree, SourceUsed
<1>3. CASE k = j
  BY <1>3 DEF SourcePostedOnce, Live, SourceFree, SourceUsed
<1> QED  BY <1>1, <1>2, <1>3

LEMMA WrittenSource ==
  ASSUME JournalShaped, SourcePostedOnce, NEW j \in JournalIds, NEW row,
         journal' = [journal EXCEPT ![j] = row], SourceFree(j, row)
  PROVE  SourcePostedOnce'
<1>1. journal' = [k \in JournalIds |-> IF k = j THEN row ELSE journal[k]]
  BY DEF JournalShaped
<1>2. journal'[j] = row /\ \A k \in JournalIds \ {j} : journal'[k] = journal[k]
  BY <1>1
<1>3. SourceFree(j, journal'[j])
  BY <1>2
<1> QED  BY <1>2, <1>3, OneSource

LEMMA NewSource ==
  ASSUME JournalShaped, SourcePostedOnce, NEW j \in JournalIds,
         NEW status, NEW p, NEW d, NEW lines, NEW src, NEW of,
         journal' = [journal EXCEPT ![j] = NewJournal(status, p, d, lines, src, of)],
         src # NoSource => ~SourceUsed(src)
  PROVE  SourcePostedOnce'
<1> DEFINE row == NewJournal(status, p, d, lines, src, of)
<1>1. row.source = src
  BY DEF NewJournal
<1> HIDE DEF row
<1>2. SourceFree(j, row)
  BY <1>1 DEF SourceFree
<1>3. journal' = [journal EXCEPT ![j] = row]
  BY DEF row
<1> QED  BY <1>2, <1>3, WrittenSource

LEMMA SameSources ==
  ASSUME SourcePostedOnce, journal' = journal
  PROVE  SourcePostedOnce'
BY DEF SourcePostedOnce, Live

LEMMA CommandSources ==
  ASSUME JournalShaped, SourcePostedOnce, OtherCommand
  PROVE  SourcePostedOnce'
<1>1. ASSUME NEW row \in AccountRows, AddAccount(row)
      PROVE  SourcePostedOnce'
  BY <1>1, SameSources DEF AddAccount
<1>2. CASE SeedDefaultChart
  BY <1>2, SameSources DEF SeedDefaultChart
<1>3. ASSUME NEW p \in PeriodIds, NEW start \in Dates, NEW end \in Dates, CreatePeriod(p, start, end)
      PROVE  SourcePostedOnce'
  BY <1>3, SameSources DEF CreatePeriod
<1>4. ASSUME NEW p \in PeriodIds, ClosePeriod(p)
      PROVE  SourcePostedOnce'
  BY <1>4, SameSources DEF ClosePeriod
<1>5. ASSUME NEW j \in JournalIds, NEW p, NEW d, NEW lines, NEW src, SaveDraftJournal(j, p, d, lines, src)
      PROVE  SourcePostedOnce'
  BY <1>5, NewSource DEF SaveDraftJournal
<1>6. ASSUME NEW j \in JournalIds, NEW p, NEW d, NEW lines, NEW src, PostJournal(j, p, d, lines, src)
      PROVE  SourcePostedOnce'
  BY <1>6, NewSource DEF PostJournal
<1>7. ASSUME NEW j \in JournalIds, NEW p, NEW d, NEW lines, NEW src, CommercialJournal(j, p, d, lines, src)
      PROVE  SourcePostedOnce'
  BY <1>7, NewSource DEF CommercialJournal
<1>8. ASSUME NEW j \in JournalIds, PostDraftJournal(j)
      PROVE  SourcePostedOnce'
  <2> DEFINE row == [journal[j] EXCEPT !.status = "posted"]
  <2>1. journal[j].status = "draft" /\ journal' = [journal EXCEPT ![j] = row]
    BY <1>8 DEF PostDraftJournal
  <2>2. row.source = journal[j].source
    BY DEF IsRow, JournalShaped
  <2>3. Live(j)
    BY <2>1 DEF Live
  <2> HIDE DEF row
  <2>4. SourceFree(j, row)
    BY <2>2, <2>3 DEF SourceFree
  <2> QED  BY <2>1, <2>4, WrittenSource
<1>9. ASSUME NEW j \in JournalIds, DiscardDraftJournal(j)
      PROVE  SourcePostedOnce'
  <2>1. journal' = [journal EXCEPT ![j] = NewJournal("discarded", None, 0, <<>>, NoSource, None)]
    BY <1>9 DEF DiscardDraftJournal, NoJournal
  <2> QED  BY <2>1, NewSource
<1>10. ASSUME NEW original \in JournalIds, NEW j \in JournalIds, NEW p, NEW d,
              ReverseJournal(original, j, p, d)
       PROVE  SourcePostedOnce'
  <2> DEFINE lines == ReversingLines(journal[original].lines)
             row == NewJournal("posted", p, d, lines, ReversalSource(original), original)
             marked == [journal[original] EXCEPT !.reversedBy = j]
  <2>1. /\ journal[j].status = "absent" /\ Posted(original) /\ ~SourceUsed(ReversalSource(original))
        /\ journal' = [journal EXCEPT ![j] = row, ![original].reversedBy = j]
    BY <1>10 DEF ReverseJournal
  <2>2. row.source = ReversalSource(original)
    BY DEF NewJournal
  <2>3. marked.status = journal[original].status /\ marked.source = journal[original].source
    BY DEF IsRow, JournalShaped
  <2>4. original # j
    BY <2>1 DEF Posted
  <2>5. journal' = [k \in JournalIds |-> IF k = original THEN marked ELSE IF k = j THEN row ELSE journal[k]]
    <3> HIDE DEF row
    <3> QED  BY <2>1, <2>4 DEF JournalShaped
  <2> HIDE DEF row, marked
  <2>6. SourceFree(j, journal'[j])
    BY <2>1, <2>2, <2>4, <2>5 DEF SourceFree
  <2>7. \A k \in JournalIds \ {j} : /\ journal'[k].status = journal[k].status
                                    /\ journal'[k].source = journal[k].source
    BY <2>3, <2>5
  <2> QED  BY <2>6, <2>7, OneSource
<1>11. ASSUME NEW s \in StocktakeIds, NEW w \in Warehouses, NEW d \in Dates, NewStocktake(s, w, d)
       PROVE  SourcePostedOnce'
  BY <1>11, SameSources DEF NewStocktake
<1>12. ASSUME NEW s \in StocktakeIds, FinalizeStocktake(s)
       PROVE  SourcePostedOnce'
  <2>1. CASE UNCHANGED <<journal, commands>>
    BY <2>1, SameSources
  <2>2. CASE ~UNCHANGED <<journal, commands>>
    <3>1. PICK p \in PeriodIds :
            \E j \in JournalIds, lines \in LineLists :
              CommercialJournal(j, p, stocktake[s].date, lines, StocktakeSource(s))
      BY <1>12, <2>2 DEF FinalizeStocktake
    <3> QED  BY <3>1, <1>7
  <2> QED  BY <2>1, <2>2
<1> QED
  BY <1>1, <1>2, <1>3, <1>4, <1>5, <1>6, <1>7, <1>8, <1>9, <1>10, <1>11, <1>12
  DEF OtherCommand, PostCommercial

LEMMA EditSources ==
  ASSUME JournalShaped, SourcePostedOnce, EditDraftRows
  PROVE  SourcePostedOnce'
<1>1. PICK j \in JournalIds, p \in PeriodIds, d \in Dates, lines \in LineLists, post \in BOOLEAN :
        UpdateDraftJournal(j, p, d, lines, post)
  BY DEF EditDraftRows
<1> DEFINE status == IF post THEN "posted" ELSE "draft"
           row == [journal[j] EXCEPT !.status = status, !.period = p, !.date = d, !.lines = lines]
<1>2. journal[j].status = "draft" /\ journal' = [journal EXCEPT ![j] = row]
  BY <1>1 DEF UpdateDraftJournal
<1>3. row.source = journal[j].source
  BY DEF IsRow, JournalShaped
<1>4. Live(j)
  BY <1>2 DEF Live
<1> HIDE DEF row
<1>5. SourceFree(j, row)
  BY <1>3, <1>4 DEF SourceFree
<1> QED  BY <1>2, <1>5, WrittenSource

\* The unique index on sourceKey speaks of the rows that are there.
LEMMA RestoreSources ==
  ASSUME HistoryInv, NEW b \in backups, NEW mode, Restore(b, mode)
  PROVE  SourcePostedOnce'
<1>1. journal' = Restored(b, mode).journal /\ SourcesUnique(Restored(b, mode).journal)
  BY DEF Restore
<1>2. SourcesUnique(journal')
  BY <1>1
<1>3. \A j \in JournalIds : Live(j)' => Present(journal'[j])
  BY DEF Live, Present
<1> QED
  BY <1>2, <1>3 DEF SourcesUnique, SourcePostedOnce

LEMMA SourceStep ==
  HistoryInv /\ SourcePostedOnce /\ [RecoveryNext]_recoveryVars => SourcePostedOnce'
<1> SUFFICES ASSUME HistoryInv, SourcePostedOnce, [RecoveryNext]_recoveryVars
             PROVE  SourcePostedOnce'
  OBVIOUS
<1>1. JournalShaped
  BY SoundNow
<1>2. CASE Command
  BY <1>1, <1>2, CommandSources, EditSources DEF Command, CommandRows
<1>3. CASE ExportBackup
  BY <1>3, SameSources DEF ExportBackup, vars
<1>4. CASE WipeAll
  <2>1. \A j \in JournalIds : journal'[j].status = "absent"
    BY <1>4 DEF WipeAll, NoJournal, NewJournal
  <2> QED  BY <2>1 DEF SourcePostedOnce, Live
<1>5. CASE Recover
  BY <1>5, RestoreSources DEF Recover
<1>6. CASE UNCHANGED recoveryVars
  BY <1>6, SameSources DEF recoveryVars, vars
<1> QED
  BY <1>2, <1>3, <1>4, <1>5, <1>6 DEF RecoveryNext

-----------------------------------------------------------------------------
(* A file restored twice.                                                  *)

LEMMA PutTwice ==
  ASSUME NEW mode, NEW old, NEW new
  PROVE  Put(mode, Put(mode, old, new), new) = Put(mode, old, new)
BY DEF Put, Present

LEMMA PutRowTwice ==
  ASSUME NEW mode, NEW old, NEW new, IsRow(old), IsRow(new), NEW lines
  PROVE  LET row == [Put(mode, old, new) EXCEPT !.lines = lines]
         IN  [Put(mode, row, new) EXCEPT !.lines = lines] = row
<1> DEFINE put == Put(mode, old, new)
           row == [put EXCEPT !.lines = lines]
<1>1. put \in {old, new} /\ IsRow(put)
  BY PutRow
<1>2. row.status = put.status /\ [row EXCEPT !.lines = lines] = row
  BY <1>1 DEF IsRow
<1>3. Put(mode, row, new) \in {row, new}
  BY DEF Put
<1>4. Put(mode, row, new) = new => put = new \/ row = new
  <2> HIDE DEF row
  <2> QED  BY <1>2, PutTwice DEF Put, Present
<1> QED
  BY <1>2, <1>3, <1>4

LEMMA NothingMissingAfter ==
  ASSUME HistoryInv, NEW b \in backups, NEW mode \in Modes, NextUid \in Nat, Restore(b, mode)
  PROVE  Restored(b, mode)' = Company'
<1>1. /\ chart' = chart \cup b.chart /\ commands' = commands \cup b.commands
      /\ accountId' = [code \in Codes |->
           IF accountId[code] = 0 THEN b.accountId[code] ELSE accountId[code]]
      /\ period' = [p \in PeriodIds |-> Put(mode, period[p], b.period[p])]
      /\ stocktake' = [s \in StocktakeIds |-> Put(mode, stocktake[s], b.stocktake[s])]
      /\ batches' = [j \in JournalIds |-> batches[j] \cup b.batches[j]]
      /\ journal' = [j \in JournalIds |->
           [Put(mode, journal[j], b.journal[j]) EXCEPT !.lines = LinesOf(batches[j] \cup b.batches[j])]]
      /\ chain' = Append(IF Len(b.chain) > Len(chain) THEN b.chain ELSE chain, NextUid)
      /\ SameHistory(b)
  BY DEF Restore, Restored, PutBatches
<1>2. chart' \cup b.chart = chart' /\ commands' \cup b.commands = commands'
  BY <1>1
<1>3. [code \in Codes |-> IF accountId'[code] = 0 THEN b.accountId[code] ELSE accountId'[code]] = accountId'
  BY <1>1
<1>4. [p \in PeriodIds |-> Put(mode, period'[p], b.period[p])] = period'
  BY <1>1, PutTwice
<1>5. [s \in StocktakeIds |-> Put(mode, stocktake'[s], b.stocktake[s])] = stocktake'
  BY <1>1, PutTwice
<1>6. \A j \in JournalIds : batches'[j] \cup b.batches[j] = batches'[j]
  BY <1>1
<1>7. [j \in JournalIds |-> batches'[j] \cup b.batches[j]] = batches'
  BY <1>1, <1>6
<1>8. ASSUME NEW j \in JournalIds
      PROVE  [Put(mode, journal'[j], b.journal[j]) EXCEPT !.lines = LinesOf(batches'[j] \cup b.batches[j])]
             = journal'[j]
  <2>1. IsRow(journal[j]) /\ IsRow(b.journal[j])
    BY SoundNow DEF JournalShaped, HistoryInv, All, Sound, Shaped
  <2> DEFINE lines == LinesOf(batches'[j])
             row == [Put(mode, journal[j], b.journal[j]) EXCEPT !.lines = lines]
  <2>2. journal'[j] = row
    BY <1>1
  <2>3. LinesOf(batches'[j] \cup b.batches[j]) = lines
    BY <1>6
  <2> HIDE DEF lines
  <2>4. [Put(mode, row, b.journal[j]) EXCEPT !.lines = lines] = row
    BY <2>1, PutRowTwice
  <2> QED  BY <2>2, <2>3, <2>4
<1>9. [j \in JournalIds |->
        [Put(mode, journal'[j], b.journal[j]) EXCEPT !.lines = LinesOf(batches'[j] \cup b.batches[j])]]
      = journal'
  <2>1. journal' = [j \in JournalIds |-> journal'[j]]
    BY <1>1
  <2> QED  BY <1>8, <2>1
<1>10. ~(Len(b.chain) > Len(chain'))
  <2> DEFINE longer == IF Len(b.chain) > Len(chain) THEN b.chain ELSE chain
  <2>1. b.chain \in Seq(Nat) /\ chain \in Seq(Nat)
    BY <1>1, OneHistory
  <2>2. longer \in Seq(Nat) /\ Len(b.chain) <= Len(longer) /\ chain' = Append(longer, NextUid)
    BY <1>1, <2>1
  <2> HIDE DEF longer
  <2>3. Len(chain') = Len(longer) + 1 /\ Len(longer) \in Nat /\ Len(b.chain) \in Nat
    BY <2>1, <2>2
  <2> QED  BY <2>2, <2>3
<1> QED
  BY <1>2, <1>3, <1>4, <1>5, <1>7, <1>9, <1>10 DEF Restored, PutBatches, Company

LEMMA StepMissesNothing ==
  ASSUME HistoryInv
  PROVE  NothingMissing
<1>1. NextUid \in Nat
  BY AnyUid, RecoveryAssumption
<1> QED
  BY <1>1, NothingMissingAfter DEF NothingMissing

-----------------------------------------------------------------------------
(* What an emptied company is given back.                                  *)

IsPeriod(row) ==
  /\ row = [status |-> row.status, start |-> row.start, end |-> row.end]
  /\ row.status # "discarded"

IsStocktake(row) ==
  /\ row = [status |-> row.status, warehouse |-> row.warehouse, date |-> row.date]
  /\ row.status # "discarded"

\* The stores beside the journals, that an account with a uid is in the chart,
\* and that without events nothing was ever audited or discarded.
Complete(c) ==
  /\ c = [chart |-> c.chart, accountId |-> c.accountId, period |-> c.period,
          journal |-> c.journal, batches |-> c.batches, stocktake |-> c.stocktake,
          commands |-> c.commands, chain |-> c.chain]
  /\ c.accountId = [code \in Codes |-> c.accountId[code]]
  /\ c.period = [p \in PeriodIds |-> c.period[p]]
  /\ c.stocktake = [s \in StocktakeIds |-> c.stocktake[s]]
  /\ \A p \in PeriodIds : IsPeriod(c.period[p])
  /\ \A s \in StocktakeIds : IsStocktake(c.stocktake[s])
  /\ \A code \in Codes : c.accountId[code] # 0 => \E a \in c.chart : a.code = code
  /\ c.chain = <<>> =>
       c.commands = {} /\ \A j \in JournalIds : c.journal[j].status # "discarded"

CompleteInv == \A c \in All : Complete(c)

\* Complete(Company), said of the stores.
CompanyComplete ==
  /\ accountId = [code \in Codes |-> accountId[code]]
  /\ period = [p \in PeriodIds |-> period[p]]
  /\ stocktake = [s \in StocktakeIds |-> stocktake[s]]
  /\ \A p \in PeriodIds : IsPeriod(period[p])
  /\ \A s \in StocktakeIds : IsStocktake(stocktake[s])
  /\ \A code \in Codes : accountId[code] # 0 => HasCode(code)
  /\ chain = <<>> =>
       commands = {} /\ \A j \in JournalIds : journal[j].status # "discarded"

LEMMA CompleteNow == Complete(Company) <=> CompanyComplete
<1> DEFINE c == Company
<1>1. /\ c.chart = chart /\ c.accountId = accountId /\ c.period = period
      /\ c.journal = journal /\ c.batches = batches /\ c.stocktake = stocktake
      /\ c.commands = commands /\ c.chain = chain
  BY DEF Company
<1>2. c = [chart |-> c.chart, accountId |-> c.accountId, period |-> c.period,
           journal |-> c.journal, batches |-> c.batches, stocktake |-> c.stocktake,
           commands |-> c.commands, chain |-> c.chain]
  BY DEF Company
<1> HIDE DEF c
<1>3. Complete(c) <=> CompanyComplete
  BY <1>1, <1>2 DEF Complete, CompanyComplete, HasCode
<1> QED  BY <1>3 DEF c

LEMMA CompleteStep ==
  ASSUME CompleteInv, backups' = backups, CompanyComplete'
  PROVE  CompleteInv'
<1>1. Complete(Company)'
  BY CompleteNow, PTL
<1>2. All' = backups \cup {Company'}
  BY DEF All
<1> QED  BY <1>1, <1>2 DEF CompleteInv, All

\* What a command of the ledger does to the other stores.
StoresKept ==
  /\ chart \subseteq chart'
  /\ period' = [p \in PeriodIds |-> period'[p]]
  /\ stocktake' = [s \in StocktakeIds |-> stocktake'[s]]
  /\ \A p \in PeriodIds : IsPeriod(period'[p])
  /\ \A s \in StocktakeIds : IsStocktake(stocktake'[s])

LEMMA SameStores ==
  ASSUME CompanyComplete, chart' = chart, period' = period, stocktake' = stocktake
  PROVE  StoresKept
BY DEF CompanyComplete, StoresKept

LEMMA StoresEffect ==
  ASSUME CompanyComplete, OtherCommand
  PROVE  StoresKept
<1> USE DEF StoresKept
<1>1. ASSUME NEW row \in AccountRows, AddAccount(row) PROVE StoresKept
  BY <1>1 DEF AddAccount, CompanyComplete
<1>2. CASE SeedDefaultChart
  BY <1>2 DEF SeedDefaultChart, CompanyComplete
<1>3. ASSUME NEW p \in PeriodIds, NEW start \in Dates, NEW end \in Dates, CreatePeriod(p, start, end)
      PROVE  StoresKept
  <2> DEFINE row == [status |-> "open", start |-> start, end |-> end]
  <2>1. period' = [period EXCEPT ![p] = row] /\ chart' = chart /\ stocktake' = stocktake
    BY <1>3 DEF CreatePeriod
  <2>2. IsPeriod(row)
    BY DEF IsPeriod
  <2> HIDE DEF row
  <2>3. period' = [q \in PeriodIds |-> IF q = p THEN row ELSE period[q]]
    BY <2>1 DEF CompanyComplete
  <2> QED  BY <2>1, <2>2, <2>3 DEF CompanyComplete
<1>4. ASSUME NEW p \in PeriodIds, ClosePeriod(p) PROVE StoresKept
  <2> DEFINE row == [period[p] EXCEPT !.status = "closed"]
  <2>1. period' = [period EXCEPT ![p] = row] /\ chart' = chart /\ stocktake' = stocktake
    BY <1>4 DEF ClosePeriod
  <2>2. IsPeriod(row)
    BY DEF IsPeriod, CompanyComplete
  <2> HIDE DEF row
  <2>3. period' = [q \in PeriodIds |-> IF q = p THEN row ELSE period[q]]
    BY <2>1 DEF CompanyComplete
  <2> QED  BY <2>1, <2>2, <2>3 DEF CompanyComplete
<1>5. ASSUME NEW j \in JournalIds, NEW p \in PeriodIds, NEW d \in Dates, NEW lines \in LineLists, NEW src,
             \/ SaveDraftJournal(j, p, d, lines, src)
             \/ PostJournal(j, p, d, lines, src)
             \/ PostCommercial(j, p, d, lines, src)
      PROVE  StoresKept
  BY <1>5, SameStores DEF SaveDraftJournal, PostJournal, PostCommercial
<1>6. ASSUME NEW j \in JournalIds, PostDraftJournal(j) \/ DiscardDraftJournal(j) PROVE StoresKept
  BY <1>6, SameStores DEF PostDraftJournal, DiscardDraftJournal
<1>7. ASSUME NEW original \in JournalIds, NEW j \in JournalIds, NEW p, NEW d,
             ReverseJournal(original, j, p, d)
      PROVE  StoresKept
  BY <1>7, SameStores DEF ReverseJournal
<1>8. ASSUME NEW s \in StocktakeIds, NEW w \in Warehouses, NEW d \in Dates, NewStocktake(s, w, d)
      PROVE  StoresKept
  <2> DEFINE row == [status |-> "draft", warehouse |-> w, date |-> d]
  <2>1. stocktake' = [stocktake EXCEPT ![s] = row] /\ chart' = chart /\ period' = period
    BY <1>8 DEF NewStocktake
  <2>2. IsStocktake(row)
    BY DEF IsStocktake
  <2> HIDE DEF row
  <2>3. stocktake' = [t \in StocktakeIds |-> IF t = s THEN row ELSE stocktake[t]]
    BY <2>1 DEF CompanyComplete
  <2> QED  BY <2>1, <2>2, <2>3 DEF CompanyComplete
<1>9. ASSUME NEW s \in StocktakeIds, FinalizeStocktake(s) PROVE StoresKept
  <2> DEFINE row == [stocktake[s] EXCEPT !.status = "posted"]
  <2>1. stocktake' = [stocktake EXCEPT ![s] = row] /\ chart' = chart /\ period' = period
    BY <1>9 DEF FinalizeStocktake
  <2>2. IsStocktake(row)
    BY DEF IsStocktake, CompanyComplete
  <2> HIDE DEF row
  <2>3. stocktake' = [t \in StocktakeIds |-> IF t = s THEN row ELSE stocktake[t]]
    BY <2>1 DEF CompanyComplete
  <2> QED  BY <2>1, <2>2, <2>3 DEF CompanyComplete
<1> HIDE DEF StoresKept
<1> QED
  BY <1>1, <1>2, <1>3, <1>4, <1>5, <1>6, <1>7, <1>8, <1>9 DEF OtherCommand

\* Something is in the log once an event was appended.
LEMMA Logged ==
  ASSUME HistoryInv, NEW s \in Seq(Nat)
  PROVE  Append(s, NextUid) # <<>>
<1>1. NextUid \in Nat
  BY AnyUid, RecoveryAssumption
<1>2. Len(Append(s, NextUid)) = Len(s) + 1 /\ Len(s) \in Nat
  BY <1>1
<1>3. Len(<<>>) = 0
  OBVIOUS
<1> QED  BY <1>2, <1>3

LEMMA CompleteCommand ==
  ASSUME HistoryInv, CompleteInv, CommandRows
  PROVE  CompleteInv'
<1>1. CompanyComplete /\ chain \in Seq(Nat) /\ JournalShaped
  BY CompleteNow, SoundNow DEF CompleteInv, All
<1>2. OtherCommand /\ backups' = backups
      /\ accountId' = [code \in Codes |-> IF HasCode(code)' /\ ~HasCode(code)
                                          THEN NextUid ELSE accountId[code]]
      /\ chain' = IF commands' = commands THEN chain ELSE Append(chain, NextUid)
  BY DEF CommandRows
<1>3. StoresKept
  BY <1>1, <1>2, StoresEffect
<1>4. \A code \in Codes : accountId'[code] # 0 => HasCode(code)'
  BY <1>1, <1>2, <1>3 DEF CompanyComplete, StoresKept, HasCode
<1>5. ASSUME chain' = <<>>
      PROVE  commands' = {} /\ \A j \in JournalIds : journal'[j].status # "discarded"
  <2>1. commands' = commands /\ chain = <<>>
    BY <1>1, <1>2, <1>5, Logged
  <2>2. \A j \in JournalIds : journal'[j].status = journal[j].status
    BY <1>1, <1>2, <2>1, CommandEffect DEF CommandKeeps, RowKept
  <2> QED  BY <1>1, <2>1, <2>2 DEF CompanyComplete
<1>6. accountId' = [code \in Codes |-> accountId'[code]]
  BY <1>2
<1>7. CompanyComplete'
  BY <1>3, <1>4, <1>5, <1>6 DEF CompanyComplete, StoresKept
<1> QED  BY <1>2, <1>7, CompleteStep

LEMMA CompleteEdit ==
  ASSUME HistoryInv, CompleteInv, EditDraftRows
  PROVE  CompleteInv'
<1>1. CompanyComplete /\ chain \in Seq(Nat)
  BY CompleteNow, SoundNow DEF CompleteInv, All
<1>2. /\ chart' = chart /\ period' = period /\ stocktake' = stocktake
      /\ accountId' = accountId /\ chain' = Append(chain, NextUid) /\ backups' = backups
  BY DEF EditDraftRows, UpdateDraftJournal
<1>3. CompanyComplete'
  BY <1>1, <1>2, Logged DEF CompanyComplete, HasCode
<1> QED  BY <1>2, <1>3, CompleteStep

LEMMA CompleteWipe ==
  ASSUME CompleteInv, WipeAll
  PROVE  CompleteInv'
<1>1. /\ IsPeriod(NoPeriod) /\ IsStocktake(NoStocktake) /\ NoJournal("absent").status = "absent"
  BY DEF NoPeriod, NoStocktake, NoJournal, NewJournal, IsPeriod, IsStocktake
<1>2. CompanyComplete'
  BY <1>1 DEF CompanyComplete, WipeAll
<1> QED  BY <1>2, CompleteStep DEF WipeAll

LEMMA CompleteRestore ==
  ASSUME HistoryInv, CompleteInv, NEW b \in backups, NEW mode, Restore(b, mode)
  PROVE  CompleteInv'
<1>1. CompanyComplete /\ Complete(b)
  BY CompleteNow DEF CompleteInv, All
<1>2. /\ chart' = chart \cup b.chart
      /\ accountId' = [code \in Codes |->
           IF accountId[code] = 0 THEN b.accountId[code] ELSE accountId[code]]
      /\ period' = [p \in PeriodIds |-> Put(mode, period[p], b.period[p])]
      /\ stocktake' = [s \in StocktakeIds |-> Put(mode, stocktake[s], b.stocktake[s])]
      /\ chain' = Append(IF Len(b.chain) > Len(chain) THEN b.chain ELSE chain, NextUid)
      /\ SameHistory(b) /\ backups' = backups
  BY DEF Restore, Restored
<1>3. /\ \A p \in PeriodIds : IsPeriod(period'[p])
      /\ \A s \in StocktakeIds : IsStocktake(stocktake'[s])
  <2>1. /\ \A p \in PeriodIds : period'[p] \in {period[p], b.period[p]}
        /\ \A s \in StocktakeIds : stocktake'[s] \in {stocktake[s], b.stocktake[s]}
    BY <1>2 DEF Put
  <2>2. /\ \A p \in PeriodIds : IsPeriod(period[p]) /\ IsPeriod(b.period[p])
        /\ \A s \in StocktakeIds : IsStocktake(stocktake[s]) /\ IsStocktake(b.stocktake[s])
    BY <1>1 DEF Complete, CompanyComplete
  <2> QED  BY <2>1, <2>2
<1>4. \A code \in Codes : accountId'[code] # 0 => HasCode(code)'
  BY <1>1, <1>2 DEF Complete, CompanyComplete, HasCode
<1>5. chain' # <<>>
  <2>1. b.chain \in Seq(Nat) /\ chain \in Seq(Nat)
    BY <1>2, OneHistory
  <2> QED  BY <1>2, <2>1, Logged
<1>6. CompanyComplete'
  BY <1>2, <1>3, <1>4, <1>5 DEF CompanyComplete
<1> QED  BY <1>2, <1>6, CompleteStep

LEMMA CompleteNext ==
  HistoryInv /\ CompleteInv /\ [RecoveryNext]_recoveryVars => CompleteInv'
<1> SUFFICES ASSUME HistoryInv, CompleteInv, [RecoveryNext]_recoveryVars PROVE CompleteInv'
  OBVIOUS
<1>1. CASE Command
  BY <1>1, CompleteCommand, CompleteEdit DEF Command
<1>2. CASE ExportBackup
  <2>1. Company' = Company /\ backups' = backups \cup {Company}
    BY <1>2 DEF ExportBackup, Company, vars, side
  <2> QED  BY <2>1 DEF CompleteInv, All
<1>3. CASE WipeAll
  BY <1>3, CompleteWipe
<1>4. CASE Recover
  BY <1>4, CompleteRestore DEF Recover
<1>5. CASE UNCHANGED recoveryVars
  BY <1>5 DEF recoveryVars, vars, side, CompleteInv, All, Company
<1> QED
  BY <1>1, <1>2, <1>3, <1>4, <1>5 DEF RecoveryNext

LEMMA CompleteInit == InitRecovery => CompleteInv
<1> SUFFICES ASSUME InitRecovery PROVE CompleteInv
  OBVIOUS
<1>1. /\ IsPeriod(NoPeriod) /\ IsStocktake(NoStocktake) /\ NoJournal("absent").status = "absent"
  BY DEF NoPeriod, NoStocktake, NoJournal, NewJournal, IsPeriod, IsStocktake
<1>2. CompanyComplete
  BY <1>1 DEF CompanyComplete, InitRecovery, Init
<1>3. Complete(Company) /\ All = {Company}
  BY <1>2, CompleteNow DEF InitRecovery, All
<1> QED  BY <1>3 DEF CompleteInv

\* A row of the file that meets no row of the company is put as it is.
LEMMA PutBack ==
  ASSUME NEW mode, NEW old, NEW new, old.status = "absent"
  PROVE  Put(mode, old, new) = new
BY DEF Put, Present

LEMMA RestoredIsGivenBack ==
  ASSUME HistoryInv, CompleteInv, Emptied, NEW b \in backups, NEW mode, Restore(b, mode)
  PROVE  Company' = [b EXCEPT !.chain = Append(b.chain, NextUid)]
<1>1. CompanyComplete /\ Complete(b) /\ Sound(b)
  BY CompleteNow DEF CompleteInv, HistoryInv, All
<1>2. /\ chart' = chart \cup b.chart /\ commands' = commands \cup b.commands
      /\ accountId' = [code \in Codes |->
           IF accountId[code] = 0 THEN b.accountId[code] ELSE accountId[code]]
      /\ period' = [p \in PeriodIds |-> Put(mode, period[p], b.period[p])]
      /\ stocktake' = [s \in StocktakeIds |-> Put(mode, stocktake[s], b.stocktake[s])]
      /\ batches' = [j \in JournalIds |-> batches[j] \cup b.batches[j]]
      /\ journal' = [j \in JournalIds |->
           [Put(mode, journal[j], b.journal[j]) EXCEPT !.lines = LinesOf(batches[j] \cup b.batches[j])]]
      /\ chain' = Append(IF Len(b.chain) > Len(chain) THEN b.chain ELSE chain, NextUid)
      /\ SameHistory(b)
  BY DEF Restore, Restored, PutBatches
<1>3. /\ chart = {} /\ chain = <<>> /\ commands = {}
      /\ \A j \in JournalIds : journal[j].status = "absent" /\ batches[j] = {}
  <2>1. chart = {} /\ chain = <<>>
    BY DEF Emptied
  <2>2. ASSUME NEW j \in JournalIds PROVE journal[j].status = "absent" /\ batches[j] = {}
    <3>1. journal[j].status = "absent"
      BY <1>1, <2>1, SoundNow DEF Emptied, Live, CompanyComplete, JournalShaped, IsRow
    <3> QED  BY <3>1, SoundNow DEF Present
  <2> QED  BY <1>1, <2>1, <2>2 DEF CompanyComplete
<1>4. accountId' = b.accountId
  <2>1. \A code \in Codes : accountId[code] = 0
    BY <1>1, <1>3 DEF CompanyComplete, HasCode
  <2>2. b.accountId = [code \in Codes |-> b.accountId[code]]
    BY <1>1 DEF Complete
  <2> QED  BY <1>2, <2>1, <2>2
<1>5. period' = b.period
  <2>1. \A p \in PeriodIds : period[p].status = "absent"
    <3>1. \A p \in PeriodIds : period[p].status # "discarded"
      BY <1>1 DEF CompanyComplete, IsPeriod
    <3>2. \A p \in PeriodIds : ~Present(period[p])
      BY DEF Emptied
    <3> QED  BY <3>1, <3>2 DEF Present
  <2>2. b.period = [p \in PeriodIds |-> b.period[p]]
    BY <1>1 DEF Complete
  <2> QED  BY <1>2, <2>1, <2>2, PutBack
<1>6. stocktake' = b.stocktake
  <2>1. \A s \in StocktakeIds : stocktake[s].status = "absent"
    <3>1. \A s \in StocktakeIds : stocktake[s].status # "discarded"
      BY <1>1 DEF CompanyComplete, IsStocktake
    <3>2. \A s \in StocktakeIds : ~Present(stocktake[s])
      BY DEF Emptied
    <3> QED  BY <3>1, <3>2 DEF Present
  <2>2. b.stocktake = [s \in StocktakeIds |-> b.stocktake[s]]
    BY <1>1 DEF Complete
  <2> QED  BY <1>2, <2>1, <2>2, PutBack
<1>7. \A j \in JournalIds : batches[j] \cup b.batches[j] = b.batches[j]
  BY <1>3
<1>8. batches' = b.batches
  <2>1. b.batches = [j \in JournalIds |-> b.batches[j]]
    BY <1>1 DEF Sound, Shaped
  <2> QED  BY <1>2, <1>7, <2>1
<1>9. journal' = b.journal
  <2>1. b.journal = [j \in JournalIds |-> b.journal[j]]
    BY <1>1 DEF Sound, Shaped
  <2>2. ASSUME NEW j \in JournalIds PROVE journal'[j] = b.journal[j]
    <3>1. Put(mode, journal[j], b.journal[j]) = b.journal[j]
      BY <1>3, PutBack
    <3>2. journal'[j] = [b.journal[j] EXCEPT !.lines = LinesOf(b.batches[j])]
      BY <1>2, <1>7, <3>1
    <3>3. b.journal[j].lines = LinesOf(b.batches[j]) /\ IsRow(b.journal[j])
      BY <1>1 DEF Sound, Shaped, LinesKept
    <3>4. [b.journal[j] EXCEPT !.lines = b.journal[j].lines] = b.journal[j]
      BY <3>3 DEF IsRow
    <3> QED  BY <3>2, <3>3, <3>4
  <2>3. journal' = [j \in JournalIds |-> journal'[j]]
    BY <1>2
  <2> QED  BY <2>1, <2>2, <2>3
<1>10. chain' = Append(b.chain, NextUid)
  <2>1. b.chain \in Seq(Nat) /\ Len(<<>>) = 0
    BY <1>2, OneHistory
  <2>2. (IF Len(b.chain) > Len(chain) THEN b.chain ELSE chain) = b.chain
    BY <1>3, <2>1
  <2> QED  BY <1>2, <2>2
<1>11. chart' = b.chart /\ commands' = b.commands
  BY <1>2, <1>3
<1>12. b = [chart |-> b.chart, accountId |-> b.accountId, period |-> b.period,
            journal |-> b.journal, batches |-> b.batches, stocktake |-> b.stocktake,
            commands |-> b.commands, chain |-> b.chain]
  BY <1>1 DEF Complete
<1>13. Company' = [chart |-> b.chart, accountId |-> b.accountId, period |-> b.period,
                   journal |-> b.journal, batches |-> b.batches, stocktake |-> b.stocktake,
                   commands |-> b.commands, chain |-> Append(b.chain, NextUid)]
  BY <1>4, <1>5, <1>6, <1>8, <1>9, <1>10, <1>11 DEF Company
<1> DEFINE log == Append(b.chain, NextUid)
<1> HIDE DEF log
<1>14. [b EXCEPT !.chain = log] =
         [chart |-> b.chart, accountId |-> b.accountId, period |-> b.period,
          journal |-> b.journal, batches |-> b.batches, stocktake |-> b.stocktake,
          commands |-> b.commands, chain |-> log]
  BY <1>12
<1> QED  BY <1>13, <1>14 DEF log

LEMMA StepGivesBack ==
  ASSUME HistoryInv, CompleteInv
  PROVE  GivesBack
BY RestoredIsGivenBack DEF GivesBack

-----------------------------------------------------------------------------
(* The theorems.                                                           *)

LEMMA HistoryInit == InitRecovery => HistoryInv
<1> SUFFICES ASSUME InitRecovery PROVE HistoryInv
  OBVIOUS
<1>1. /\ Company.journal = [j \in JournalIds |-> NoJournal("absent")]
      /\ Company.batches = [j \in JournalIds |-> {}]
      /\ Company.chain = <<>> /\ Company.accountId = [code \in Codes |-> 0]
      /\ All = {Company}
  BY DEF InitRecovery, Init, Company, All
<1>2. IsRow(NoJournal("absent")) /\ NoJournal("absent").status = "absent" /\ NoJournal("absent").lines = <<>>
  BY NewRowIsRow DEF NoJournal
<1>3. Shaped(Company)
  BY <1>1, <1>2 DEF Shaped
<1>4. LinesKept(Company)
  BY <1>1, <1>2, LinesOfNone DEF LinesKept
<1>5. UidsDrawn(Company)
  <2>1. ToSet(Company.chain) = {}
    BY <1>1 DEF ToSet
  <2>2. /\ ToSet(Company.chain) \subseteq {0}
        /\ \A code \in Codes : Company.accountId[code] \in {0}
        /\ \A j \in JournalIds : \A batch \in Company.batches[j] : batch.uid \in {0}
    BY <1>1, <2>1
  <2>3. Uids(Company) \subseteq {0}
    BY <2>2, UidsWithin
  <2> QED  BY <2>3, RecoveryAssumption DEF UidsDrawn
<1>6. SettledAmong(All)
  BY <1>1, <1>2 DEF SettledAmong, IsPosted
<1> QED
  BY <1>1, <1>3, <1>4, <1>5, <1>6 DEF HistoryInv, Sound

LEMMA HistoryStep ==
  HistoryInv /\ [RecoveryNext]_recoveryVars => HistoryInv'
<1> SUFFICES ASSUME HistoryInv, [RecoveryNext]_recoveryVars PROVE HistoryInv'
  OBVIOUS
<1>1. CASE Command
  BY <1>1, EditStep, CommandStep DEF Command
<1>2. CASE ExportBackup
  BY <1>2, ExportStep
<1>3. CASE WipeAll
  BY <1>3, WipeStep
<1>4. CASE Recover
  BY <1>4, RestoreStep DEF Recover
<1>5. CASE UNCHANGED recoveryVars
  BY <1>5 DEF recoveryVars, vars, side, HistoryInv, All, Company
<1> QED
  BY <1>1, <1>2, <1>3, <1>4, <1>5 DEF RecoveryNext

LEMMA RecoverKeeps ==
  ASSUME HistoryInv, Recover
  PROVE  HistoryKept
<1>1. PICK b \in backups, mode \in Modes : NextUid <= MaxUid /\ Restore(b, mode)
  BY DEF Recover
<1>2. \A j \in JournalIds : RowRestored(b, j)
  BY <1>1, RestoreRow
<1>3. IsPrefix(chain, chain')
  BY <1>1, RestoreStep
<1> QED
  BY <1>2, <1>3 DEF RowRestored, HistoryKept

(* A journal that is posted in the company or in one of its files has the  *)
(* same lines wherever its event is known, after any exports, wipes and    *)
(* restores (CompanyBackupService.js:100, AuditService.js:81).             *)
THEOREM HistoryCorrect == RecoverySpec => []HistoryInv
<1>1. InitRecovery => HistoryInv
  BY HistoryInit
<1>2. HistoryInv /\ [RecoveryNext]_recoveryVars => HistoryInv'
  BY HistoryStep
<1> QED
  BY <1>1, <1>2, PTL DEF RecoverySpec

(* No restore, of any file in any mode, changes a posted journal, one of   *)
(* its lines, or an event of the audit log (CompanyBackupService.js:100).  *)
THEOREM RestoreCorrect == RecoverySpec => RestoreKeepsHistory
<1>1. HistoryInv /\ [RecoveryNext]_recoveryVars => [Recover => HistoryKept]_recoveryVars
  BY RecoverKeeps
<1> QED
  BY <1>1, HistoryCorrect, PTL DEF RecoverySpec, RestoreKeepsHistory

(* A business source is journalled at most once, also when journals of a   *)
(* file join those of the company: the unique index on sourceKey aborts    *)
(* any restore that would break it (StorageService.js:35).                 *)
THEOREM SourcesCorrect == RecoverySpec => []SourcePostedOnce
<1>1. InitRecovery => SourcePostedOnce
  <2> SUFFICES ASSUME InitRecovery PROVE SourcePostedOnce
    OBVIOUS
  <2>1. \A j \in JournalIds : journal[j].status = "absent"
    BY DEF InitRecovery, Init, NoJournal, NewJournal
  <2> QED  BY <2>1 DEF SourcePostedOnce, Live
<1>2. HistoryInv /\ SourcePostedOnce /\ [RecoveryNext]_recoveryVars => SourcePostedOnce'
  BY SourceStep
<1> QED
  BY <1>1, <1>2, HistoryCorrect, PTL DEF RecoverySpec

(* A file restored once more, after anything that has happened before,     *)
(* adds nothing but the receipt (CompanyBackupService.js:100-160).         *)
THEOREM IdempotentCorrect == RecoverySpec => RestoreIdempotent
<1>1. HistoryInv => NothingMissing
  BY StepMissesNothing
<1> QED
  BY <1>1, HistoryCorrect, PTL DEF RecoverySpec, RestoreIdempotent

(* In the company and in every file an account with a uid is in the chart, *)
(* and a log without events belongs to stores in which nothing was ever    *)
(* audited (AuditService.js:48, SettingsController.js:234).                *)
THEOREM CompleteCorrect == RecoverySpec => []CompleteInv
<1>1. InitRecovery => CompleteInv
  BY CompleteInit
<1>2. HistoryInv /\ CompleteInv /\ [RecoveryNext]_recoveryVars => CompleteInv'
  BY CompleteNext
<1> QED
  BY <1>1, <1>2, HistoryCorrect, PTL DEF RecoverySpec

(* An emptied company is given back whatever was exported, store by store, *)
(* whichever mode is chosen (CompanyBackupService.js:100-160).             *)
THEOREM GivesBackCorrect == RecoverySpec => RestoreGivesBack
<1>1. HistoryInv /\ CompleteInv => GivesBack
  BY StepGivesBack
<1> QED
  BY <1>1, HistoryCorrect, CompleteCorrect, PTL DEF RecoverySpec, RestoreGivesBack
=============================================================================
