----------------------------- MODULE PostedBook -----------------------------
(***************************************************************************)
(* What the double-entry ledger promises, without drafts, chart, audit or  *)
(* reversal bookkeeping: a book of posted journals that only ever grows,   *)
(* by one balanced journal at a time, into a fiscal period that is not     *)
(* locked; locking a period is final.                                      *)
(***************************************************************************)
EXTENDS Integers

CONSTANTS JournalIds,     \* identities of journals, never reused
          PeriodIds,      \* fiscal periods
          BalancedLines   \* the line lists whose debits equal their credits

VARIABLES book,    \* the posted journals
          locked   \* the closed periods

bookVars == <<book, locked>>

Posting == [id: JournalIds, period: PeriodIds, lines: BalancedLines]

BookInit == book = {} /\ locked = {}

Post(e) ==
  /\ e.period \notin locked
  /\ \A other \in book : other.id # e.id
  /\ book' = book \cup {e}
  /\ UNCHANGED locked

Lock(p) ==
  /\ locked' = locked \cup {p}
  /\ UNCHANGED book

BookNext ==
  \/ \E e \in Posting : Post(e)
  \/ \E p \in PeriodIds : Lock(p)

BookSpec == BookInit /\ [][BookNext]_bookVars
=============================================================================
