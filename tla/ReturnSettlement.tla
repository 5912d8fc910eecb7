-------------------------- MODULE ReturnSettlement --------------------------
(***************************************************************************)
(* What the settlement of an invoice and of its returns promises, without  *)
(* journals, stock or treasury: money is collected up to what the customer *)
(* (or we, for a purchase) still owes after the returns, and money is      *)
(* handed back up to what has been paid beyond that.                       *)
(***************************************************************************)
EXTENDS Integers

CONSTANTS Originals,   \* sale and purchase invoices
          Amounts      \* the amounts of documents and of money: a single step moves one

ASSUME SettlementAssumption == Amounts \subseteq Nat

VARIABLES gross,      \* the invoiced amount, 0 until the invoice is issued
          paid,       \* money applied to the invoice
          returned,   \* the total of its posted returns
          refunded    \* money handed back against those returns

settlementVars == <<gross, paid, returned, refunded>>

Max0(n) == IF n > 0 THEN n ELSE 0

NetOf(o) == gross[o] - returned[o]

\* What was paid beyond the net invoice, and what is still owed on it.
Credit(o) == Max0(paid[o] - NetOf(o))
Owed(o) == Max0(NetOf(o) - paid[o])

-----------------------------------------------------------------------------
SettlementInit ==
  /\ gross = [o \in Originals |-> 0]
  /\ paid = [o \in Originals |-> 0]
  /\ returned = [o \in Originals |-> 0]
  /\ refunded = [o \in Originals |-> 0]

Issue(o, g, n) ==
  /\ gross[o] = 0 /\ n <= g
  /\ gross' = [gross EXCEPT ![o] = g]
  /\ paid' = [paid EXCEPT ![o] = n]
  /\ UNCHANGED <<returned, refunded>>

\* Mutant: the returns do not lower what may be collected.
CollectGross(o, n) ==
  /\ n <= gross[o] - paid[o]
  /\ paid' = [paid EXCEPT ![o] = @ + n]
  /\ UNCHANGED <<gross, returned, refunded>>

Collect(o, n) ==
  /\ n <= Owed(o)
  /\ paid' = [paid EXCEPT ![o] = @ + n]
  /\ UNCHANGED <<gross, returned, refunded>>

Return(o, n) ==
  /\ n <= NetOf(o)
  /\ returned' = [returned EXCEPT ![o] = @ + n]
  /\ UNCHANGED <<gross, paid, refunded>>

\* Mutants: earlier refunds are forgotten; whatever was paid is handed back.
RefundAgain(o, n) ==
  /\ n <= Credit(o)
  /\ refunded' = [refunded EXCEPT ![o] = @ + n]
  /\ UNCHANGED <<gross, paid, returned>>

Refund(o, n) ==
  /\ n <= Credit(o) - refunded[o]
  /\ refunded' = [refunded EXCEPT ![o] = @ + n]
  /\ UNCHANGED <<gross, paid, returned>>

SettlementNext ==
  \E o \in Originals, n \in Amounts :
    \/ \E g \in Amounts : Issue(o, g, n)
    \/ Collect(o, n)
    \/ Return(o, n)
    \/ Refund(o, n)

SettlementSpec == SettlementInit /\ [][SettlementNext]_settlementVars

SettlementTypeOK ==
  /\ gross \in [Originals -> Nat]
  /\ paid \in [Originals -> Nat]
  /\ returned \in [Originals -> Nat]
  /\ refunded \in [Originals -> Nat]

(* No order of receipts, returns and refunds hands back more than was paid *)
(* beyond the net invoice, or collects more than the invoice.              *)
RefundsCovered ==
  \A o \in Originals :
    /\ paid[o] <= gross[o]
    /\ returned[o] <= gross[o]
    /\ refunded[o] <= Credit(o)

(* Once money has been handed back, what is kept is exactly accounted for: *)
(* nothing is owed on the invoice and at least its net amount is retained. *)
NoRefundWhileOwed ==
  \A o \in Originals :
    refunded[o] > 0 => Owed(o) = 0 /\ paid[o] - refunded[o] >= NetOf(o)

(* Refunds are covered by what was paid, and nothing is owed beside them.  *)
RefundsSound == RefundsCovered /\ NoRefundWhileOwed

(* Once money has been paid beyond the net invoice, it is never collected  *)
(* on again.                                                               *)
CreditStopsCollection ==
  [][\A o \in Originals : Credit(o) > 0 => paid'[o] = paid[o]]_settlementVars
=============================================================================
