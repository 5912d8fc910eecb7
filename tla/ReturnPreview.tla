--------------------------- MODULE ReturnPreview ---------------------------
(***************************************************************************)
(* RetailPostingService.previewSaleReturn beside the settlement contract.  *)
(* The preview reads the invoice and its returns in a transaction of its   *)
(* own and computes debt and credit apart from the command that posts; by  *)
(* the time the return is posted, money may have come in or gone back and  *)
(* other returns been posted. It tells what the amounts decide: the caps   *)
(* per item and the closed periods by which the posting may still refuse   *)
(* are in RetailPosting.                                                   *)
(***************************************************************************)
EXTENDS ReturnSettlement

VARIABLE shown  \* the last preview, none before the first: what it read and what it tells

previewVars == <<settlementVars, shown>>

\* Mutant: the whole return becomes credit once anything has been paid.
PreviewAllCredit(o, n) ==
  LET owed == Max0(gross[o] - returned[o] - paid[o])
      allocated == IF paid[o] > 0 THEN 0 ELSE IF n < owed THEN n ELSE owed
  IN  [receivableAfter |-> Max0(gross[o] - returned[o] - n - paid[o]),
       allocatedToReceivable |-> allocated,
       customerCreditAfter |-> Max0(paid[o] - (gross[o] - returned[o])) + (n - allocated)]

PreviewAllowed(o, n) ==
  /\ paid[o] <= gross[o]
  /\ returned[o] <= gross[o] /\ n <= gross[o] - returned[o]

PreviewSaleReturnSettlement(o, n) ==
  LET invoiceNetBefore == gross[o] - returned[o]
      receivableBefore == Max0(invoiceNetBefore - paid[o])
      priorCustomerCredit == Max0(paid[o] - invoiceNetBefore)
      allocatedToReceivable == IF n < receivableBefore THEN n ELSE receivableBefore
  IN  [receivableAfter |-> Max0(invoiceNetBefore - n - paid[o]),
       allocatedToReceivable |-> allocatedToReceivable,
       customerCreditAfter |-> priorCustomerCredit + (n - allocatedToReceivable)]

\* A refusal shows no figures; they are there to give the record one shape.
Preview(o, n) ==
  /\ gross[o] > 0 /\ n > 0
  /\ shown' = {[order |-> o, amount |-> n, paid |-> paid[o], returned |-> returned[o],
                allowed |-> PreviewAllowed(o, n), figures |-> PreviewSaleReturnSettlement(o, n)]}
  /\ UNCHANGED settlementVars

PreviewInit == SettlementInit /\ shown = {}

PreviewNext ==
  \/ SettlementNext /\ UNCHANGED shown
  \/ \E o \in Originals, n \in Amounts : Preview(o, n)

PreviewSpec == PreviewInit /\ [][PreviewNext]_previewVars

(* When the previewed return is posted after all, the preview had not      *)
(* refused it, and its figures were a bound whatever came between: the     *)
(* posting leaves no more debt and no less credit than was shown, and just *)
(* what was shown, the part taken off the debt included, if no receipt and *)
(* no return came between.                                                 *)
PostedAsShown(p) ==
  LET o == p.order
  IN  /\ p.allowed
      /\ Owed(o)' <= p.figures.receivableAfter
      /\ Credit(o)' >= p.figures.customerCreditAfter
      /\ paid[o] = p.paid /\ returned[o] = p.returned =>
           /\ Owed(o)' = p.figures.receivableAfter
           /\ Credit(o)' = p.figures.customerCreditAfter
           /\ Owed(o) - Owed(o)' = p.figures.allocatedToReceivable

(* What a preview refused can never be posted, and what it allowed can be  *)
(* until another return of that invoice is posted: receipts and refunds do *)
(* not take it back.                                                       *)
RefusedAsShown(p) ==
  LET o == p.order
      postable == p.amount <= NetOf(o)
  IN  /\ postable => p.allowed
      /\ p.allowed /\ returned[o] = p.returned => postable

(* A preview of a return, however old, against the posting of that return  *)
(* (RetailPostingService.js:52-80, ReturnSettlementCore.mjs:18-60).        *)
PreviewFaithful ==
  /\ [][\A p \in shown : Return(p.order, p.amount) => PostedAsShown(p)]_previewVars
  /\ [](\A p \in shown : RefusedAsShown(p))
=============================================================================
