---------------------------- MODULE P2PDomain ----------------------------
(***************************************************************************)
(* The domain rules of the procure-to-pay API as operators on table rows:  *)
(* what a row holds, which requests each rule refuses and with which error *)
(* code, and the row a rule returns.  The rules have no state of their own *)
(* (src/src/domain/models and src/src/domain/rules), so the modules that   *)
(* give them a database, one request at a time (P2P) or several at once    *)
(* (P2PThreads), share them.                                               *)
(*                                                                         *)
(* Money is an integer number of cents.  A set of lines, of an order or of *)
(* a receipt, is a function on Lines that is 0 where a line is not there:  *)
(* the code refuses any line whose quantity is not positive.               *)
(***************************************************************************)
EXTENDS Integers, FiniteSets, FiniteSetsExt

CONSTANTS
    VendorIds,       \* ids a request may name as its vendor
    Vendors,         \* those that have a row in table vendors
    ActiveVendors,   \* the rows with is_active
    PurchaseOrders,  \* ids of purchase orders
    Lines,           \* line items of a purchase order
    Orders,          \* line items a create request may carry
    Deliveries,      \* line items a receive request may carry
    Invoices,        \* ids of invoices
    InvoiceNumbers,  \* the vendor's own references
    Amounts,         \* invoice amounts, in cents
    Keys,            \* values of the Idempotency-Key header
    None             \* no such row, or a NULL column

LineQuantities == [Lines -> Nat]

ASSUME VendorsAssumption == ActiveVendors \subseteq Vendors /\ Vendors \subseteq VendorIds
ASSUME LinesAssumption == IsFiniteSet(Lines)
ASSUME OrdersAssumption ==
    Orders \subseteq [qty_ordered : LineQuantities, unit_cost : LineQuantities]
ASSUME DeliveriesAssumption == Deliveries \subseteq LineQuantities
ASSUME AmountsAssumption == Amounts \subseteq Int

-----------------------------------------------------------------------------
(* Rows *)

PurchaseOrderStatuses == {"DRAFT", "SUBMITTED", "RECEIVED", "CLOSED"}
InvoiceStatuses == {"PENDING", "MATCHED", "APPROVED", "PAID"}
MatchOutcomes == {"NONE", "BLOCKED", "MATCHED_WITH_WARNING", "MATCHED"}
UnpaidStatuses == {"PENDING", "MATCHED", "APPROVED"}

PurchaseOrder ==
    [vendor_id : Vendors, status : PurchaseOrderStatuses,
     qty_ordered : LineQuantities, qty_received : LineQuantities,
     unit_cost : LineQuantities, create_idempotency_key : Keys \cup {None},
     submit_idempotency_key : Keys \cup {None}, invoice_id : Invoices \cup {None}]

(* A timestamp column holds the key of the request that set it: distinct   *)
(* requests stamp distinct instants.                                       *)
Invoice ==
    [vendor_id : Vendors, purchase_order_id : PurchaseOrders,
     invoice_number : InvoiceNumbers, invoice_amount : Amounts,
     status : InvoiceStatuses, last_match_outcome : MatchOutcomes,
     matched_at : Keys \cup {None}, approved_at : Keys \cup {None},
     paid_at : Keys \cup {None}]

(* None stands for the absence of a row, so it is not one. *)
ASSUME NoneAssumption ==
    /\ None \notin PurchaseOrder
    /\ None \notin Invoice
    /\ None \notin PurchaseOrders \cup Invoices \cup Keys

-----------------------------------------------------------------------------
(* Purchase orders: src/src/domain/models/purchase_order.py *)

(* Mutant: the vendor is not looked up. *)
OrderRefusalAnyVendor(v, order) ==
    IF \A l \in Lines : order.qty_ordered[l] = 0 THEN "PURCHASE_ORDER_LINE_INVALID" ELSE "OK"

OrderRefusal(v, order) ==
    IF v \notin Vendors THEN "VENDOR_NOT_FOUND"
    ELSE IF v \notin ActiveVendors THEN "VENDOR_INACTIVE"
    ELSE IF \A l \in Lines : order.qty_ordered[l] = 0 THEN "PURCHASE_ORDER_LINE_INVALID"
    ELSE "OK"

DraftPurchaseOrder(v, order, k) ==
    [vendor_id |-> v, status |-> "DRAFT",
     qty_ordered |-> order.qty_ordered, qty_received |-> [l \in Lines |-> 0],
     unit_cost |-> order.unit_cost, create_idempotency_key |-> k,
     submit_idempotency_key |-> None, invoice_id |-> None]

SubmitRefusal(po) ==
    IF po = None THEN "PURCHASE_ORDER_NOT_FOUND"
    ELSE IF po.status # "DRAFT" THEN "PURCHASE_ORDER_INVALID_STATE"
    ELSE "OK"

(* What the service asks first: the order was submitted under this very    *)
(* key.  The request is answered with the order as it is, and changes      *)
(* nothing.  Only a race gets here: the record of the key, which is        *)
(* written in the same transaction, is looked up before.                   *)
SubmittedUnder(po, k) == po # None /\ po.submit_idempotency_key = k

Submitted(po, k) ==
    [po EXCEPT !.status = "SUBMITTED", !.submit_idempotency_key = k]

FullyReceived(po) == \A l \in Lines : po.qty_received[l] = po.qty_ordered[l]

(* Mutant: each receipt is compared with the order on its own. *)
ReceiptRefusalEachAlone(po, delivery) ==
    IF po = None THEN "PURCHASE_ORDER_NOT_FOUND"
    ELSE IF po.status # "SUBMITTED" THEN "PURCHASE_ORDER_INVALID_STATE"
    ELSE IF \A l \in Lines : delivery[l] = 0 THEN "PURCHASE_ORDER_LINE_INVALID"
    ELSE IF \E l \in Lines : delivery[l] > po.qty_ordered[l] THEN "PURCHASE_ORDER_OVER_RECEIPT"
    ELSE "OK"

(* The loop reports a line of the order that would be over-received before *)
(* it looks at lines the order does not have.                              *)
ReceiptRefusal(po, delivery) ==
    IF po = None THEN "PURCHASE_ORDER_NOT_FOUND"
    ELSE IF po.status # "SUBMITTED" THEN "PURCHASE_ORDER_INVALID_STATE"
    ELSE IF \A l \in Lines : delivery[l] = 0 THEN "PURCHASE_ORDER_LINE_INVALID"
    ELSE IF \E l \in Lines : /\ po.qty_ordered[l] > 0
                             /\ po.qty_received[l] + delivery[l] > po.qty_ordered[l]
      THEN "PURCHASE_ORDER_OVER_RECEIPT"
    ELSE IF \E l \in Lines : po.qty_ordered[l] = 0 /\ delivery[l] > 0
      THEN "PURCHASE_ORDER_LINE_INVALID"
    ELSE "OK"

(* Mutant: a receipt replaces what earlier ones brought. *)
ReceivedAnew(po, delivery) ==
    [po EXCEPT !.qty_received = delivery,
               !.status = IF delivery = po.qty_ordered THEN "RECEIVED" ELSE "SUBMITTED"]

(* Mutant: whether the order is complete is read off the old quantities. *)
ReceivedOldTotals(po, delivery) ==
    [po EXCEPT !.qty_received = [l \in Lines |-> @[l] + delivery[l]],
               !.status = IF \A l \in Lines : po.qty_received[l] = po.qty_ordered[l]
                          THEN "RECEIVED" ELSE "SUBMITTED"]

Received(po, delivery) ==
    LET received == [l \in Lines |-> po.qty_received[l] + delivery[l]]
    IN  [po EXCEPT !.qty_received = received,
                   !.status = IF \A l \in Lines : received[l] = po.qty_ordered[l]
                              THEN "RECEIVED" ELSE "SUBMITTED"]

(* received_value and ordered_value of get_received_value_snapshot *)
LineValue(quantities, costs) == MapThenSumSet(LAMBDA l : quantities[l] * costs[l], Lines)
ReceivedValue(po) == LineValue(po.qty_received, po.unit_cost)
OrderedValue(po) == LineValue(po.qty_ordered, po.unit_cost)

-----------------------------------------------------------------------------
(* Invoices: src/src/domain/models/invoice.py and the services *)

(* Mutant: the order may be any vendor's. *)
InvoiceRefusalAnyOrder(v, po, duplicate) ==
    IF v \notin Vendors THEN "VENDOR_NOT_FOUND"
    ELSE IF po = None THEN "PURCHASE_ORDER_NOT_FOUND"
    ELSE IF po.status \notin {"SUBMITTED", "RECEIVED"} THEN "PURCHASE_ORDER_INVALID_STATE"
    ELSE IF po.invoice_id # None THEN "PURCHASE_ORDER_INVALID_STATE"
    ELSE IF duplicate THEN "INVOICE_DUPLICATE_REFERENCE"
    ELSE "OK"

(* duplicate: the vendor already has an invoice of that number. *)
InvoiceRefusal(v, po, duplicate) ==
    IF v \notin Vendors THEN "VENDOR_NOT_FOUND"
    ELSE IF po = None THEN "PURCHASE_ORDER_NOT_FOUND"
    ELSE IF po.vendor_id # v THEN "INVOICE_VENDOR_PO_MISMATCH"
    ELSE IF po.status \notin {"SUBMITTED", "RECEIVED"} THEN "PURCHASE_ORDER_INVALID_STATE"
    ELSE IF po.invoice_id # None THEN "PURCHASE_ORDER_INVALID_STATE"
    ELSE IF duplicate THEN "INVOICE_DUPLICATE_REFERENCE"
    ELSE "OK"

PendingInvoice(v, p, number, amount) ==
    [vendor_id |-> v, purchase_order_id |-> p, invoice_number |-> number,
     invoice_amount |-> amount, status |-> "PENDING", last_match_outcome |-> "NONE",
     matched_at |-> None, approved_at |-> None, paid_at |-> None]

(* Mutant: an approved invoice may be matched again. *)
MatchRefusalUnpaid(inv, po) ==
    IF inv = None THEN "INVOICE_NOT_FOUND"
    ELSE IF inv.status = "PAID" THEN "INVOICE_INVALID_STATE"
    ELSE IF po = None THEN "PURCHASE_ORDER_NOT_FOUND"
    ELSE "OK"

MatchRefusal(inv, po) ==
    IF inv = None THEN "INVOICE_NOT_FOUND"
    ELSE IF inv.status \notin {"PENDING", "MATCHED"} THEN "INVOICE_INVALID_STATE"
    ELSE IF po = None THEN "PURCHASE_ORDER_NOT_FOUND"
    ELSE "OK"

(* Mutant: compares with what was ordered. *)
MatchOutcomeOrdered(amount, po) ==
    IF OrderedValue(po) < amount THEN "BLOCKED"
    ELSE IF FullyReceived(po) THEN "MATCHED" ELSE "MATCHED_WITH_WARNING"

MatchOutcome(amount, po) ==
    IF ReceivedValue(po) < amount THEN "BLOCKED"
    ELSE IF FullyReceived(po) THEN "MATCHED" ELSE "MATCHED_WITH_WARNING"

(* Mutant: an invoice for the whole order is above it. *)
NextActionBelowOrder(amount, po) ==
    IF MatchOutcome(amount, po) # "BLOCKED" THEN "PROCEED_TO_APPROVAL"
    ELSE IF amount < OrderedValue(po) THEN "WAIT_FOR_RECEIPT" ELSE "CORRECT_INVOICE"

NextAction(amount, po) ==
    IF MatchOutcome(amount, po) # "BLOCKED" THEN "PROCEED_TO_APPROVAL"
    ELSE IF amount <= OrderedValue(po) THEN "WAIT_FOR_RECEIPT" ELSE "CORRECT_INVOICE"

(* A blocked match leaves the status alone, a MATCHED one included. *)
Matched(inv, outcome, k) ==
    IF outcome = "BLOCKED" THEN [inv EXCEPT !.last_match_outcome = "BLOCKED"]
    ELSE [inv EXCEPT !.status = "MATCHED", !.last_match_outcome = outcome, !.matched_at = k]

(* Mutant: an approved invoice may be approved again. *)
ApprovalRefusalOnceMatched(inv) ==
    IF inv = None THEN "INVOICE_NOT_FOUND"
    ELSE IF inv.status \notin {"MATCHED", "APPROVED"} THEN "INVOICE_INVALID_STATE"
    ELSE "OK"

(* Mutant: the invoice need not be matched. *)
ApprovalRefusalUnmatched(inv) ==
    IF inv = None THEN "INVOICE_NOT_FOUND"
    ELSE IF inv.status \notin {"PENDING", "MATCHED"} THEN "INVOICE_INVALID_STATE"
    ELSE "OK"

ApprovalRefusal(inv) ==
    IF inv = None THEN "INVOICE_NOT_FOUND"
    ELSE IF inv.status # "MATCHED" THEN "INVOICE_INVALID_STATE"
    ELSE "OK"

Approved(inv, k) == [inv EXCEPT !.status = "APPROVED", !.approved_at = k]

(* Mutant: the order need not be fully received. *)
PaymentRefusalApproved(inv, po) ==
    IF inv = None THEN "INVOICE_NOT_FOUND"
    ELSE IF inv.status # "APPROVED" THEN "INVOICE_INVALID_STATE"
    ELSE IF po = None THEN "PURCHASE_ORDER_NOT_FOUND"
    ELSE "OK"

PaymentRefusal(inv, po) ==
    IF inv = None THEN "INVOICE_NOT_FOUND"
    ELSE IF inv.status # "APPROVED" THEN "INVOICE_INVALID_STATE"
    ELSE IF po = None THEN "PURCHASE_ORDER_NOT_FOUND"
    ELSE IF po.status # "RECEIVED" THEN "PURCHASE_ORDER_INVALID_STATE"
    ELSE "OK"

Paid(inv, k) == [inv EXCEPT !.status = "PAID", !.paid_at = k]
Closed(po) == [po EXCEPT !.status = "CLOSED"]

-----------------------------------------------------------------------------
(* Ledger and exposure *)

(* The two entries of one approval.  k stands for their generated ids and  *)
(* posting time; the debit's account is derived from the vendor's name.    *)
GLEntry == [posting : Keys, invoice_id : Invoices,
            account_code : {"EXPENSE", "AP_CONTROL"}, debit : Int, credit : Int]

BalancedGLEntries(k, i, amount) ==
    {[posting |-> k, invoice_id |-> i, account_code |-> "EXPENSE",
      debit |-> amount, credit |-> 0],
     [posting |-> k, invoice_id |-> i, account_code |-> "AP_CONTROL",
      debit |-> 0, credit |-> amount]}

GLEntriesAreBalanced(entries) ==
    /\ entries # {}
    /\ MapThenSumSet(LAMBDA e : e.debit, entries) = MapThenSumSet(LAMBDA e : e.credit, entries)

(* outstanding_total_amount of a vendor: what get_exposure_aggregate sums *)
Exposure(invoices, v) ==
    MapThenSumSet(LAMBDA i : invoices[i].invoice_amount,
                  {i \in Invoices : /\ invoices[i] # None
                                    /\ invoices[i].vendor_id = v
                                    /\ invoices[i].status \in UnpaidStatuses})
=============================================================================
