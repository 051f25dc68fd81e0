------------------------------- MODULE P2P -------------------------------
(***************************************************************************)
(* The procure-to-pay API serving one request at a time.  Each action is   *)
(* one handler of src/src/domain/services from the idempotency lookup to   *)
(* the commit: its guard is every check the handler makes, its effect the  *)
(* whole transaction.  A request that is refused, that conflicts with a    *)
(* recorded key, that replays one, or whose transaction fails and is       *)
(* rolled back changes no row, and so is a stuttering step; what the       *)
(* client is told is then given by the ...Refusal operators of P2PDomain   *)
(* and by Replay below.                                                    *)
(*                                                                         *)
(* A row that one request inserts at most once is identified by the key of *)
(* that request in place of its generated id.                              *)
(***************************************************************************)
EXTENDS P2PDomain

CONSTANTS
    CreditLimit,   \* credit_limit of each vendor
    Channels       \* who calls the services: "HTTP" routes, "MCP" tools

ASSUME CreditLimitAssumption == CreditLimit \in [Vendors -> Nat]
ASSUME ChannelsAssumption == Channels \subseteq {"HTTP", "MCP"}

VARIABLES
    purchase_orders,          \* with their line items
    invoices,
    goods_receipts,           \* by idempotency_key, which is UNIQUE
    invoice_match_snapshots,  \* by idempotency_key, which is UNIQUE
    gl_entries,
    idempotency_keys,
    credit_checks,
    credit_alerts,            \* by vendor_id, which is UNIQUE
    background_tasks          \* credit checks the web process still has to run

documents == <<purchase_orders, invoices>>
history == <<goods_receipts, invoice_match_snapshots, gl_entries>>
credit == <<credit_checks, credit_alerts, background_tasks>>
vars == <<documents, history, idempotency_keys, credit>>

-----------------------------------------------------------------------------
(* Rows of the remaining tables.  A request is its own fingerprint. *)

Request ==
    [operation : {"purchase_order.create"}, vendor_id : VendorIds, line_items : Orders]
    \cup [operation : {"purchase_order.submit"}, purchase_order_id : PurchaseOrders]
    \cup [operation : {"purchase_order.receive"}, purchase_order_id : PurchaseOrders,
          line_items : Deliveries]
    \cup [operation : {"invoice.create"}, vendor_id : VendorIds,
          purchase_order_id : PurchaseOrders, invoice_number : InvoiceNumbers,
          invoice_amount : Amounts]
    \cup [operation : {"invoice.match", "invoice.approve", "invoice.pay"},
          invoice_id : Invoices]

IdempotencyRecord ==
    [request : Request, resource_id : PurchaseOrders \cup Invoices \cup Keys]

GoodsReceipt == [po_id : PurchaseOrders, line_items : LineQuantities]

MatchSnapshot ==
    [invoice_id : Invoices, outcome : MatchOutcomes,
     next_action : {"PROCEED_TO_APPROVAL", "WAIT_FOR_RECEIPT", "CORRECT_INVOICE"}]

(* alert_id is the check's own key when the check found a breach *)
CreditCheck ==
    [vendor_id : Vendors, triggering_invoice_id : Invoices,
     triggering_action : {"CREATE", "APPROVE"}, status : {"PENDING", "COMPLETED"},
     alert_id : Keys \cup {None}]

(* The amounts an alert quotes are left out: no rule reads them back. *)
CreditAlert == [credit_check_id : Keys, triggering_invoice_id : Invoices]

ASSUME NoneIsNoRow ==
    /\ None \notin IdempotencyRecord
    /\ None \notin GoodsReceipt
    /\ None \notin MatchSnapshot
    /\ None \notin CreditCheck
    /\ None \notin CreditAlert

TypeOK ==
    /\ purchase_orders \in [PurchaseOrders -> PurchaseOrder \cup {None}]
    /\ invoices \in [Invoices -> Invoice \cup {None}]
    /\ goods_receipts \in [Keys -> GoodsReceipt \cup {None}]
    /\ invoice_match_snapshots \in [Keys -> MatchSnapshot \cup {None}]
    /\ gl_entries \in SUBSET GLEntry
    /\ idempotency_keys \in [Keys -> IdempotencyRecord \cup {None}]
    /\ credit_checks \in [Keys -> CreditCheck \cup {None}]
    /\ credit_alerts \in [Vendors -> CreditAlert \cup {None}]
    /\ background_tasks \in SUBSET Keys

(* A database whose only rows are the vendors. *)
Init ==
    /\ purchase_orders = [p \in PurchaseOrders |-> None]
    /\ invoices = [i \in Invoices |-> None]
    /\ goods_receipts = [k \in Keys |-> None]
    /\ invoice_match_snapshots = [k \in Keys |-> None]
    /\ gl_entries = {}
    /\ idempotency_keys = [k \in Keys |-> None]
    /\ credit_checks = [k \in Keys |-> None]
    /\ credit_alerts = [v \in Vendors |-> None]
    /\ background_tasks = {}

-----------------------------------------------------------------------------
(* What the handlers share *)

Recorded(k) == idempotency_keys[k] # None

(* The last insert of every transaction. *)
Record(k, request, id) ==
    idempotency_keys' = [idempotency_keys EXCEPT ![k] = [request |-> request, resource_id |-> id]]

(* The PENDING check an invoice transaction inserts, and, from an HTTP     *)
(* route only, the background task that is to dispatch it.  The route      *)
(* queues the task after the commit.  Here it is queued by the commit, and *)
(* run by any later step: whatever happens between the two in the code     *)
(* happens here while the task waits, and a process that stops between     *)
(* them loses the task, as Restart does.                                   *)
StartCreditCheck(k, v, i, action, channel) ==
    /\ credit_checks' = [credit_checks EXCEPT ![k] =
          [vendor_id |-> v, triggering_invoice_id |-> i, triggering_action |-> action,
           status |-> "PENDING", alert_id |-> None]]
    /\ background_tasks' =
          IF channel = "HTTP" THEN background_tasks \cup {k} ELSE background_tasks
    /\ UNCHANGED credit_alerts

-----------------------------------------------------------------------------
(* Purchase orders *)

CreateOrderRequest(v, order) ==
    [operation |-> "purchase_order.create", vendor_id |-> v, line_items |-> order]

CreatePurchaseOrder(k, v, order, p) ==
    /\ ~Recorded(k)
    /\ OrderRefusal(v, order) = "OK"
    /\ purchase_orders[p] = None
    /\ purchase_orders' = [purchase_orders EXCEPT ![p] = DraftPurchaseOrder(v, order, k)]
    /\ Record(k, CreateOrderRequest(v, order), p)
    /\ UNCHANGED <<invoices, history, credit>>

SubmitPurchaseOrder(k, p) ==
    /\ ~Recorded(k)
    /\ ~SubmittedUnder(purchase_orders[p], k)
    /\ SubmitRefusal(purchase_orders[p]) = "OK"
    /\ purchase_orders' = [purchase_orders EXCEPT ![p] = Submitted(@, k)]
    /\ Record(k, [operation |-> "purchase_order.submit", purchase_order_id |-> p], p)
    /\ UNCHANGED <<invoices, history, credit>>

ReceiveRequest(p, delivery) ==
    [operation |-> "purchase_order.receive", purchase_order_id |-> p, line_items |-> delivery]

ReceiveGoods(k, p, delivery) ==
    /\ ~Recorded(k)
    /\ goods_receipts[k] = None
    /\ ReceiptRefusal(purchase_orders[p], delivery) = "OK"
    /\ purchase_orders' = [purchase_orders EXCEPT ![p] = Received(@, delivery)]
    /\ goods_receipts' = [goods_receipts EXCEPT ![k] = [po_id |-> p, line_items |-> delivery]]
    /\ Record(k, ReceiveRequest(p, delivery), p)
    /\ UNCHANGED <<invoices, invoice_match_snapshots, gl_entries, credit>>

-----------------------------------------------------------------------------
(* Invoices *)

HasInvoiceNumber(v, number) ==
    \E i \in Invoices : /\ invoices[i] # None
                        /\ invoices[i].vendor_id = v
                        /\ invoices[i].invoice_number = number

(* Mutant: the column is not UNIQUE. *)
HasInvoiceUnconstrained(p) == FALSE

(* invoices.po_id is UNIQUE: a second invoice for an order rolls back. *)
HasInvoice(p) == \E i \in Invoices : invoices[i] # None /\ invoices[i].purchase_order_id = p

CreateInvoiceRequest(v, p, number, amount) ==
    [operation |-> "invoice.create", vendor_id |-> v, purchase_order_id |-> p,
     invoice_number |-> number, invoice_amount |-> amount]

CreateInvoice(k, v, p, number, amount, i, channel) ==
    /\ ~Recorded(k)
    /\ InvoiceRefusal(v, purchase_orders[p], HasInvoiceNumber(v, number)) = "OK"
    /\ ~HasInvoice(p)
    /\ invoices[i] = None
    /\ invoices' = [invoices EXCEPT ![i] = PendingInvoice(v, p, number, amount)]
    /\ purchase_orders' = [purchase_orders EXCEPT ![p].invoice_id = i]
    /\ StartCreditCheck(k, v, i, "CREATE", channel)
    /\ Record(k, CreateInvoiceRequest(v, p, number, amount), i)
    /\ UNCHANGED history

MatchInvoice(k, i) ==
    LET inv == invoices[i]
        po == purchase_orders[inv.purchase_order_id]
    IN  /\ ~Recorded(k)
        /\ inv # None
        /\ MatchRefusal(inv, po) = "OK"
        /\ invoices' = [invoices EXCEPT ![i] = Matched(@, MatchOutcome(@.invoice_amount, po), k)]
        /\ invoice_match_snapshots' = [invoice_match_snapshots EXCEPT ![k] =
              [invoice_id |-> i, outcome |-> MatchOutcome(inv.invoice_amount, po),
               next_action |-> NextAction(inv.invoice_amount, po)]]
        /\ Record(k, [operation |-> "invoice.match", invoice_id |-> i], k)
        /\ UNCHANGED <<purchase_orders, goods_receipts, gl_entries, credit>>

ApproveInvoice(k, i, channel) ==
    LET inv == invoices[i]
        entries == BalancedGLEntries(k, i, inv.invoice_amount)
    IN  /\ ~Recorded(k)
        /\ ApprovalRefusal(inv) = "OK"
        /\ GLEntriesAreBalanced(entries)
        /\ invoices' = [invoices EXCEPT ![i] = Approved(@, k)]
        /\ gl_entries' = gl_entries \cup entries
        /\ StartCreditCheck(k, inv.vendor_id, i, "APPROVE", channel)
        /\ Record(k, [operation |-> "invoice.approve", invoice_id |-> i], i)
        /\ UNCHANGED <<purchase_orders, goods_receipts, invoice_match_snapshots>>

PayInvoice(k, i) ==
    LET inv == invoices[i]
        p == inv.purchase_order_id
    IN  /\ ~Recorded(k)
        /\ inv # None
        /\ PaymentRefusal(inv, purchase_orders[p]) = "OK"
        /\ invoices' = [invoices EXCEPT ![i] = Paid(@, k)]
        /\ purchase_orders' = [purchase_orders EXCEPT ![p] = Closed(@)]
        /\ Record(k, [operation |-> "invoice.pay", invoice_id |-> i], i)
        /\ UNCHANGED <<history, credit>>

-----------------------------------------------------------------------------
(* Credit checks after the response: dispatch_pending_credit_check *)

(* Mutant: only the invoice that started the check counts. *)
RunCreditCheckOneInvoice(k) ==
    LET check == credit_checks[k]
        v == check.vendor_id
        i == check.triggering_invoice_id
        breached == invoices[i].invoice_amount > CreditLimit[v]
    IN  /\ credit_checks' = [credit_checks EXCEPT
              ![k].status = "COMPLETED", ![k].alert_id = IF breached THEN k ELSE None]
        /\ credit_alerts' = [credit_alerts EXCEPT ![v] =
              IF breached THEN [credit_check_id |-> k, triggering_invoice_id |-> i] ELSE None]

RunCreditCheck(k) ==
    LET check == credit_checks[k]
        v == check.vendor_id
        breached == Exposure(invoices, v) > CreditLimit[v]
    IN  /\ credit_checks' = [credit_checks EXCEPT
              ![k].status = "COMPLETED", ![k].alert_id = IF breached THEN k ELSE None]
        /\ credit_alerts' = [credit_alerts EXCEPT ![v] =
              IF breached
              THEN [credit_check_id |-> k,
                    triggering_invoice_id |-> check.triggering_invoice_id]
              ELSE None]

DispatchCreditCheck(k) ==
    /\ k \in background_tasks
    /\ background_tasks' = background_tasks \ {k}
    /\ IF credit_checks[k].status = "COMPLETED"
       THEN UNCHANGED <<credit_checks, credit_alerts>>
       ELSE RunCreditCheck(k)
    /\ UNCHANGED <<documents, history, idempotency_keys>>

(* An exception in the task rolls its session back and is only logged. *)
CreditCheckFails(k) ==
    /\ k \in background_tasks
    /\ background_tasks' = background_tasks \ {k}
    /\ UNCHANGED <<documents, history, idempotency_keys, credit_checks, credit_alerts>>

(* Background tasks live in the web process and the start-up code looks    *)
(* for no PENDING check, so a crash or a deployment loses them all.        *)
Restart ==
    /\ background_tasks # {}
    /\ background_tasks' = {}
    /\ UNCHANGED <<documents, history, idempotency_keys, credit_checks, credit_alerts>>

-----------------------------------------------------------------------------
OrderStep(k) ==
    \E p \in PurchaseOrders :
        \/ \E v \in VendorIds, order \in Orders : CreatePurchaseOrder(k, v, order, p)
        \/ SubmitPurchaseOrder(k, p)
        \/ \E delivery \in Deliveries : ReceiveGoods(k, p, delivery)

InvoiceStep(k) ==
    \E i \in Invoices :
        \/ \E v \in VendorIds, p \in PurchaseOrders, number \in InvoiceNumbers,
              amount \in Amounts, channel \in Channels :
              CreateInvoice(k, v, p, number, amount, i, channel)
        \/ MatchInvoice(k, i)
        \/ \E channel \in Channels : ApproveInvoice(k, i, channel)
        \/ PayInvoice(k, i)

Next ==
    \/ \E k \in Keys : OrderStep(k) \/ InvoiceStep(k)
    \/ \E k \in Keys : DispatchCreditCheck(k) \/ CreditCheckFails(k)
    \/ Restart

Spec == Init /\ [][Next]_vars

-----------------------------------------------------------------------------
(* Retries.  Replay(k) is what a client that sends the request recorded    *)
(* under k once more, unchanged, is told: the second half of each          *)
(* service's _resolve_idempotency.                                         *)

PostedFor(i) == {e \in gl_entries : e.invoice_id = i}

FindsRow(row) == IF row = None THEN "DEPENDENCY_TEMPORARILY_UNAVAILABLE" ELSE "OK"

ReplayApproval(i) ==
    IF invoices[i] = None THEN "DEPENDENCY_TEMPORARILY_UNAVAILABLE"
    ELSE IF invoices[i].status # "APPROVED" \/ invoices[i].approved_at = None
      THEN "DEPENDENCY_TEMPORARILY_UNAVAILABLE"
    ELSE IF PostedFor(i) = {} THEN "GL_ENTRIES_MISSING"
    ELSE IF ~GLEntriesAreBalanced(PostedFor(i)) THEN "GL_ENTRIES_UNBALANCED"
    ELSE "OK"

(* Mutant: asks a paid invoice to be still approved. *)
ReplayPaymentAsApproval(i) ==
    IF invoices[i] = None THEN "DEPENDENCY_TEMPORARILY_UNAVAILABLE"
    ELSE IF invoices[i].status # "APPROVED" \/ invoices[i].approved_at = None
      THEN "DEPENDENCY_TEMPORARILY_UNAVAILABLE"
    ELSE "OK"

ReplayPayment(i) ==
    IF invoices[i] = None THEN "DEPENDENCY_TEMPORARILY_UNAVAILABLE"
    ELSE IF invoices[i].status # "PAID" \/ invoices[i].paid_at = None
      THEN "DEPENDENCY_TEMPORARILY_UNAVAILABLE"
    ELSE IF purchase_orders[invoices[i].purchase_order_id] = None
      THEN "PURCHASE_ORDER_NOT_FOUND"
    ELSE "OK"

Replay(k) ==
    LET request == idempotency_keys[k].request
        id == idempotency_keys[k].resource_id
    IN  CASE request.operation \in {"purchase_order.create", "purchase_order.submit",
                                    "purchase_order.receive"} -> FindsRow(purchase_orders[id])
          [] request.operation = "invoice.create" -> FindsRow(invoices[id])
          [] request.operation = "invoice.match" -> FindsRow(invoice_match_snapshots[id])
          [] request.operation = "invoice.approve" -> ReplayApproval(id)
          [] request.operation = "invoice.pay" -> ReplayPayment(id)

-----------------------------------------------------------------------------
(* Properties *)

(* The books of one order agree: every line's qty_received is the sum of   *)
(* the receipt lines recorded for it.                                      *)
ReceiptsAddUp ==
    \A p \in PurchaseOrders : purchase_orders[p] # None =>
        \A l \in Lines :
            purchase_orders[p].qty_received[l] =
                MapThenSumSet(LAMBDA k : goods_receipts[k].line_items[l],
                              {k \in Keys : /\ goods_receipts[k] # None
                                           /\ goods_receipts[k].po_id = p})

(* No sequence of partial receipts, whatever their keys, takes a line above *)
(* what was ordered, and an order that is RECEIVED or CLOSED has no open    *)
(* line.                                                                    *)
NeverOverReceived ==
    \A p \in PurchaseOrders : purchase_orders[p] # None =>
        /\ \A l \in Lines :
              purchase_orders[p].qty_received[l] <= purchase_orders[p].qty_ordered[l]
        /\ purchase_orders[p].status \in {"RECEIVED", "CLOSED"} =>
              FullyReceived(purchase_orders[p])

(* An order and its invoice point at each other, belong to the same        *)
(* vendor, and no other invoice of that vendor has the same number.        *)
InvoiceLinks ==
    /\ \A i \in Invoices : invoices[i] # None =>
          LET po == purchase_orders[invoices[i].purchase_order_id]
          IN  po # None /\ po.invoice_id = i /\ po.vendor_id = invoices[i].vendor_id
    /\ \A p \in PurchaseOrders : purchase_orders[p] # None =>
          LET i == purchase_orders[p].invoice_id
          IN  i # None => (invoices[i] # None /\ invoices[i].purchase_order_id = p)
    /\ \A i, j \in Invoices :
          (/\ invoices[i] # None
           /\ invoices[j] # None
           /\ invoices[i].vendor_id = invoices[j].vendor_id
           /\ invoices[i].invoice_number = invoices[j].invoice_number) => i = j

(* Payment settles a delivered order: an invoice is PAID exactly when its  *)
(* order is CLOSED, and then every line ordered has arrived.               *)
PaidMeansDelivered ==
    \A i \in Invoices : invoices[i] # None =>
        LET po == purchase_orders[invoices[i].purchase_order_id]
        IN  /\ invoices[i].status = "PAID" <=> po.status = "CLOSED"
            /\ invoices[i].status = "PAID" => FullyReceived(po)

(* The ledger holds, for each invoice, the one balanced pair of the        *)
(* approval that stamped it, and nothing before it is approved.            *)
PostedOnce ==
    \A i \in Invoices :
        PostedFor(i) =
            IF invoices[i] # None /\ invoices[i].status \in {"APPROVED", "PAID"}
            THEN BalancedGLEntries(invoices[i].approved_at, i, invoices[i].invoice_amount)
            ELSE {}

(* Three-way match: what was once matched stays covered by the goods       *)
(* received, so that a repeated match never turns it BLOCKED, and an       *)
(* invoice above the value of its order is never matched.                  *)
MatchedStaysCovered ==
    \A i \in Invoices : (invoices[i] # None /\ invoices[i].status # "PENDING") =>
        LET po == purchase_orders[invoices[i].purchase_order_id]
        IN  /\ invoices[i].last_match_outcome \in {"MATCHED_WITH_WARNING", "MATCHED"}
            /\ invoices[i].invoice_amount <= ReceivedValue(po)
            /\ ReceivedValue(po) <= OrderedValue(po)

(* No breach goes unseen: a vendor above its limit has an active alert, or *)
(* a check that has not completed.                                         *)
NoSilentBreach ==
    \A v \in Vendors : Exposure(invoices, v) > CreditLimit[v] =>
        \/ credit_alerts[v] # None
        \/ \E k \in Keys : /\ credit_checks[k] # None
                           /\ credit_checks[k].vendor_id = v
                           /\ credit_checks[k].status = "PENDING"

(* A retry of a recorded request is answered with success, whatever has    *)
(* happened since, with one exception: the approval of a paid invoice.     *)
ReplayFailsOnlyOncePaid ==
    \A k \in Keys : (Recorded(k) /\ Replay(k) # "OK") =>
        /\ idempotency_keys[k].request.operation = "invoice.approve"
        /\ invoices[idempotency_keys[k].resource_id].status = "PAID"

(* The same without the exception. *)
EveryRetrySucceeds == \A k \in Keys : Recorded(k) => Replay(k) = "OK"

OrderRank(s) == CASE s = "DRAFT" -> 0 [] s = "SUBMITTED" -> 1
                  [] s = "RECEIVED" -> 2 [] s = "CLOSED" -> 3
InvoiceRank(s) == CASE s = "PENDING" -> 0 [] s = "MATCHED" -> 1
                    [] s = "APPROVED" -> 2 [] s = "PAID" -> 3

OrderAdvances(p) ==
    LET old == purchase_orders[p]
        new == purchase_orders'[p]
    IN  old # None =>
          /\ new # None
          /\ OrderRank(old.status) <= OrderRank(new.status)
          /\ old.invoice_id # None => new.invoice_id = old.invoice_id
          /\ \A l \in Lines : old.qty_received[l] <= new.qty_received[l]

InvoiceAdvances(i) ==
    LET old == invoices[i]
        new == invoices'[i]
    IN  old # None =>
          /\ new # None
          /\ InvoiceRank(old.status) <= InvoiceRank(new.status)
          /\ InvoiceRank(new.status) <= InvoiceRank(old.status) + 1
          /\ old.approved_at # None => new.approved_at = old.approved_at
          /\ old.paid_at # None => new = old

(* Documents only move forward: no step takes a status back or skips one   *)
(* of an invoice, unlinks an invoice, takes goods back, restamps an        *)
(* approval, or touches a paid invoice.                                    *)
DocumentsOnlyAdvance ==
    [][/\ \A p \in PurchaseOrders : OrderAdvances(p)
       /\ \A i \in Invoices : InvoiceAdvances(i)]_vars
=============================================================================
