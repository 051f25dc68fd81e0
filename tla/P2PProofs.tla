---------------------------- MODULE P2PProofs ----------------------------
(***************************************************************************)
(* Proofs about P2P, for every set of vendors, orders, invoices and keys:  *)
(* that tables hold rows and goods are never over-received; and, about the *)
(* way of an order and its invoice, that they stay linked, that the stages *)
(* of an invoice agree with the order, with the ledger and with their time *)
(* stamps, and that no step goes back.                                     *)
(***************************************************************************)
EXTENDS P2P, TLAPS

(* The domain rules return rows: whatever they do not refuse, what they    *)
(* make of a row of the table is again a row of the table.                 *)
LEMMA OrderRulesReturnRows ==
    /\ \A v \in VendorIds, order \in Orders, k \in Keys :
          OrderRefusal(v, order) = "OK" => DraftPurchaseOrder(v, order, k) \in PurchaseOrder
    /\ \A po \in PurchaseOrder, k \in Keys : Submitted(po, k) \in PurchaseOrder
    /\ \A po \in PurchaseOrder, delivery \in Deliveries : Received(po, delivery) \in PurchaseOrder
    /\ \A po \in PurchaseOrder : Closed(po) \in PurchaseOrder
<1> USE DEF PurchaseOrder, PurchaseOrderStatuses
<1>1. ASSUME NEW v \in VendorIds, NEW order \in Orders, NEW k \in Keys,
             OrderRefusal(v, order) = "OK"
      PROVE  DraftPurchaseOrder(v, order, k) \in PurchaseOrder
  <2>1. v \in Vendors
    BY <1>1 DEF OrderRefusal
  <2>2. order \in [qty_ordered : LineQuantities, unit_cost : LineQuantities]
    BY OrdersAssumption
  <2>3. [l \in Lines |-> 0] \in LineQuantities
    BY DEF LineQuantities
  <2> QED
    BY <2>1, <2>2, <2>3 DEF DraftPurchaseOrder
<1>2. ASSUME NEW po \in PurchaseOrder, NEW k \in Keys
      PROVE  Submitted(po, k) \in PurchaseOrder
  BY <1>2 DEF Submitted
<1>3. ASSUME NEW po \in PurchaseOrder, NEW delivery \in Deliveries
      PROVE  Received(po, delivery) \in PurchaseOrder
  <2>1. [l \in Lines |-> po.qty_received[l] + delivery[l]] \in LineQuantities
    BY <1>3, DeliveriesAssumption DEF LineQuantities
  <2> QED
    BY <1>3, <2>1 DEF Received
<1>4. ASSUME NEW po \in PurchaseOrder
      PROVE  Closed(po) \in PurchaseOrder
  BY <1>4 DEF Closed
<1> QED
  BY <1>1, <1>2, <1>3, <1>4

(* The invoice rules return rows too: a pending, matched, approved or paid *)
(* invoice fits the table.                                                 *)
LEMMA InvoiceRulesReturnRows ==
    /\ \A v \in Vendors, p \in PurchaseOrders, number \in InvoiceNumbers, amount \in Amounts :
          PendingInvoice(v, p, number, amount) \in Invoice
    /\ \A inv \in Invoice, outcome \in MatchOutcomes, k \in Keys :
          Matched(inv, outcome, k) \in Invoice
    /\ \A inv \in Invoice, k \in Keys : Approved(inv, k) \in Invoice /\ Paid(inv, k) \in Invoice
BY DEF Invoice, InvoiceStatuses, MatchOutcomes, PendingInvoice, Matched, Approved, Paid

(* A match has one of three outcomes, never NONE.                          *)
LEMMA MatchOutcomeType ==
    \A amount, po : MatchOutcome(amount, po) \in {"BLOCKED", "MATCHED_WITH_WARNING", "MATCHED"}
BY DEF MatchOutcome

(* A match always tells the client what to do next.                        *)
LEMMA NextActionType ==
    \A amount, po :
        NextAction(amount, po) \in {"PROCEED_TO_APPROVAL", "WAIT_FOR_RECEIPT", "CORRECT_INVOICE"}
BY DEF NextAction

(* The entries an approval posts fit the ledger.                           *)
LEMMA EntriesType ==
    \A k \in Keys, i \in Invoices, amount \in Amounts :
        BalancedGLEntries(k, i, amount) \subseteq GLEntry
BY AmountsAssumption DEF BalancedGLEntries, GLEntry

(* Records of the idempotency table and pending checks are well typed.     *)
LEMMA RecordType ==
    ASSUME TypeOK, NEW k \in Keys, NEW request \in Request,
           NEW id \in PurchaseOrders \cup Invoices \cup Keys, Record(k, request, id)
    PROVE  idempotency_keys' \in [Keys -> IdempotencyRecord \cup {None}]
BY DEF TypeOK, Record, IdempotencyRecord

(* Starting a check leaves the three credit tables well typed.             *)
LEMMA StartCreditCheckType ==
    ASSUME TypeOK, NEW k \in Keys, NEW v \in Vendors, NEW i \in Invoices,
           NEW action \in {"CREATE", "APPROVE"}, NEW channel,
           StartCreditCheck(k, v, i, action, channel)
    PROVE  /\ credit_checks' \in [Keys -> CreditCheck \cup {None}]
           /\ credit_alerts' \in [Vendors -> CreditAlert \cup {None}]
           /\ background_tasks' \in SUBSET Keys
BY DEF TypeOK, StartCreditCheck, CreditCheck

-----------------------------------------------------------------------------
(* The handlers of orders keep every table well typed.                     *)
LEMMA OrderStepType ==
    ASSUME TypeOK, NEW k \in Keys, OrderStep(k)
    PROVE  TypeOK'
<1> USE DEF documents, history, credit
<1>1. PICK p \in PurchaseOrders :
        \/ \E v \in VendorIds, order \in Orders : CreatePurchaseOrder(k, v, order, p)
        \/ SubmitPurchaseOrder(k, p)
        \/ \E delivery \in Deliveries : ReceiveGoods(k, p, delivery)
  BY DEF OrderStep
<1>2. CASE \E v \in VendorIds, order \in Orders : CreatePurchaseOrder(k, v, order, p)
  <2>1. PICK v \in VendorIds, order \in Orders : CreatePurchaseOrder(k, v, order, p)
    BY <1>2
  <2>2. idempotency_keys' \in [Keys -> IdempotencyRecord \cup {None}]
    <3>1. CreateOrderRequest(v, order) \in Request
      BY DEF CreateOrderRequest, Request
    <3> QED
      BY <2>1, <3>1, RecordType DEF CreatePurchaseOrder
  <2> QED
    BY <2>1, <2>2, OrderRulesReturnRows DEF TypeOK, CreatePurchaseOrder
<1>3. CASE SubmitPurchaseOrder(k, p)
  <2>1. purchase_orders[p] \in PurchaseOrder
    BY <1>3 DEF TypeOK, SubmitPurchaseOrder, SubmitRefusal
  <2>2. idempotency_keys' \in [Keys -> IdempotencyRecord \cup {None}]
    <3>1. [operation |-> "purchase_order.submit", purchase_order_id |-> p] \in Request
      BY DEF Request
    <3> QED
      BY <1>3, <3>1, RecordType DEF SubmitPurchaseOrder
  <2> QED
    BY <1>3, <2>1, <2>2, OrderRulesReturnRows DEF TypeOK, SubmitPurchaseOrder
<1>4. CASE \E delivery \in Deliveries : ReceiveGoods(k, p, delivery)
  <2>1. PICK delivery \in Deliveries : ReceiveGoods(k, p, delivery)
    BY <1>4
  <2>2. purchase_orders[p] \in PurchaseOrder
    BY <2>1 DEF TypeOK, ReceiveGoods, ReceiptRefusal
  <2>3. idempotency_keys' \in [Keys -> IdempotencyRecord \cup {None}]
    <3>1. ReceiveRequest(p, delivery) \in Request
      BY DEF ReceiveRequest, Request
    <3> QED
      BY <2>1, <3>1, RecordType DEF ReceiveGoods
  <2>4. [po_id |-> p, line_items |-> delivery] \in GoodsReceipt
    BY DeliveriesAssumption DEF GoodsReceipt
  <2> QED
    BY <2>1, <2>2, <2>3, <2>4, OrderRulesReturnRows DEF TypeOK, ReceiveGoods
<1> QED
  BY <1>1, <1>2, <1>3, <1>4

(* The invoice a handler acts on, and its order, are rows.                 *)
LEMMA InvoiceRowFound ==
    ASSUME TypeOK, NEW i \in Invoices, invoices[i] # None
    PROVE  /\ invoices[i] \in Invoice
           /\ invoices[i].vendor_id \in Vendors
           /\ invoices[i].purchase_order_id \in PurchaseOrders
           /\ invoices[i].invoice_amount \in Amounts
BY DEF TypeOK, Invoice

(* So does the handler that creates an invoice ...                         *)
LEMMA CreateInvoiceType ==
    ASSUME TypeOK, NEW k \in Keys, NEW v \in VendorIds, NEW p \in PurchaseOrders,
           NEW number \in InvoiceNumbers, NEW amount \in Amounts, NEW i \in Invoices,
           NEW channel \in Channels, CreateInvoice(k, v, p, number, amount, i, channel)
    PROVE  TypeOK'
<1> USE DEF documents, history
<1>1. v \in Vendors /\ purchase_orders[p] \in PurchaseOrder
  BY DEF TypeOK, CreateInvoice, InvoiceRefusal
<1>2. PendingInvoice(v, p, number, amount) \in Invoice
  BY <1>1, InvoiceRulesReturnRows
<1>3. purchase_orders' \in [PurchaseOrders -> PurchaseOrder \cup {None}]
  <2>1. [purchase_orders[p] EXCEPT !.invoice_id = i] \in PurchaseOrder
    BY <1>1 DEF PurchaseOrder
  <2> QED
    BY <2>1 DEF TypeOK, CreateInvoice
<1>4. /\ credit_checks' \in [Keys -> CreditCheck \cup {None}]
      /\ credit_alerts' \in [Vendors -> CreditAlert \cup {None}]
      /\ background_tasks' \in SUBSET Keys
  BY <1>1, StartCreditCheckType DEF CreateInvoice
<1>5. idempotency_keys' \in [Keys -> IdempotencyRecord \cup {None}]
  <2>1. CreateInvoiceRequest(v, p, number, amount) \in Request
    BY DEF CreateInvoiceRequest, Request
  <2> QED
    BY <2>1, RecordType DEF CreateInvoice
<1> QED
  BY <1>2, <1>3, <1>4, <1>5 DEF TypeOK, CreateInvoice

(* ... the one that matches it ...                                         *)
LEMMA MatchInvoiceType ==
    ASSUME TypeOK, NEW k \in Keys, NEW i \in Invoices, MatchInvoice(k, i)
    PROVE  TypeOK'
<1> USE DEF documents, history, credit
<1> DEFINE po == purchase_orders[invoices[i].purchase_order_id]
           outcome == MatchOutcome(invoices[i].invoice_amount, po)
           next == NextAction(invoices[i].invoice_amount, po)
<1>1. invoices[i] \in Invoice
  BY InvoiceRowFound DEF MatchInvoice
<1>2. outcome \in MatchOutcomes
  BY MatchOutcomeType DEF MatchOutcomes
<1>3. Matched(invoices[i], outcome, k) \in Invoice
  BY <1>1, <1>2, InvoiceRulesReturnRows
<1>4. [invoice_id |-> i, outcome |-> outcome, next_action |-> next] \in MatchSnapshot
  BY <1>2, NextActionType DEF MatchSnapshot
<1>5. idempotency_keys' \in [Keys -> IdempotencyRecord \cup {None}]
  <2>1. [operation |-> "invoice.match", invoice_id |-> i] \in Request
    BY DEF Request
  <2> QED
    BY <2>1, RecordType DEF MatchInvoice
<1> QED
  BY <1>3, <1>4, <1>5 DEF TypeOK, MatchInvoice

(* ... the one that approves it and posts to the ledger ...                *)
LEMMA ApproveInvoiceType ==
    ASSUME TypeOK, NEW k \in Keys, NEW i \in Invoices, NEW channel \in Channels,
           ApproveInvoice(k, i, channel)
    PROVE  TypeOK'
<1> USE DEF documents, history
<1>1. invoices[i] # None
  BY DEF ApproveInvoice, ApprovalRefusal
<1>2. /\ invoices[i] \in Invoice
      /\ invoices[i].vendor_id \in Vendors
      /\ invoices[i].invoice_amount \in Amounts
  BY <1>1, InvoiceRowFound
<1>3. Approved(invoices[i], k) \in Invoice
  BY <1>2, InvoiceRulesReturnRows
<1>4. BalancedGLEntries(k, i, invoices[i].invoice_amount) \subseteq GLEntry
  BY <1>2, EntriesType
<1>5. /\ credit_checks' \in [Keys -> CreditCheck \cup {None}]
      /\ credit_alerts' \in [Vendors -> CreditAlert \cup {None}]
      /\ background_tasks' \in SUBSET Keys
  BY <1>2, StartCreditCheckType DEF ApproveInvoice
<1>6. idempotency_keys' \in [Keys -> IdempotencyRecord \cup {None}]
  <2>1. [operation |-> "invoice.approve", invoice_id |-> i] \in Request
    BY DEF Request
  <2> QED
    BY <2>1, RecordType DEF ApproveInvoice
<1> QED
  BY <1>3, <1>4, <1>5, <1>6 DEF TypeOK, ApproveInvoice

(* ... and the one that pays it and closes the order.                      *)
LEMMA PayInvoiceType ==
    ASSUME TypeOK, NEW k \in Keys, NEW i \in Invoices, PayInvoice(k, i)
    PROVE  TypeOK'
<1> USE DEF documents, history, credit
<1>1. /\ invoices[i] \in Invoice
      /\ invoices[i].purchase_order_id \in PurchaseOrders
  BY InvoiceRowFound DEF PayInvoice
<1>2. purchase_orders[invoices[i].purchase_order_id] \in PurchaseOrder
  BY <1>1 DEF TypeOK, PayInvoice, PaymentRefusal
<1>3. /\ Paid(invoices[i], k) \in Invoice
      /\ Closed(purchase_orders[invoices[i].purchase_order_id]) \in PurchaseOrder
  BY <1>1, <1>2, InvoiceRulesReturnRows, OrderRulesReturnRows
<1>4. idempotency_keys' \in [Keys -> IdempotencyRecord \cup {None}]
  <2>1. [operation |-> "invoice.pay", invoice_id |-> i] \in Request
    BY DEF Request
  <2> QED
    BY <2>1, RecordType DEF PayInvoice
<1> QED
  BY <1>1, <1>3, <1>4 DEF TypeOK, PayInvoice

-----------------------------------------------------------------------------
(* A background task is always about a check that exists.                  *)
TasksHaveChecks == \A k \in background_tasks : credit_checks[k] # None

(* A dispatched check writes well-typed checks and alerts.                 *)
LEMMA DispatchType ==
    ASSUME TypeOK, TasksHaveChecks, NEW k \in Keys, DispatchCreditCheck(k)
    PROVE  TypeOK'
<1> USE DEF documents, history
<1>1. credit_checks[k] \in CreditCheck
  BY DEF TypeOK, TasksHaveChecks, DispatchCreditCheck
<1>2. credit_checks' \in [Keys -> CreditCheck \cup {None}]
  BY <1>1 DEF TypeOK, DispatchCreditCheck, RunCreditCheck, CreditCheck
<1>3. credit_alerts' \in [Vendors -> CreditAlert \cup {None}]
  BY <1>1 DEF TypeOK, DispatchCreditCheck, RunCreditCheck, CreditCheck, CreditAlert
<1> QED
  BY <1>2, <1>3 DEF TypeOK, DispatchCreditCheck

(* No step queues a task without its check, or deletes a check.            *)
LEMMA TasksHaveChecksStep ==
    ASSUME TypeOK, TasksHaveChecks, [Next]_vars
    PROVE  TasksHaveChecks'
<1> USE DEF TasksHaveChecks, credit
<1>1. ASSUME NEW k \in Keys, OrderStep(k) PROVE TasksHaveChecks'
  BY <1>1 DEF OrderStep, CreatePurchaseOrder, SubmitPurchaseOrder, ReceiveGoods
<1>2. ASSUME NEW k \in Keys, NEW v \in Vendors, NEW i \in Invoices,
             NEW action \in {"CREATE", "APPROVE"}, NEW channel,
             StartCreditCheck(k, v, i, action, channel)
      PROVE  TasksHaveChecks'
  <2>1. [vendor_id |-> v, triggering_invoice_id |-> i, triggering_action |-> action,
         status |-> "PENDING", alert_id |-> None] # None
    BY NoneIsNoRow DEF CreditCheck
  <2> QED
    BY <1>2, <2>1 DEF StartCreditCheck, TypeOK
<1>3. ASSUME NEW k \in Keys, InvoiceStep(k) PROVE TasksHaveChecks'
  <2>1. ASSUME NEW v \in VendorIds, NEW p \in PurchaseOrders, NEW number \in InvoiceNumbers,
               NEW amount \in Amounts, NEW i \in Invoices, NEW channel \in Channels,
               CreateInvoice(k, v, p, number, amount, i, channel)
        PROVE  TasksHaveChecks'
    <3>1. v \in Vendors
      BY <2>1 DEF CreateInvoice, InvoiceRefusal
    <3> QED
      BY <1>2, <2>1, <3>1 DEF CreateInvoice
  <2>2. ASSUME NEW i \in Invoices, NEW channel \in Channels, ApproveInvoice(k, i, channel)
        PROVE  TasksHaveChecks'
    <3>1. invoices[i].vendor_id \in Vendors
      BY <2>2, InvoiceRowFound DEF ApproveInvoice, ApprovalRefusal
    <3> QED
      BY <1>2, <2>2, <3>1 DEF ApproveInvoice
  <2> QED
    BY <1>3, <2>1, <2>2 DEF InvoiceStep, MatchInvoice, PayInvoice
<1>4. ASSUME NEW k \in Keys, DispatchCreditCheck(k) \/ CreditCheckFails(k)
      PROVE  TasksHaveChecks'
  BY <1>4 DEF TypeOK, DispatchCreditCheck, CreditCheckFails, RunCreditCheck
<1>5. CASE Restart
  BY <1>5 DEF Restart
<1>6. CASE UNCHANGED vars
  BY <1>6 DEF vars
<1> QED
  BY <1>1, <1>3, <1>4, <1>5, <1>6 DEF Next

(* Every step keeps every table well typed.                                *)
LEMMA TypeStep ==
    ASSUME TypeOK, TasksHaveChecks, [Next]_vars
    PROVE  TypeOK'
<1>1. ASSUME NEW k \in Keys, OrderStep(k) PROVE TypeOK'
  BY <1>1, OrderStepType
<1>2. ASSUME NEW k \in Keys, InvoiceStep(k) PROVE TypeOK'
  BY <1>2, CreateInvoiceType, MatchInvoiceType, ApproveInvoiceType, PayInvoiceType
  DEF InvoiceStep
<1>3. ASSUME NEW k \in Keys, DispatchCreditCheck(k) PROVE TypeOK'
  BY <1>3, DispatchType
<1>4. ASSUME NEW k \in Keys, CreditCheckFails(k) PROVE TypeOK'
  BY <1>4 DEF TypeOK, CreditCheckFails, documents, history
<1>5. CASE Restart
  BY <1>5 DEF TypeOK, Restart, documents, history
<1>6. CASE UNCHANGED vars
  BY <1>6 DEF TypeOK, vars, documents, history, credit
<1> QED
  BY <1>1, <1>2, <1>3, <1>4, <1>5, <1>6 DEF Next

(* Type correctness: in every reachable state every table holds only rows  *)
(* of its schema, and a background task is about a row of credit_checks.   *)
THEOREM TypeCorrect == Spec => [](TypeOK /\ TasksHaveChecks)
<1>1. Init => TypeOK /\ TasksHaveChecks
  BY DEF Init, TypeOK, TasksHaveChecks
<1>2. TypeOK /\ TasksHaveChecks /\ [Next]_vars => (TypeOK /\ TasksHaveChecks)'
  BY TypeStep, TasksHaveChecksStep
<1> QED
  BY <1>1, <1>2, PTL DEF Spec

-----------------------------------------------------------------------------
(* The steps, as far as orders, invoices and the ledger are concerned:     *)
(* every other step leaves the three tables alone.                         *)
LEMMA StepCases ==
    ASSUME [Next]_vars
    PROVE  \/ UNCHANGED <<purchase_orders, invoices, gl_entries>>
           \/ \E k \in Keys, p \in PurchaseOrders :
                 \/ \E v \in VendorIds, order \in Orders : CreatePurchaseOrder(k, v, order, p)
                 \/ SubmitPurchaseOrder(k, p)
                 \/ \E delivery \in Deliveries : ReceiveGoods(k, p, delivery)
           \/ \E k \in Keys, i \in Invoices :
                 \/ \E v \in VendorIds, p \in PurchaseOrders, number \in InvoiceNumbers,
                       amount \in Amounts, channel \in Channels :
                       CreateInvoice(k, v, p, number, amount, i, channel)
                 \/ MatchInvoice(k, i)
                 \/ \E channel \in Channels : ApproveInvoice(k, i, channel)
                 \/ PayInvoice(k, i)
BY DEF Next, OrderStep, InvoiceStep, DispatchCreditCheck, CreditCheckFails, Restart,
       vars, documents, history

(* What an accepted receipt guarantees: no line of the order goes above    *)
(* its quantity, and the order is RECEIVED only when all of it is there.   *)
LEMMA ReceiptWithinOrder ==
    ASSUME NEW po \in PurchaseOrder, NEW delivery \in Deliveries,
           ReceiptRefusal(po, delivery) = "OK",
           \A l \in Lines : po.qty_received[l] <= po.qty_ordered[l]
    PROVE  /\ \A l \in Lines :
                 Received(po, delivery).qty_received[l] <= Received(po, delivery).qty_ordered[l]
           /\ Received(po, delivery).status \in {"SUBMITTED", "RECEIVED"}
           /\ Received(po, delivery).status = "RECEIVED" => FullyReceived(Received(po, delivery))
           /\ Received(po, delivery).invoice_id = po.invoice_id
           /\ Received(po, delivery).vendor_id = po.vendor_id
<1> DEFINE received == [l \in Lines |-> po.qty_received[l] + delivery[l]]
<1>1. delivery \in LineQuantities
  BY DeliveriesAssumption
<1>2. /\ Received(po, delivery).qty_received = received
      /\ Received(po, delivery).qty_ordered = po.qty_ordered
      /\ Received(po, delivery).invoice_id = po.invoice_id
      /\ Received(po, delivery).vendor_id = po.vendor_id
      /\ Received(po, delivery).status =
            IF \A l \in Lines : received[l] = po.qty_ordered[l] THEN "RECEIVED" ELSE "SUBMITTED"
  BY DEF Received, PurchaseOrder
<1>3. ASSUME NEW l \in Lines PROVE received[l] <= po.qty_ordered[l]
  <2>1. po.qty_received[l] \in Nat /\ po.qty_ordered[l] \in Nat /\ delivery[l] \in Nat
    BY <1>1 DEF PurchaseOrder, LineQuantities
  <2>2. CASE po.qty_ordered[l] > 0
    BY <2>1, <2>2 DEF ReceiptRefusal
  <2>3. CASE po.qty_ordered[l] = 0
    <3>1. delivery[l] = 0
      BY <2>1, <2>3 DEF ReceiptRefusal
    <3> QED
      BY <2>1, <3>1
  <2> QED
    BY <2>1, <2>2, <2>3
<1> HIDE DEF received
<1> QED
  BY <1>2, <1>3 DEF FullyReceived

(* No step over-receives an order.                                         *)
LEMMA NeverOverReceivedStep ==
    ASSUME TypeOK, NeverOverReceived, [Next]_vars
    PROVE  NeverOverReceived'
<1> USE DEF NeverOverReceived, FullyReceived
<1>1. CASE UNCHANGED <<purchase_orders, invoices, gl_entries>>
  BY <1>1
<1>2. ASSUME NEW k \in Keys, NEW p \in PurchaseOrders, NEW v \in VendorIds, NEW order \in Orders,
             CreatePurchaseOrder(k, v, order, p)
      PROVE  NeverOverReceived'
  <2>1. order.qty_ordered \in LineQuantities
    BY OrdersAssumption
  <2> QED
    BY <1>2, <2>1 DEF TypeOK, CreatePurchaseOrder, DraftPurchaseOrder, LineQuantities
<1>3. ASSUME NEW k \in Keys, NEW p \in PurchaseOrders, SubmitPurchaseOrder(k, p)
      PROVE  NeverOverReceived'
  BY <1>3 DEF TypeOK, SubmitPurchaseOrder, SubmitRefusal, Submitted, PurchaseOrder
<1>4. ASSUME NEW k \in Keys, NEW p \in PurchaseOrders, NEW delivery \in Deliveries,
             ReceiveGoods(k, p, delivery)
      PROVE  NeverOverReceived'
  <2>1. /\ purchase_orders[p] # None
        /\ purchase_orders[p] \in PurchaseOrder
        /\ ReceiptRefusal(purchase_orders[p], delivery) = "OK"
    BY <1>4 DEF TypeOK, ReceiveGoods, ReceiptRefusal
  <2>2. purchase_orders' = [purchase_orders EXCEPT ![p] = Received(purchase_orders[p], delivery)]
    BY <1>4 DEF ReceiveGoods
  <2>3. \A l \in Lines : purchase_orders[p].qty_received[l] <= purchase_orders[p].qty_ordered[l]
    BY <2>1
  <2> QED
    BY <2>1, <2>2, <2>3, ReceiptWithinOrder DEF TypeOK
<1>5. ASSUME NEW k \in Keys, NEW i \in Invoices, NEW v \in VendorIds, NEW p \in PurchaseOrders,
             NEW number \in InvoiceNumbers, NEW amount \in Amounts, NEW channel \in Channels,
             CreateInvoice(k, v, p, number, amount, i, channel)
      PROVE  NeverOverReceived'
  BY <1>5 DEF TypeOK, CreateInvoice, InvoiceRefusal, PurchaseOrder
<1>6. ASSUME NEW k \in Keys, NEW i \in Invoices, MatchInvoice(k, i)
      PROVE  NeverOverReceived'
  BY <1>6 DEF MatchInvoice
<1>7. ASSUME NEW k \in Keys, NEW i \in Invoices, NEW channel \in Channels,
             ApproveInvoice(k, i, channel)
      PROVE  NeverOverReceived'
  BY <1>7 DEF ApproveInvoice
<1>8. ASSUME NEW k \in Keys, NEW i \in Invoices, PayInvoice(k, i)
      PROVE  NeverOverReceived'
  <2>1. invoices[i].purchase_order_id \in PurchaseOrders
    BY <1>8, InvoiceRowFound DEF PayInvoice
  <2> QED
    BY <1>8, <2>1 DEF TypeOK, PayInvoice, PaymentRefusal, Closed, PurchaseOrder
<1> QED
  BY <1>1, <1>2, <1>3, <1>4, <1>5, <1>6, <1>7, <1>8, StepCases

(* No order of the system is ever over-received.                           *)
THEOREM NothingOverReceived == Spec => []NeverOverReceived
<1>1. Init => NeverOverReceived
  BY DEF Init, NeverOverReceived
<1>2. TypeOK /\ TasksHaveChecks /\ NeverOverReceived /\ [Next]_vars => NeverOverReceived'
  BY NeverOverReceivedStep
<1> QED
  BY <1>1, <1>2, TypeCorrect, PTL DEF Spec

-----------------------------------------------------------------------------
(* What a request does to the credit tables: nothing, or insert its own    *)
(* PENDING check.                                                          *)
LEMMA RequestStartsOwnCheck ==
    ASSUME TypeOK, NEW k \in Keys, OrderStep(k) \/ InvoiceStep(k)
    PROVE  /\ ~Recorded(k)
           /\ Recorded(k)'
           /\ \A j \in Keys \ {k} : Recorded(j)' <=> Recorded(j)
           /\ UNCHANGED credit_alerts
           /\ \/ UNCHANGED <<credit_checks, background_tasks>>
              \/ \E v \in Vendors, i \in Invoices, action \in {"CREATE", "APPROVE"},
                    channel \in Channels : StartCreditCheck(k, v, i, action, channel)
<1> DEFINE Records ==
      /\ ~Recorded(k)
      /\ \E request \in Request, id \in PurchaseOrders \cup Invoices \cup Keys :
            Record(k, request, id)
    Starts ==
      \E v \in Vendors, i \in Invoices, action \in {"CREATE", "APPROVE"},
         channel \in Channels : StartCreditCheck(k, v, i, action, channel)
<1>1. ASSUME NEW p \in PurchaseOrders, NEW v \in VendorIds, NEW order \in Orders,
             CreatePurchaseOrder(k, v, order, p)
      PROVE  Records /\ UNCHANGED credit
  <2>1. CreateOrderRequest(v, order) \in Request
    BY DEF Request, CreateOrderRequest
  <2> QED
    BY <1>1, <2>1 DEF CreatePurchaseOrder
<1>2. ASSUME NEW p \in PurchaseOrders, SubmitPurchaseOrder(k, p)
      PROVE  Records /\ UNCHANGED credit
  <2>1. [operation |-> "purchase_order.submit", purchase_order_id |-> p] \in Request
    BY DEF Request
  <2> QED
    BY <1>2, <2>1 DEF SubmitPurchaseOrder
<1>3. ASSUME NEW p \in PurchaseOrders, NEW delivery \in Deliveries, ReceiveGoods(k, p, delivery)
      PROVE  Records /\ UNCHANGED credit
  <2>1. ReceiveRequest(p, delivery) \in Request
    BY DEF Request, ReceiveRequest
  <2> QED
    BY <1>3, <2>1 DEF ReceiveGoods
<1>4. ASSUME NEW i \in Invoices, NEW v \in VendorIds, NEW p \in PurchaseOrders,
             NEW number \in InvoiceNumbers, NEW amount \in Amounts, NEW channel \in Channels,
             CreateInvoice(k, v, p, number, amount, i, channel)
      PROVE  Records /\ Starts
  <2>1. CreateInvoiceRequest(v, p, number, amount) \in Request
    BY DEF Request, CreateInvoiceRequest
  <2>2. v \in Vendors
    BY <1>4 DEF CreateInvoice, InvoiceRefusal
  <2> QED
    BY <1>4, <2>1, <2>2 DEF CreateInvoice
<1>5. ASSUME NEW i \in Invoices, MatchInvoice(k, i)
      PROVE  Records /\ UNCHANGED credit
  <2>1. [operation |-> "invoice.match", invoice_id |-> i] \in Request
    BY DEF Request
  <2> QED
    BY <1>5, <2>1 DEF MatchInvoice
<1>6. ASSUME NEW i \in Invoices, NEW channel \in Channels, ApproveInvoice(k, i, channel)
      PROVE  Records /\ Starts
  <2>1. [operation |-> "invoice.approve", invoice_id |-> i] \in Request
    BY DEF Request
  <2>2. invoices[i].vendor_id \in Vendors
    BY <1>6, InvoiceRowFound DEF ApproveInvoice, ApprovalRefusal
  <2> QED
    BY <1>6, <2>1, <2>2 DEF ApproveInvoice
<1>7. ASSUME NEW i \in Invoices, PayInvoice(k, i)
      PROVE  Records /\ UNCHANGED credit
  <2>1. [operation |-> "invoice.pay", invoice_id |-> i] \in Request
    BY DEF Request
  <2> QED
    BY <1>7, <2>1 DEF PayInvoice
<1>8. Records /\ (UNCHANGED credit \/ Starts)
  BY <1>1, <1>2, <1>3, <1>4, <1>5, <1>6, <1>7 DEF OrderStep, InvoiceStep
<1>9. PICK request \in Request, id \in PurchaseOrders \cup Invoices \cup Keys :
        Record(k, request, id)
  BY <1>8
<1>10. [request |-> request, resource_id |-> id] # None
  BY NoneIsNoRow DEF IdempotencyRecord
<1>11. idempotency_keys' = [idempotency_keys EXCEPT ![k] = [request |-> request, resource_id |-> id]]
  BY <1>9 DEF Record
<1>12. Recorded(k)' /\ \A j \in Keys \ {k} : Recorded(j)' <=> Recorded(j)
  BY <1>10, <1>11 DEF Recorded, TypeOK
<1> QED
  BY <1>8, <1>12 DEF StartCreditCheck, credit

(* A check is inserted with the record of its request, and stays.          *)
ChecksHaveRequests == \A k \in Keys : credit_checks[k] # None => Recorded(k)

(* A dispatch changes no record of a request and removes no check.         *)
LEMMA ChecksHaveRequestsStep ==
    ASSUME TypeOK, TasksHaveChecks, ChecksHaveRequests, [Next]_vars
    PROVE  ChecksHaveRequests'
<1> USE DEF ChecksHaveRequests
<1>1. ASSUME NEW k \in Keys, OrderStep(k) \/ InvoiceStep(k)
      PROVE  ChecksHaveRequests'
  <2>1. \A j \in Keys \ {k} : credit_checks'[j] = credit_checks[j]
    BY <1>1, RequestStartsOwnCheck DEF StartCreditCheck, TypeOK
  <2> QED
    BY <1>1, <2>1, RequestStartsOwnCheck
<1>2. ASSUME NEW k \in Keys, DispatchCreditCheck(k)
      PROVE  ChecksHaveRequests'
  <2>1. \A j \in Keys \ {k} : credit_checks'[j] = credit_checks[j]
    BY <1>2 DEF DispatchCreditCheck, RunCreditCheck, TypeOK
  <2>2. credit_checks[k] # None /\ UNCHANGED idempotency_keys
    BY <1>2 DEF DispatchCreditCheck, TasksHaveChecks
  <2> QED
    BY <2>1, <2>2 DEF Recorded
<1>3. ASSUME NEW k \in Keys, CreditCheckFails(k) PROVE ChecksHaveRequests'
  BY <1>3 DEF CreditCheckFails, Recorded
<1>4. Restart \/ UNCHANGED vars => ChecksHaveRequests'
  BY DEF Restart, vars, credit, Recorded
<1> QED
  BY <1>1, <1>2, <1>3, <1>4 DEF Next

-----------------------------------------------------------------------------
(* The way of an order and its invoice                                     *)

(* The order of an invoice is a row, and has the invoice.                  *)
LEMMA LinkedOrder ==
    ASSUME TypeOK, InvoiceLinks, NEW i \in Invoices, invoices[i] # None
    PROVE  /\ invoices[i] \in Invoice
           /\ invoices[i].purchase_order_id \in PurchaseOrders
           /\ purchase_orders[invoices[i].purchase_order_id] \in PurchaseOrder
           /\ purchase_orders[invoices[i].purchase_order_id] # None
           /\ purchase_orders[invoices[i].purchase_order_id].invoice_id = i
<1>1. invoices[i] \in Invoice /\ invoices[i].purchase_order_id \in PurchaseOrders
  BY InvoiceRowFound
<1>2. /\ purchase_orders[invoices[i].purchase_order_id] # None
      /\ purchase_orders[invoices[i].purchase_order_id].invoice_id = i
  BY DEF InvoiceLinks
<1> QED
  BY <1>1, <1>2 DEF TypeOK

(* What identifies an order and an invoice to each other. *)
SameOrder(old, new) ==
    /\ old # None /\ new # None
    /\ new.vendor_id = old.vendor_id
    /\ new.invoice_id = old.invoice_id

SameInvoice(old, new) ==
    /\ old # None /\ new # None
    /\ new.vendor_id = old.vendor_id
    /\ new.purchase_order_id = old.purchase_order_id
    /\ new.invoice_number = old.invoice_number
    /\ new.invoice_amount = old.invoice_amount

(* The rules that take an order forward leave its identity alone.          *)
LEMMA OrderRulesKeepIdentity ==
    /\ \A po \in PurchaseOrder, k \in Keys : SameOrder(po, Submitted(po, k))
    /\ \A po \in PurchaseOrder, delivery \in Deliveries : SameOrder(po, Received(po, delivery))
    /\ \A po \in PurchaseOrder : SameOrder(po, Closed(po))
<1>1. ASSUME NEW po \in PurchaseOrder, NEW new \in PurchaseOrder,
             new.vendor_id = po.vendor_id, new.invoice_id = po.invoice_id
      PROVE  SameOrder(po, new)
  BY <1>1, NoneAssumption DEF SameOrder
<1>2. ASSUME NEW po \in PurchaseOrder, NEW k \in Keys
      PROVE  SameOrder(po, Submitted(po, k))
  <2>1. /\ Submitted(po, k).vendor_id = po.vendor_id
        /\ Submitted(po, k).invoice_id = po.invoice_id
    BY <1>2 DEF Submitted, PurchaseOrder
  <2> QED
    BY <1>1, <1>2, <2>1, OrderRulesReturnRows
<1>3. ASSUME NEW po \in PurchaseOrder, NEW delivery \in Deliveries
      PROVE  SameOrder(po, Received(po, delivery))
  <2>1. /\ Received(po, delivery).vendor_id = po.vendor_id
        /\ Received(po, delivery).invoice_id = po.invoice_id
    BY <1>3 DEF Received, PurchaseOrder
  <2> QED
    BY <1>1, <1>3, <2>1, OrderRulesReturnRows
<1>4. ASSUME NEW po \in PurchaseOrder
      PROVE  SameOrder(po, Closed(po))
  <2>1. Closed(po).vendor_id = po.vendor_id /\ Closed(po).invoice_id = po.invoice_id
    BY <1>4 DEF Closed, PurchaseOrder
  <2> QED
    BY <1>1, <1>4, <2>1, OrderRulesReturnRows
<1> QED
  BY <1>2, <1>3, <1>4

(* So do the rules that take an invoice forward.                           *)
LEMMA InvoiceRulesKeepIdentity ==
    ASSUME NEW inv \in Invoice, NEW k \in Keys
    PROVE  /\ \A outcome \in MatchOutcomes : SameInvoice(inv, Matched(inv, outcome, k))
           /\ SameInvoice(inv, Approved(inv, k))
           /\ SameInvoice(inv, Paid(inv, k))
<1>1. ASSUME NEW new \in Invoice, new.vendor_id = inv.vendor_id,
             new.purchase_order_id = inv.purchase_order_id,
             new.invoice_number = inv.invoice_number,
             new.invoice_amount = inv.invoice_amount
      PROVE  SameInvoice(inv, new)
  BY <1>1, NoneAssumption DEF SameInvoice
<1>2. ASSUME NEW outcome \in MatchOutcomes
      PROVE  SameInvoice(inv, Matched(inv, outcome, k))
  <2> DEFINE new == Matched(inv, outcome, k)
  <2>1. /\ new.vendor_id = inv.vendor_id
        /\ new.purchase_order_id = inv.purchase_order_id
        /\ new.invoice_number = inv.invoice_number
        /\ new.invoice_amount = inv.invoice_amount
    BY DEF Matched, Invoice
  <2>2. new \in Invoice
    BY <1>2, InvoiceRulesReturnRows
  <2> HIDE DEF new
  <2>3. SameInvoice(inv, new)
    BY <1>1, <2>1, <2>2
  <2> QED
    BY <2>3 DEF new
<1>3. SameInvoice(inv, Approved(inv, k))
  <2> DEFINE new == Approved(inv, k)
  <2>1. /\ new.vendor_id = inv.vendor_id
        /\ new.purchase_order_id = inv.purchase_order_id
        /\ new.invoice_number = inv.invoice_number
        /\ new.invoice_amount = inv.invoice_amount
    BY DEF Approved, Invoice
  <2>2. new \in Invoice
    BY InvoiceRulesReturnRows
  <2> HIDE DEF new
  <2>3. SameInvoice(inv, new)
    BY <1>1, <2>1, <2>2
  <2> QED
    BY <2>3 DEF new
<1>4. SameInvoice(inv, Paid(inv, k))
  <2> DEFINE new == Paid(inv, k)
  <2>1. /\ new.vendor_id = inv.vendor_id
        /\ new.purchase_order_id = inv.purchase_order_id
        /\ new.invoice_number = inv.invoice_number
        /\ new.invoice_amount = inv.invoice_amount
    BY DEF Paid, Invoice
  <2>2. new \in Invoice
    BY InvoiceRulesReturnRows
  <2> HIDE DEF new
  <2>3. SameInvoice(inv, new)
    BY <1>1, <2>1, <2>2
  <2> QED
    BY <2>3 DEF new
<1> QED
  BY <1>2, <1>3, <1>4

-----------------------------------------------------------------------------
(* A step that keeps, of every order, its vendor and its invoice, and adds *)
(* no invoice nor changes the vendor, the order or the number of one,      *)
(* keeps the links.                                                        *)
LEMMA LinksKept ==
    ASSUME TypeOK, InvoiceLinks,
           \A p \in PurchaseOrders :
              \/ purchase_orders'[p] = purchase_orders[p]
              \/ SameOrder(purchase_orders[p], purchase_orders'[p])
              \/ /\ purchase_orders[p] = None
                 /\ purchase_orders'[p].invoice_id = None,
           \A i \in Invoices :
              \/ invoices'[i] = invoices[i]
              \/ SameInvoice(invoices[i], invoices'[i])
    PROVE  InvoiceLinks'
<1>1. \A i \in Invoices : invoices[i] # None => invoices[i].purchase_order_id \in PurchaseOrders
  BY InvoiceRowFound
<1>2. \A i \in Invoices : invoices'[i] # None =>
          /\ invoices[i] # None
          /\ invoices'[i].vendor_id = invoices[i].vendor_id
          /\ invoices'[i].purchase_order_id = invoices[i].purchase_order_id
          /\ invoices'[i].invoice_number = invoices[i].invoice_number
  BY DEF SameInvoice
<1>3. ASSUME NEW i \in Invoices, invoices'[i] # None
      PROVE  LET po == purchase_orders'[invoices'[i].purchase_order_id]
             IN  po # None /\ po.invoice_id = i /\ po.vendor_id = invoices'[i].vendor_id
  <2> DEFINE p == invoices[i].purchase_order_id
  <2>1. /\ p \in PurchaseOrders
        /\ purchase_orders[p] # None
        /\ purchase_orders[p].invoice_id = i
        /\ purchase_orders[p].vendor_id = invoices[i].vendor_id
    BY <1>1, <1>2, <1>3 DEF InvoiceLinks
  <2> QED
    BY <1>2, <1>3, <2>1 DEF SameOrder
<1>4. ASSUME NEW p \in PurchaseOrders, purchase_orders'[p] # None,
             purchase_orders'[p].invoice_id # None
      PROVE  LET i == purchase_orders'[p].invoice_id
             IN  invoices'[i] # None /\ invoices'[i].purchase_order_id = p
  <2>1. /\ purchase_orders[p] # None
        /\ purchase_orders'[p].invoice_id = purchase_orders[p].invoice_id
        /\ purchase_orders[p].invoice_id \in Invoices
    BY <1>4 DEF TypeOK, PurchaseOrder, SameOrder
  <2> QED
    BY <1>4, <2>1 DEF InvoiceLinks, SameInvoice
<1>5. ASSUME NEW i \in Invoices, NEW j \in Invoices, invoices'[i] # None, invoices'[j] # None,
             invoices'[i].vendor_id = invoices'[j].vendor_id,
             invoices'[i].invoice_number = invoices'[j].invoice_number
      PROVE  i = j
  BY <1>2, <1>5 DEF InvoiceLinks
<1> QED
  BY <1>3, <1>4, <1>5 DEF InvoiceLinks

(* A new invoice of an order that had none is linked both ways, and its    *)
(* number is new to the vendor.                                            *)
LEMMA CreateInvoiceLinks ==
    ASSUME TypeOK, InvoiceLinks, NEW k \in Keys, NEW v \in VendorIds, NEW p \in PurchaseOrders,
           NEW number \in InvoiceNumbers, NEW amount \in Amounts, NEW i \in Invoices,
           NEW channel \in Channels, CreateInvoice(k, v, p, number, amount, i, channel)
    PROVE  InvoiceLinks'
<1>1. /\ purchase_orders[p] \in PurchaseOrder
      /\ purchase_orders[p].vendor_id = v
      /\ purchase_orders[p].invoice_id = None
      /\ ~HasInvoiceNumber(v, number)
      /\ ~HasInvoice(p)
      /\ invoices[i] = None
      /\ v \in Vendors
  BY DEF CreateInvoice, InvoiceRefusal, TypeOK
<1>2. /\ invoices' = [invoices EXCEPT ![i] = PendingInvoice(v, p, number, amount)]
      /\ purchase_orders' = [purchase_orders EXCEPT ![p].invoice_id = i]
  BY DEF CreateInvoice
<1>3. /\ PendingInvoice(v, p, number, amount) # None
      /\ PendingInvoice(v, p, number, amount).vendor_id = v
      /\ PendingInvoice(v, p, number, amount).purchase_order_id = p
      /\ PendingInvoice(v, p, number, amount).invoice_number = number
  BY <1>1, InvoiceRulesReturnRows, NoneAssumption DEF PendingInvoice
<1>4. /\ purchase_orders'[p] \in PurchaseOrder
      /\ purchase_orders'[p] # None
      /\ purchase_orders'[p].invoice_id = i
      /\ purchase_orders'[p].vendor_id = v
      /\ \A q \in PurchaseOrders : q # p => purchase_orders'[q] = purchase_orders[q]
  BY <1>1, <1>2, NoneAssumption DEF TypeOK, PurchaseOrder
<1>5. /\ invoices'[i] = PendingInvoice(v, p, number, amount)
      /\ \A j \in Invoices : j # i => invoices'[j] = invoices[j]
  BY <1>2 DEF TypeOK
<1>6. ASSUME NEW j \in Invoices, invoices'[j] # None
      PROVE  LET po == purchase_orders'[invoices'[j].purchase_order_id]
             IN  po # None /\ po.invoice_id = j /\ po.vendor_id = invoices'[j].vendor_id
  <2>1. CASE j = i
    BY <2>1, <1>3, <1>4, <1>5
  <2>2. CASE j # i
    <3>1. invoices'[j] = invoices[j] /\ invoices[j] # None
      BY <1>5, <1>6, <2>2
    <3>2. invoices[j].purchase_order_id # p
      BY <1>1, <3>1 DEF HasInvoice
    <3> QED
      BY <1>4, <3>1, <3>2, LinkedOrder DEF InvoiceLinks
  <2> QED
    BY <2>1, <2>2
<1>7. ASSUME NEW q \in PurchaseOrders, purchase_orders'[q] # None,
             purchase_orders'[q].invoice_id # None
      PROVE  LET j == purchase_orders'[q].invoice_id
             IN  invoices'[j] # None /\ invoices'[j].purchase_order_id = q
  <2>1. CASE q = p
    BY <2>1, <1>3, <1>4, <1>5
  <2>2. CASE q # p
    <3> DEFINE j == purchase_orders[q].invoice_id
    <3>1. purchase_orders'[q] = purchase_orders[q]
      BY <1>4, <2>2
    <3>2. j \in Invoices /\ invoices[j] # None /\ invoices[j].purchase_order_id = q
      BY <1>7, <3>1 DEF InvoiceLinks, TypeOK, PurchaseOrder
    <3>3. j # i
      BY <1>1, <3>2
    <3> QED
      BY <1>5, <3>1, <3>2, <3>3
  <2> QED
    BY <2>1, <2>2
<1>8. ASSUME NEW m \in Invoices, NEW n \in Invoices, invoices'[m] # None, invoices'[n] # None,
             invoices'[m].vendor_id = invoices'[n].vendor_id,
             invoices'[m].invoice_number = invoices'[n].invoice_number
      PROVE  m = n
  <2>1. ASSUME NEW j \in Invoices, j # i, invoices'[j] # None, invoices'[j].vendor_id = v,
               invoices'[j].invoice_number = number
        PROVE  FALSE
    BY <1>1, <1>5, <2>1 DEF HasInvoiceNumber
  <2>2. CASE m = i \/ n = i
    BY <1>3, <1>5, <1>8, <2>1, <2>2
  <2>3. CASE m # i /\ n # i
    BY <1>5, <1>8, <2>3 DEF InvoiceLinks
  <2> QED
    BY <2>2, <2>3
<1> QED
  BY <1>6, <1>7, <1>8 DEF InvoiceLinks

(* Every step keeps orders and invoices linked.                            *)
LEMMA InvoiceLinksStep ==
    ASSUME TypeOK, InvoiceLinks, [Next]_vars
    PROVE  InvoiceLinks'
<1>1. CASE UNCHANGED <<purchase_orders, invoices, gl_entries>>
  BY <1>1 DEF InvoiceLinks
<1>2. ASSUME NEW k \in Keys, NEW p \in PurchaseOrders, NEW v \in VendorIds, NEW order \in Orders,
             CreatePurchaseOrder(k, v, order, p)
      PROVE  InvoiceLinks'
  <2>1. DraftPurchaseOrder(v, order, k).invoice_id = None
    BY DEF DraftPurchaseOrder
  <2> QED
    BY <1>2, <2>1, LinksKept DEF TypeOK, CreatePurchaseOrder
<1>3. ASSUME NEW k \in Keys, NEW p \in PurchaseOrders, SubmitPurchaseOrder(k, p)
      PROVE  InvoiceLinks'
  <2>1. SameOrder(purchase_orders[p], Submitted(purchase_orders[p], k))
    BY <1>3, OrderRulesKeepIdentity DEF TypeOK, SubmitPurchaseOrder, SubmitRefusal
  <2> QED
    BY <1>3, <2>1, LinksKept DEF TypeOK, SubmitPurchaseOrder
<1>4. ASSUME NEW k \in Keys, NEW p \in PurchaseOrders, NEW delivery \in Deliveries,
             ReceiveGoods(k, p, delivery)
      PROVE  InvoiceLinks'
  <2>1. SameOrder(purchase_orders[p], Received(purchase_orders[p], delivery))
    BY <1>4, OrderRulesKeepIdentity DEF TypeOK, ReceiveGoods, ReceiptRefusal
  <2> QED
    BY <1>4, <2>1, LinksKept DEF TypeOK, ReceiveGoods
<1>5. ASSUME NEW k \in Keys, NEW i \in Invoices, NEW v \in VendorIds, NEW p \in PurchaseOrders,
             NEW number \in InvoiceNumbers, NEW amount \in Amounts, NEW channel \in Channels,
             CreateInvoice(k, v, p, number, amount, i, channel)
      PROVE  InvoiceLinks'
  BY <1>5, CreateInvoiceLinks
<1>6. ASSUME NEW k \in Keys, NEW i \in Invoices, MatchInvoice(k, i)
      PROVE  InvoiceLinks'
  <2>1. PICK outcome \in MatchOutcomes :
          invoices' = [invoices EXCEPT ![i] = Matched(invoices[i], outcome, k)]
    BY <1>6, MatchOutcomeType DEF MatchInvoice, MatchOutcomes
  <2>2. SameInvoice(invoices[i], Matched(invoices[i], outcome, k))
    BY <1>6, InvoiceRowFound, InvoiceRulesKeepIdentity DEF MatchInvoice
  <2> QED
    BY <1>6, <2>1, <2>2, LinksKept DEF TypeOK, MatchInvoice
<1>7. ASSUME NEW k \in Keys, NEW i \in Invoices, NEW channel \in Channels,
             ApproveInvoice(k, i, channel)
      PROVE  InvoiceLinks'
  <2>1. SameInvoice(invoices[i], Approved(invoices[i], k))
    BY <1>7, InvoiceRowFound, InvoiceRulesKeepIdentity DEF ApproveInvoice, ApprovalRefusal
  <2> QED
    BY <1>7, <2>1, LinksKept DEF TypeOK, ApproveInvoice
<1>8. ASSUME NEW k \in Keys, NEW i \in Invoices, PayInvoice(k, i)
      PROVE  InvoiceLinks'
  <2> DEFINE p == invoices[i].purchase_order_id
  <2>1. p \in PurchaseOrders /\ purchase_orders[p] \in PurchaseOrder
    BY <1>8, LinkedOrder DEF PayInvoice
  <2>2. /\ SameInvoice(invoices[i], Paid(invoices[i], k))
        /\ SameOrder(purchase_orders[p], Closed(purchase_orders[p]))
    BY <1>8, <2>1, InvoiceRowFound, InvoiceRulesKeepIdentity, OrderRulesKeepIdentity DEF PayInvoice
  <2> QED
    BY <1>8, <2>1, <2>2, LinksKept DEF TypeOK, PayInvoice
<1> QED
  BY <1>1, <1>2, <1>3, <1>4, <1>5, <1>6, <1>7, <1>8, StepCases

(* An order and its invoice never lose each other, and no vendor has two   *)
(* invoices of one number.                                                 *)
THEOREM OrdersAndInvoicesLinked == Spec => []InvoiceLinks
<1>1. Init => InvoiceLinks
  BY DEF Init, InvoiceLinks
<1>2. TypeOK /\ TasksHaveChecks /\ InvoiceLinks /\ [Next]_vars => InvoiceLinks'
  BY InvoiceLinksStep
<1> QED
  BY <1>1, <1>2, TypeCorrect, PTL DEF Spec

-----------------------------------------------------------------------------
(* The four ways in which a step may touch an invoice, as far as its       *)
(* stage, its stamps and the ledger go.                                    *)
IsCreated(old, new) ==
    /\ old = None
    /\ new.status = "PENDING" /\ new.approved_at = None /\ new.paid_at = None
    /\ UNCHANGED gl_entries

IsMatched(old, new) ==
    /\ SameInvoice(old, new)
    /\ old.status \in {"PENDING", "MATCHED"}
    /\ new.status \in {old.status, "MATCHED"}
    /\ new.approved_at = old.approved_at /\ new.paid_at = old.paid_at
    /\ UNCHANGED gl_entries

IsApproved(k, i, old, new) ==
    /\ SameInvoice(old, new)
    /\ old.status = "MATCHED" /\ new.status = "APPROVED"
    /\ new.approved_at = k /\ new.paid_at = old.paid_at
    /\ gl_entries' = gl_entries \cup BalancedGLEntries(k, i, old.invoice_amount)

IsPaid(k, old, new) ==
    /\ SameInvoice(old, new)
    /\ old.status = "APPROVED" /\ new.status = "PAID"
    /\ new.approved_at = old.approved_at /\ new.paid_at = k
    /\ UNCHANGED gl_entries

(* The handlers of invoices are these four: one creates, with a check of   *)
(* the number and the order, ...                                           *)
LEMMA CreateMove ==
    ASSUME TypeOK, NEW k \in Keys, NEW i \in Invoices, NEW v \in VendorIds,
           NEW p \in PurchaseOrders, NEW number \in InvoiceNumbers, NEW amount \in Amounts,
           NEW channel \in Channels, CreateInvoice(k, v, p, number, amount, i, channel)
    PROVE  \E new \in Invoice :
              invoices' = [invoices EXCEPT ![i] = new] /\ IsCreated(invoices[i], new)
<1> DEFINE new == PendingInvoice(v, p, number, amount)
<1>1. new \in Invoice
  BY InvoiceRulesReturnRows DEF CreateInvoice, InvoiceRefusal
<1>2. IsCreated(invoices[i], new)
  BY DEF CreateInvoice, IsCreated, PendingInvoice, history
<1>3. invoices' = [invoices EXCEPT ![i] = new]
  BY DEF CreateInvoice
<1> QED
  BY <1>1, <1>2, <1>3

(* ... one matches, without touching the ledger or an approval, ...        *)
LEMMA MatchMove ==
    ASSUME TypeOK, NEW k \in Keys, NEW i \in Invoices, MatchInvoice(k, i)
    PROVE  \E new \in Invoice :
              invoices' = [invoices EXCEPT ![i] = new] /\ IsMatched(invoices[i], new)
<1>1. PICK outcome \in MatchOutcomes :
        invoices' = [invoices EXCEPT ![i] = Matched(invoices[i], outcome, k)]
  BY MatchOutcomeType DEF MatchInvoice, MatchOutcomes
<1>2. invoices[i] \in Invoice /\ invoices[i].status \in {"PENDING", "MATCHED"}
  BY InvoiceRowFound DEF MatchInvoice, MatchRefusal
<1> DEFINE new == Matched(invoices[i], outcome, k)
<1>3. new \in Invoice
  BY <1>2, InvoiceRulesReturnRows
<1>4. /\ new.status \in {invoices[i].status, "MATCHED"}
      /\ new.approved_at = invoices[i].approved_at
      /\ new.paid_at = invoices[i].paid_at
  BY <1>2 DEF Matched, Invoice
<1>5. IsMatched(invoices[i], new)
  BY <1>2, <1>4, InvoiceRulesKeepIdentity DEF IsMatched, MatchInvoice
<1> QED
  BY <1>1, <1>3, <1>5

(* ... one approves a matched invoice and posts its two entries, ...       *)
LEMMA ApproveMove ==
    ASSUME TypeOK, NEW k \in Keys, NEW i \in Invoices, NEW channel \in Channels,
           ApproveInvoice(k, i, channel)
    PROVE  \E new \in Invoice :
              invoices' = [invoices EXCEPT ![i] = new] /\ IsApproved(k, i, invoices[i], new)
<1>1. invoices[i] \in Invoice /\ invoices[i].status = "MATCHED"
  BY InvoiceRowFound DEF ApproveInvoice, ApprovalRefusal
<1> DEFINE new == Approved(invoices[i], k)
<1>2. new \in Invoice
  BY <1>1, InvoiceRulesReturnRows
<1>3. new.status = "APPROVED" /\ new.approved_at = k /\ new.paid_at = invoices[i].paid_at
  BY <1>1 DEF Approved, Invoice
<1>4. IsApproved(k, i, invoices[i], new)
  BY <1>1, <1>3, InvoiceRulesKeepIdentity DEF IsApproved, ApproveInvoice
<1>5. invoices' = [invoices EXCEPT ![i] = new]
  BY DEF ApproveInvoice
<1> QED
  BY <1>2, <1>4, <1>5

(* ... and one pays an approved invoice.                                   *)
LEMMA PayMove ==
    ASSUME TypeOK, NEW k \in Keys, NEW i \in Invoices, PayInvoice(k, i)
    PROVE  \E new \in Invoice :
              invoices' = [invoices EXCEPT ![i] = new] /\ IsPaid(k, invoices[i], new)
<1>1. invoices[i] \in Invoice /\ invoices[i].status = "APPROVED"
  BY InvoiceRowFound DEF PayInvoice, PaymentRefusal
<1> DEFINE new == Paid(invoices[i], k)
<1>2. new \in Invoice
  BY <1>1, InvoiceRulesReturnRows
<1>3. new.status = "PAID" /\ new.approved_at = invoices[i].approved_at /\ new.paid_at = k
  BY <1>1 DEF Paid, Invoice
<1>4. IsPaid(k, invoices[i], new)
  BY <1>1, <1>3, InvoiceRulesKeepIdentity DEF IsPaid, PayInvoice, history
<1>5. invoices' = [invoices EXCEPT ![i] = new]
  BY DEF PayInvoice
<1> QED
  BY <1>2, <1>4, <1>5

(* There is no fifth, and no step touches two invoices.                    *)
LEMMA InvoiceMoves ==
    ASSUME TypeOK, [Next]_vars
    PROVE  \/ UNCHANGED <<invoices, gl_entries>>
           \/ \E k \in Keys, i \in Invoices, new \in Invoice :
                 /\ invoices' = [invoices EXCEPT ![i] = new]
                 /\ \/ IsCreated(invoices[i], new)
                    \/ IsMatched(invoices[i], new)
                    \/ IsApproved(k, i, invoices[i], new)
                    \/ IsPaid(k, invoices[i], new)
<1>1. ASSUME NEW k \in Keys, NEW p \in PurchaseOrders,
             \/ \E v \in VendorIds, order \in Orders : CreatePurchaseOrder(k, v, order, p)
             \/ SubmitPurchaseOrder(k, p)
             \/ \E delivery \in Deliveries : ReceiveGoods(k, p, delivery)
      PROVE  UNCHANGED <<invoices, gl_entries>>
  BY <1>1 DEF CreatePurchaseOrder, SubmitPurchaseOrder, ReceiveGoods, history
<1> QED
  BY <1>1, CreateMove, MatchMove, ApproveMove, PayMove, StepCases

-----------------------------------------------------------------------------
(* The time stamps of an invoice tell its stage: approved_at is set once   *)
(* it is approved, paid_at once it is paid.                                *)
Stamped ==
    \A i \in Invoices : invoices[i] # None =>
        /\ invoices[i].approved_at # None <=> invoices[i].status \in {"APPROVED", "PAID"}
        /\ invoices[i].paid_at # None <=> invoices[i].status = "PAID"

(* Every step stamps an invoice when it takes it to the stage.             *)
LEMMA StampedStep ==
    ASSUME TypeOK, Stamped, [Next]_vars
    PROVE  Stamped'
<1> USE DEF Stamped
<1>1. CASE UNCHANGED <<invoices, gl_entries>>
  BY <1>1
<1>2. ASSUME NEW k \in Keys, NEW i \in Invoices, NEW new \in Invoice,
             invoices' = [invoices EXCEPT ![i] = new],
             \/ IsCreated(invoices[i], new)
             \/ IsMatched(invoices[i], new)
             \/ IsApproved(k, i, invoices[i], new)
             \/ IsPaid(k, invoices[i], new)
      PROVE  Stamped'
  <2>1. k # None
    BY NoneAssumption
  <2>2. invoices'[i] = new /\ \A j \in Invoices : j # i => invoices'[j] = invoices[j]
    BY <1>2 DEF TypeOK
  <2>3. /\ new.approved_at # None <=> new.status \in {"APPROVED", "PAID"}
        /\ new.paid_at # None <=> new.status = "PAID"
    BY <1>2, <2>1 DEF IsCreated, IsMatched, IsApproved, IsPaid, SameInvoice
  <2> QED
    BY <2>2, <2>3
<1> QED
  BY <1>1, <1>2, InvoiceMoves

(* The stamps are right in every reachable state.                          *)
THEOREM StampsTellStage == Spec => []Stamped
<1>1. Init => Stamped
  BY DEF Init, Stamped
<1>2. TypeOK /\ TasksHaveChecks /\ Stamped /\ [Next]_vars => Stamped'
  BY StampedStep
<1> QED
  BY <1>1, <1>2, TypeCorrect, PTL DEF Spec

-----------------------------------------------------------------------------
(* No step posts for an invoice but its one approval.                      *)
LEMMA PostedOnceStep ==
    ASSUME TypeOK, PostedOnce, [Next]_vars
    PROVE  PostedOnce'
<1> USE DEF PostedOnce
<1>1. CASE UNCHANGED <<invoices, gl_entries>>
  BY <1>1 DEF PostedFor
<1>2. ASSUME NEW k \in Keys, NEW i \in Invoices, NEW new \in Invoice,
             invoices' = [invoices EXCEPT ![i] = new],
             \/ IsCreated(invoices[i], new)
             \/ IsMatched(invoices[i], new)
             \/ IsApproved(k, i, invoices[i], new)
             \/ IsPaid(k, invoices[i], new)
      PROVE  PostedOnce'
  <2>1. invoices'[i] = new /\ \A j \in Invoices : j # i => invoices'[j] = invoices[j]
    BY <1>2 DEF TypeOK
  <2>2. new # None
    BY NoneAssumption
  <2>3. CASE IsCreated(invoices[i], new) \/ IsMatched(invoices[i], new)
    <3>1. \A j \in Invoices : PostedFor(j)' = PostedFor(j)
      BY <2>3 DEF IsCreated, IsMatched, PostedFor
    <3>2. PostedFor(i) = {} /\ new.status \notin {"APPROVED", "PAID"}
      BY <2>3 DEF IsCreated, IsMatched
    <3> QED
      BY <2>1, <3>1, <3>2
  <2>4. CASE IsApproved(k, i, invoices[i], new)
    <3> DEFINE entries == BalancedGLEntries(k, i, invoices[i].invoice_amount)
    <3>1. \A e \in entries : e.invoice_id = i
      BY DEF BalancedGLEntries
    <3>2. gl_entries' = gl_entries \cup entries
      BY <2>4 DEF IsApproved
    <3> HIDE DEF entries
    <3>3. PostedFor(i) = {}
      BY <2>4 DEF IsApproved
    <3>4. PostedFor(i)' = entries
      BY <3>1, <3>2, <3>3 DEF PostedFor
    <3>5. \A j \in Invoices : j # i => PostedFor(j)' = PostedFor(j)
      BY <3>1, <3>2 DEF PostedFor
    <3>6. entries = BalancedGLEntries(new.approved_at, i, new.invoice_amount)
      BY <2>4 DEF IsApproved, SameInvoice, entries
    <3>7. new.status = "APPROVED"
      BY <2>4 DEF IsApproved
    <3> QED
      BY <2>1, <2>2, <3>4, <3>5, <3>6, <3>7
  <2>5. CASE IsPaid(k, invoices[i], new)
    <3>1. \A j \in Invoices : PostedFor(j)' = PostedFor(j)
      BY <2>5 DEF IsPaid, PostedFor
    <3>2. /\ invoices[i] # None
          /\ invoices[i].status = "APPROVED" /\ new.status = "PAID"
          /\ new.approved_at = invoices[i].approved_at
          /\ new.invoice_amount = invoices[i].invoice_amount
      BY <2>5 DEF IsPaid, SameInvoice
    <3>3. PostedFor(i) = BalancedGLEntries(new.approved_at, i, new.invoice_amount)
      BY <3>2
    <3> QED
      BY <2>1, <2>2, <3>1, <3>2, <3>3
  <2> QED
    BY <1>2, <2>3, <2>4, <2>5
<1> QED
  BY <1>1, <1>2, InvoiceMoves

(* The ledger holds exactly the pair of entries of each invoice's one      *)
(* approval.                                                               *)
THEOREM LedgerPostedOnce == Spec => []PostedOnce
<1>1. Init => PostedOnce
  BY DEF Init, PostedOnce, PostedFor
<1>2. TypeOK /\ TasksHaveChecks /\ PostedOnce /\ [Next]_vars => PostedOnce'
  BY PostedOnceStep
<1> QED
  BY <1>1, <1>2, TypeCorrect, PTL DEF Spec

-----------------------------------------------------------------------------
(* The half of PaidMeansDelivered that is inductive: an invoice is paid    *)
(* exactly when its order is closed.                                       *)
PaidMeansClosed ==
    \A i \in Invoices : invoices[i] # None =>
        (invoices[i].status = "PAID"
            <=> purchase_orders[invoices[i].purchase_order_id].status = "CLOSED")

(* Closing an order and paying its invoice are one step, and no other step *)
(* does either.                                                            *)
LEMMA PaidMeansClosedStep ==
    ASSUME TypeOK, InvoiceLinks, PaidMeansClosed, [Next]_vars
    PROVE  PaidMeansClosed'
<1> USE DEF PaidMeansClosed
<1>1. CASE UNCHANGED <<purchase_orders, invoices, gl_entries>>
  BY <1>1
<1>2. ASSUME UNCHANGED invoices, NEW p \in PurchaseOrders,
             \A q \in PurchaseOrders : q # p => purchase_orders'[q] = purchase_orders[q],
             \/ purchase_orders[p] = None
             \/ /\ purchase_orders[p].status # "CLOSED"
                /\ purchase_orders'[p].status # "CLOSED"
      PROVE  PaidMeansClosed'
  BY <1>2, LinkedOrder
<1>3. ASSUME NEW k \in Keys, NEW p \in PurchaseOrders, NEW v \in VendorIds, NEW order \in Orders,
             CreatePurchaseOrder(k, v, order, p)
      PROVE  PaidMeansClosed'
  BY <1>2, <1>3 DEF TypeOK, CreatePurchaseOrder
<1>4. ASSUME NEW k \in Keys, NEW p \in PurchaseOrders, SubmitPurchaseOrder(k, p)
      PROVE  PaidMeansClosed'
  <2>1. purchase_orders'[p].status = "SUBMITTED" /\ purchase_orders[p].status = "DRAFT"
    BY <1>4 DEF TypeOK, SubmitPurchaseOrder, SubmitRefusal, Submitted, PurchaseOrder
  <2> QED
    BY <1>2, <1>4, <2>1 DEF TypeOK, SubmitPurchaseOrder
<1>5. ASSUME NEW k \in Keys, NEW p \in PurchaseOrders, NEW delivery \in Deliveries,
             ReceiveGoods(k, p, delivery)
      PROVE  PaidMeansClosed'
  <2>1. purchase_orders[p] \in PurchaseOrder /\ purchase_orders[p].status = "SUBMITTED"
    BY <1>5 DEF TypeOK, ReceiveGoods, ReceiptRefusal
  <2>2. Received(purchase_orders[p], delivery).status \in {"SUBMITTED", "RECEIVED"}
    BY <2>1 DEF Received, PurchaseOrder
  <2> QED
    BY <1>2, <1>5, <2>1, <2>2 DEF TypeOK, ReceiveGoods
<1>6. ASSUME NEW k \in Keys, NEW i \in Invoices, NEW v \in VendorIds, NEW p \in PurchaseOrders,
             NEW number \in InvoiceNumbers, NEW amount \in Amounts, NEW channel \in Channels,
             CreateInvoice(k, v, p, number, amount, i, channel)
      PROVE  PaidMeansClosed'
  <2>1. /\ purchase_orders[p] \in PurchaseOrder
        /\ purchase_orders[p].status \in {"SUBMITTED", "RECEIVED"}
    BY <1>6 DEF CreateInvoice, InvoiceRefusal, TypeOK
  <2>2. \A q \in PurchaseOrders : purchase_orders[q] # None =>
            purchase_orders'[q].status = purchase_orders[q].status
    BY <1>6 DEF CreateInvoice, TypeOK, PurchaseOrder
  <2>3. /\ invoices'[i].status = "PENDING"
        /\ invoices'[i].purchase_order_id = p
        /\ \A j \in Invoices : j # i => invoices'[j] = invoices[j]
    BY <1>6 DEF CreateInvoice, PendingInvoice, TypeOK
  <2>4. purchase_orders'[p].status # "CLOSED"
    BY <2>1, <2>2, NoneAssumption
  <2> QED
    BY <2>2, <2>3, <2>4, LinkedOrder
<1>7. ASSUME NEW k \in Keys, NEW i \in Invoices, NEW new \in Invoice,
             invoices' = [invoices EXCEPT ![i] = new], UNCHANGED purchase_orders,
             IsMatched(invoices[i], new) \/ IsApproved(k, i, invoices[i], new)
      PROVE  PaidMeansClosed'
  <2>1. /\ invoices[i] # None
        /\ invoices[i].status # "PAID" /\ new.status # "PAID"
        /\ new.purchase_order_id = invoices[i].purchase_order_id
    BY <1>7 DEF IsMatched, IsApproved, SameInvoice
  <2> QED
    BY <1>7, <2>1 DEF TypeOK
<1>8. ASSUME NEW k \in Keys, NEW i \in Invoices, PayInvoice(k, i)
      PROVE  PaidMeansClosed'
  <2> DEFINE p == invoices[i].purchase_order_id
  <2>1. /\ invoices[i] \in Invoice
        /\ p \in PurchaseOrders
        /\ purchase_orders[p] \in PurchaseOrder
        /\ purchase_orders[p].invoice_id = i
    BY <1>8, LinkedOrder DEF PayInvoice
  <2>2. /\ purchase_orders'[p].status = "CLOSED"
        /\ \A q \in PurchaseOrders : q # p => purchase_orders'[q] = purchase_orders[q]
    BY <1>8, <2>1 DEF PayInvoice, Closed, TypeOK, PurchaseOrder
  <2>3. /\ invoices'[i].status = "PAID"
        /\ invoices'[i].purchase_order_id = p
        /\ \A j \in Invoices : j # i => invoices'[j] = invoices[j]
    BY <1>8, <2>1 DEF PayInvoice, Paid, TypeOK, Invoice
  <2>4. \A j \in Invoices : (j # i /\ invoices[j] # None) => invoices[j].purchase_order_id # p
    BY <2>1, LinkedOrder
  <2> QED
    BY <2>2, <2>3, <2>4, LinkedOrder
<1>9. ASSUME NEW k \in Keys, NEW i \in Invoices,
             MatchInvoice(k, i) \/ \E channel \in Channels : ApproveInvoice(k, i, channel)
      PROVE  PaidMeansClosed'
  <2>1. UNCHANGED purchase_orders
    BY <1>9 DEF MatchInvoice, ApproveInvoice
  <2> QED
    BY <1>7, <1>9, <2>1, MatchMove, ApproveMove
<1> QED
  BY <1>1, <1>3, <1>4, <1>5, <1>6, <1>8, <1>9, StepCases

(* Payment settles delivered orders only: what NeverOverReceived says of a *)
(* closed order carries over to its paid invoice.                          *)
THEOREM PaymentSettlesDelivery == Spec => []PaidMeansDelivered
<1>1. Init => PaidMeansClosed
  BY DEF Init, PaidMeansClosed
<1>2. TypeOK /\ TasksHaveChecks /\ InvoiceLinks /\ PaidMeansClosed /\ [Next]_vars
        => PaidMeansClosed'
  BY PaidMeansClosedStep
<1>3. Spec => []PaidMeansClosed
  BY <1>1, <1>2, TypeCorrect, OrdersAndInvoicesLinked, PTL DEF Spec
<1>4. TypeOK /\ TasksHaveChecks /\ InvoiceLinks /\ NeverOverReceived /\ PaidMeansClosed
        => PaidMeansDelivered
  <2> SUFFICES ASSUME TypeOK, InvoiceLinks, NeverOverReceived, PaidMeansClosed,
                      NEW i \in Invoices, invoices[i] # None
               PROVE  LET po == purchase_orders[invoices[i].purchase_order_id]
                      IN  /\ invoices[i].status = "PAID" <=> po.status = "CLOSED"
                          /\ invoices[i].status = "PAID" => FullyReceived(po)
    BY DEF PaidMeansDelivered
  <2> QED
    BY LinkedOrder DEF NeverOverReceived, PaidMeansClosed
<1> QED
  BY <1>3, <1>4, TypeCorrect, OrdersAndInvoicesLinked, NothingOverReceived, PTL

-----------------------------------------------------------------------------
(* Only an approved invoice has the stamp of an approval, only a paid one  *)
(* that of a payment.  Of demo rows the converse is not true.              *)
StampsFollow ==
    \A i \in Invoices : invoices[i] # None =>
        /\ invoices[i].approved_at # None => invoices[i].status \in {"APPROVED", "PAID"}
        /\ invoices[i].paid_at # None => invoices[i].status = "PAID"

(* No step takes an invoice back, or touches a paid one.                   *)
LEMMA InvoicesAdvance ==
    ASSUME TypeOK, StampsFollow, [Next]_vars, NEW j \in Invoices
    PROVE  InvoiceAdvances(j)
<1> USE DEF InvoiceAdvances
<1>1. invoices[j] # None => InvoiceRank(invoices[j].status) \in 0..3
  BY InvoiceRowFound DEF Invoice, InvoiceStatuses, InvoiceRank
<1>2. CASE invoices'[j] = invoices[j]
  BY <1>1, <1>2
<1>3. ASSUME NEW k \in Keys, NEW new \in Invoice, invoices'[j] = new,
             \/ IsCreated(invoices[j], new)
             \/ IsMatched(invoices[j], new)
             \/ IsApproved(k, j, invoices[j], new)
             \/ IsPaid(k, invoices[j], new)
      PROVE  InvoiceAdvances(j)
  <2>1. new # None
    BY NoneAssumption
  <2>2. CASE IsCreated(invoices[j], new)
    BY <2>2 DEF IsCreated
  <2>3. CASE IsMatched(invoices[j], new)
    BY <1>3, <2>1, <2>3 DEF IsMatched, InvoiceRank, StampsFollow, SameInvoice
  <2>4. CASE IsApproved(k, j, invoices[j], new)
    BY <1>3, <2>1, <2>4 DEF IsApproved, InvoiceRank, StampsFollow, SameInvoice
  <2>5. CASE IsPaid(k, invoices[j], new)
    BY <1>3, <2>1, <2>5 DEF IsPaid, InvoiceRank, StampsFollow, SameInvoice
  <2> QED
    BY <1>3, <2>2, <2>3, <2>4, <2>5
<1> QED
  BY <1>2, <1>3, InvoiceMoves DEF TypeOK

(* No step takes an order back, unlinks its invoice or takes goods back.   *)
LEMMA OrdersAdvance ==
    ASSUME TypeOK, InvoiceLinks, [Next]_vars, NEW q \in PurchaseOrders
    PROVE  OrderAdvances(q)
<1> SUFFICES ASSUME purchase_orders[q] # None, purchase_orders[q] \in PurchaseOrder
             PROVE  OrderAdvances(q)
  BY DEF OrderAdvances, TypeOK
<1>1. /\ OrderRank(purchase_orders[q].status) \in 0..3
      /\ \A l \in Lines : purchase_orders[q].qty_received[l] \in Nat
  BY DEF PurchaseOrder, PurchaseOrderStatuses, OrderRank, LineQuantities
<1>2. CASE purchase_orders'[q] = purchase_orders[q]
  BY <1>1, <1>2 DEF OrderAdvances
<1>3. ASSUME NEW new \in PurchaseOrder, purchase_orders'[q] = new,
             OrderRank(purchase_orders[q].status) <= OrderRank(new.status),
             purchase_orders[q].invoice_id # None => new.invoice_id = purchase_orders[q].invoice_id,
             \A l \in Lines : purchase_orders[q].qty_received[l] <= new.qty_received[l]
      PROVE  OrderAdvances(q)
  BY <1>3, NoneAssumption DEF OrderAdvances
<1>4. ASSUME NEW k \in Keys, SubmitPurchaseOrder(k, q)
      PROVE  OrderAdvances(q)
  <2> DEFINE new == Submitted(purchase_orders[q], k)
  <2>1. new \in PurchaseOrder /\ purchase_orders'[q] = new
    BY <1>4, OrderRulesReturnRows DEF SubmitPurchaseOrder, TypeOK
  <2>2. OrderRank(purchase_orders[q].status) <= OrderRank(new.status)
    BY <1>4 DEF SubmitPurchaseOrder, SubmitRefusal, Submitted, PurchaseOrder, OrderRank
  <2>3. /\ new.invoice_id = purchase_orders[q].invoice_id
        /\ new.qty_received = purchase_orders[q].qty_received
    BY DEF Submitted, PurchaseOrder
  <2> HIDE DEF new
  <2> QED
    BY <1>1, <1>3, <2>1, <2>2, <2>3
<1>5. ASSUME NEW k \in Keys, NEW delivery \in Deliveries, ReceiveGoods(k, q, delivery)
      PROVE  OrderAdvances(q)
  <2> DEFINE new == Received(purchase_orders[q], delivery)
  <2>1. new \in PurchaseOrder /\ purchase_orders'[q] = new
    BY <1>5, OrderRulesReturnRows DEF ReceiveGoods, TypeOK
  <2>2. /\ purchase_orders[q].status = "SUBMITTED"
        /\ new.status \in {"SUBMITTED", "RECEIVED"}
    BY <1>5 DEF ReceiveGoods, ReceiptRefusal, Received, PurchaseOrder
  <2>3. OrderRank(purchase_orders[q].status) <= OrderRank(new.status)
    BY <2>2 DEF OrderRank
  <2>4. /\ new.invoice_id = purchase_orders[q].invoice_id
        /\ new.qty_received = [l \in Lines |-> purchase_orders[q].qty_received[l] + delivery[l]]
    BY DEF Received, PurchaseOrder
  <2>5. \A l \in Lines : delivery[l] \in Nat
    BY DeliveriesAssumption DEF LineQuantities
  <2> HIDE DEF new
  <2>6. \A l \in Lines : purchase_orders[q].qty_received[l] <= new.qty_received[l]
    BY <1>1, <2>4, <2>5
  <2> QED
    BY <1>3, <2>1, <2>3, <2>4, <2>6
<1>6. ASSUME NEW k \in Keys, NEW i \in Invoices, NEW v \in VendorIds,
             NEW number \in InvoiceNumbers, NEW amount \in Amounts, NEW channel \in Channels,
             CreateInvoice(k, v, q, number, amount, i, channel)
      PROVE  OrderAdvances(q)
  <2> DEFINE new == [purchase_orders[q] EXCEPT !.invoice_id = i]
  <2>1. new \in PurchaseOrder /\ purchase_orders'[q] = new
    BY <1>6 DEF CreateInvoice, TypeOK, PurchaseOrder
  <2>2. /\ new.status = purchase_orders[q].status
        /\ new.qty_received = purchase_orders[q].qty_received
    BY DEF PurchaseOrder
  <2>3. purchase_orders[q].invoice_id = None
    BY <1>6 DEF CreateInvoice, InvoiceRefusal
  <2> HIDE DEF new
  <2> QED
    BY <1>1, <1>3, <2>1, <2>2, <2>3
<1>7. ASSUME NEW k \in Keys, NEW i \in Invoices, PayInvoice(k, i),
             invoices[i].purchase_order_id = q
      PROVE  OrderAdvances(q)
  <2> DEFINE new == Closed(purchase_orders[q])
  <2>1. new \in PurchaseOrder /\ purchase_orders'[q] = new
    BY <1>7, OrderRulesReturnRows DEF PayInvoice, TypeOK
  <2>2. OrderRank(purchase_orders[q].status) <= OrderRank(new.status)
    BY <1>7 DEF PayInvoice, PaymentRefusal, Closed, PurchaseOrder, OrderRank
  <2>3. /\ new.invoice_id = purchase_orders[q].invoice_id
        /\ new.qty_received = purchase_orders[q].qty_received
    BY DEF Closed, PurchaseOrder
  <2> HIDE DEF new
  <2> QED
    BY <1>1, <1>3, <2>1, <2>2, <2>3
<1>8. ASSUME NEW k \in Keys, NEW p \in PurchaseOrders, NEW v \in VendorIds, NEW order \in Orders,
             CreatePurchaseOrder(k, v, order, p)
      PROVE  purchase_orders'[q] = purchase_orders[q]
  BY <1>8 DEF CreatePurchaseOrder, TypeOK
<1>9. ASSUME NEW k \in Keys, NEW i \in Invoices,
             MatchInvoice(k, i) \/ \E channel \in Channels : ApproveInvoice(k, i, channel)
      PROVE  purchase_orders'[q] = purchase_orders[q]
  BY <1>9 DEF MatchInvoice, ApproveInvoice
<1>10. ASSUME NEW k \in Keys, NEW p \in PurchaseOrders, p # q,
              \/ SubmitPurchaseOrder(k, p)
              \/ \E delivery \in Deliveries : ReceiveGoods(k, p, delivery)
              \/ \E i \in Invoices, v \in VendorIds, number \in InvoiceNumbers,
                    amount \in Amounts, channel \in Channels :
                    CreateInvoice(k, v, p, number, amount, i, channel)
       PROVE  purchase_orders'[q] = purchase_orders[q]
  BY <1>10 DEF SubmitPurchaseOrder, ReceiveGoods, CreateInvoice, TypeOK
<1>11. ASSUME NEW k \in Keys, NEW i \in Invoices, PayInvoice(k, i),
              invoices[i].purchase_order_id # q
       PROVE  purchase_orders'[q] = purchase_orders[q]
  BY <1>11 DEF PayInvoice, TypeOK
<1> QED
  BY <1>2, <1>4, <1>5, <1>6, <1>7, <1>8, <1>9, <1>10, <1>11, StepCases

(* Documents only advance, in every behaviour of the system.               *)
THEOREM DocumentsAdvance == Spec => DocumentsOnlyAdvance
<1>1. TypeOK /\ TasksHaveChecks /\ InvoiceLinks /\ StampsFollow /\ [Next]_vars
        => [/\ \A p \in PurchaseOrders : OrderAdvances(p)
            /\ \A i \in Invoices : InvoiceAdvances(i)]_vars
  BY OrdersAdvance, InvoicesAdvance
<1>2. Stamped => StampsFollow
  BY DEF Stamped, StampsFollow
<1> QED
  BY <1>1, <1>2, TypeCorrect, OrdersAndInvoicesLinked, StampsTellStage, PTL
  DEF Spec, DocumentsOnlyAdvance
=============================================================================
