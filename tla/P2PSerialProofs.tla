-------------------------- MODULE P2PSerialProofs --------------------------
(***************************************************************************)
(* Proofs about P2PThreads used with one request per order at a time:      *)
(* that every commit then is a step of P2P, and that the promises which    *)
(* races break are kept, as is the contract of Payables.                   *)
(***************************************************************************)
EXTENDS P2PThreadsProofs, P2PPayablesProofs

(* What a request has in hand is what the rules make of the tables as they *)
(* are now.                                                                *)
OrderIsFresh(orders, h) ==
    LET operation == h.request.operation
        p == h.request.purchase_order_id
    IN  /\ operation = "purchase_order.create" =>
              \E v \in VendorIds, order \in Orders :
                  /\ h.request = CreateOrderRequest(v, order)
                  /\ OrderRefusal(v, order) = "OK"
                  /\ h.order = DraftPurchaseOrder(v, order, h.key)
        /\ operation = "purchase_order.submit" =>
              /\ ~SubmittedUnder(orders[p], h.key)
              /\ SubmitRefusal(orders[p]) = "OK"
              /\ h.order = Submitted(orders[p], h.key)
        /\ operation = "purchase_order.receive" =>
              /\ ReceiptRefusal(orders[p], h.request.line_items) = "OK"
              /\ h.order = Received(orders[p], h.request.line_items)
        /\ (operation \in {"purchase_order.submit", "purchase_order.receive"} /\ h.step = "commit") =>
              h.row = orders[p]

NewInvoiceIsFresh(orders, h) ==
    h.request.operation = "invoice.create" =>
        \E v \in VendorIds, p \in PurchaseOrders, number \in InvoiceNumbers, amount \in Amounts :
            /\ h.request = CreateInvoiceRequest(v, p, number, amount)
            /\ InvoiceRefusal(v, orders[p], FALSE) = "OK"
            /\ h.invoice = PendingInvoice(v, p, number, amount)

InvoiceIsFresh(orders, rows, h) ==
    LET operation == h.request.operation
        inv == rows[h.request.invoice_id]
        po == orders[inv.purchase_order_id]
    IN  /\ (operation \in {"invoice.match", "invoice.pay"} /\ h.step \in {"find", "load"}) =>
              h.invoice = inv
        /\ (operation = "invoice.match" /\ h.step \notin {"find", "load"}) =>
              /\ MatchRefusal(inv, po) = "OK"
              /\ h.order = po
              /\ h.invoice = Matched(inv, MatchOutcome(inv.invoice_amount, po), h.key)
        /\ operation = "invoice.approve" =>
              ApprovalRefusal(inv) = "OK" /\ h.invoice = Approved(inv, h.key)
        /\ (operation = "invoice.pay" /\ h.step \notin {"find", "load"}) =>
              /\ PaymentRefusal(inv, po) = "OK"
              /\ h.order = Closed(po)
              /\ h.invoice = Paid(inv, h.key)
        /\ (operation \in {"invoice.match", "invoice.approve", "invoice.pay"} /\ h.step = "commit") =>
              h.row = inv

Fresh(orders, rows, h) ==
    /\ OrderIsFresh(orders, h)
    /\ NewInvoiceIsFresh(orders, h)
    /\ InvoiceIsFresh(orders, rows, h)

HandsAreFresh ==
    \A t \in Threads : threads[t] # Idle => Fresh(purchase_orders, invoices, threads[t])

(* A request about an order has an order, and one that changes a row has a *)
(* row to change.                                                          *)
LEMMA OrderInFlight ==
    ASSUME ThreadsInv, HandsAreFresh, NEW t \in Threads, threads[t] # Idle
    PROVE  LET operation == Operation(t)
               p == threads[t].request.purchase_order_id
               i == threads[t].request.invoice_id
           IN  /\ operation \in {"purchase_order.submit", "purchase_order.receive", "invoice.create"} =>
                     p \in PurchaseOrders /\ purchase_orders[p] # None /\ OrderOf(t) = p
               /\ operation \in {"invoice.match", "invoice.approve", "invoice.pay"} =>
                     /\ i \in Invoices
                     /\ invoices[i] \in Invoice
                     /\ invoices[i] # None
                     /\ invoices[i].purchase_order_id \in PurchaseOrders
                     /\ OrderOf(t) = invoices[i].purchase_order_id
<1> DEFINE r == threads[t].request
<1>1. /\ r \in Request
      /\ OrderInHand(purchase_orders, threads[t])
      /\ InvoiceInHand(purchase_orders, invoices, threads[t])
      /\ TypeOK
  BY HeldByThread DEF ThreadsInv, ThreadsTypeOK
<1>2. ASSUME Operation(t) \in {"purchase_order.submit", "purchase_order.receive"}
      PROVE  /\ r.purchase_order_id \in PurchaseOrders
             /\ purchase_orders[r.purchase_order_id] # None
             /\ OrderOf(t) = r.purchase_order_id
  <2>1. r.purchase_order_id \in PurchaseOrders
    BY <1>1, <1>2, RequestNames DEF Operation
  <2>2. threads[t].order # None /\ SameOrigin(threads[t].order, purchase_orders[r.purchase_order_id])
    BY <1>1, <1>2, NoneAssumption DEF OrderInHand, Operation, SameOrigin
  <2> QED
    BY <1>2, <2>1, <2>2 DEF SameOrigin, OrderOf
<1>3. ASSUME Operation(t) = "invoice.create"
      PROVE  /\ r.purchase_order_id \in PurchaseOrders
             /\ purchase_orders[r.purchase_order_id] # None
             /\ OrderOf(t) = r.purchase_order_id
  <2>1. PICK v \in VendorIds, p \in PurchaseOrders, number \in InvoiceNumbers, amount \in Amounts :
               /\ r = CreateInvoiceRequest(v, p, number, amount)
               /\ InvoiceRefusal(v, purchase_orders[p], FALSE) = "OK"
    BY <1>3 DEF HandsAreFresh, Fresh, NewInvoiceIsFresh, Operation
  <2>2. r.purchase_order_id = p
    BY <2>1 DEF CreateInvoiceRequest
  <2>3. purchase_orders[p] # None
    BY <2>1 DEF InvoiceRefusal
  <2> QED
    BY <1>3, <2>2, <2>3 DEF OrderOf
<1>4. ASSUME Operation(t) \in {"invoice.match", "invoice.approve", "invoice.pay"}
      PROVE  /\ r.invoice_id \in Invoices
             /\ invoices[r.invoice_id] \in Invoice
             /\ invoices[r.invoice_id] # None
             /\ invoices[r.invoice_id].purchase_order_id \in PurchaseOrders
             /\ OrderOf(t) = invoices[r.invoice_id].purchase_order_id
  <2>1. r.invoice_id \in Invoices
    BY <1>1, <1>4, RequestNames DEF Operation
  <2>2. invoices[r.invoice_id] # None
    BY <1>1, <1>4 DEF InvoiceInHand, Operation, SameInvoice
  <2>3. invoices[r.invoice_id] \in Invoice
    BY <1>1, <2>1, <2>2 DEF TypeOK
  <2>4. OrderOf(t) = invoices[r.invoice_id].purchase_order_id
    BY <1>4 DEF OrderOf
  <2> QED
    BY <2>1, <2>2, <2>3, <2>4 DEF Invoice
<1> QED
  BY <1>2, <1>3, <1>4

(* A commit that changes no row of an order but its own leaves what the    *)
(* others have in hand fresh.                                              *)
LEMMA OthersStayFresh ==
    ASSUME ThreadsInv, HandsAreFresh, OneRequestPerOrder, NEW t \in Threads,
           threads' = [threads EXCEPT ![t] = Idle],
           \A q \in PurchaseOrders : (purchase_orders[q] # None /\ q # OrderOf(t)) =>
               purchase_orders'[q] = purchase_orders[q],
           \A i \in Invoices : (invoices[i] # None /\ invoices[i].purchase_order_id # OrderOf(t)) =>
               invoices'[i] = invoices[i]
    PROVE  HandsAreFresh'
<1> SUFFICES ASSUME NEW s \in Threads, threads'[s] # Idle
             PROVE  Fresh(purchase_orders', invoices', threads'[s])
  BY DEF HandsAreFresh
<1> DEFINE h == threads[s]
           p == h.request.purchase_order_id
           i == h.request.invoice_id
<1>1. threads'[s] = h /\ s # t /\ h # Idle
  BY DEF ThreadsInv, ThreadsTypeOK
<1>2. Fresh(purchase_orders, invoices, h)
  BY <1>1 DEF HandsAreFresh
<1>3. OrderOf(s) # None => OrderOf(s) # OrderOf(t)
  BY <1>1 DEF OneRequestPerOrder
<1>4. \A q \in PurchaseOrders : q # None
  BY NoneAssumption
<1>5. Operation(s) \in {"purchase_order.submit", "purchase_order.receive", "invoice.create"} =>
         purchase_orders'[p] = purchase_orders[p]
  BY <1>1, <1>3, <1>4, OrderInFlight
<1>6. Operation(s) \in {"invoice.match", "invoice.approve", "invoice.pay"} =>
         /\ invoices'[i] = invoices[i]
         /\ purchase_orders[invoices[i].purchase_order_id] # None =>
               purchase_orders'[invoices[i].purchase_order_id] =
                   purchase_orders[invoices[i].purchase_order_id]
  BY <1>1, <1>3, <1>4, OrderInFlight
<1>7. OrderIsFresh(purchase_orders', h)
  BY <1>2, <1>5 DEF Fresh, OrderIsFresh, Operation
<1>8. NewInvoiceIsFresh(purchase_orders', h)
  <2> SUFFICES ASSUME Operation(s) = "invoice.create"
               PROVE  NewInvoiceIsFresh(purchase_orders', h)
    BY DEF NewInvoiceIsFresh, Operation
  <2>1. PICK v \in VendorIds, q \in PurchaseOrders, number \in InvoiceNumbers, amount \in Amounts :
               /\ h.request = CreateInvoiceRequest(v, q, number, amount)
               /\ InvoiceRefusal(v, purchase_orders[q], FALSE) = "OK"
               /\ h.invoice = PendingInvoice(v, q, number, amount)
    BY <1>2 DEF Fresh, NewInvoiceIsFresh, Operation
  <2>2. q = p
    BY <2>1 DEF CreateInvoiceRequest
  <2>3. InvoiceRefusal(v, purchase_orders'[q], FALSE) = "OK"
    BY <1>5, <2>1, <2>2
  <2> QED
    BY <2>1, <2>3 DEF NewInvoiceIsFresh
<1>9. InvoiceIsFresh(purchase_orders', invoices', h)
  <2>1. InvoiceIsFresh(purchase_orders, invoices, h)
    BY <1>2 DEF Fresh
  <2>2. \A inv, po : MatchRefusal(inv, po) = "OK" \/ PaymentRefusal(inv, po) = "OK" => po # None
    BY DEF MatchRefusal, PaymentRefusal
  <2> QED
    BY <1>6, <2>1, <2>2 DEF InvoiceIsFresh, Operation
<1> QED
  BY <1>1, <1>7, <1>8, <1>9 DEF Fresh

(* So does a step that only changes what one thread has in hand.           *)
LEMMA FreshHandStep ==
    ASSUME ThreadsInv, HandsAreFresh, NEW t \in Threads, NEW h, UNCHANGED vars,
           threads' = [threads EXCEPT ![t] = h],
           h # Idle => Fresh(purchase_orders, invoices, h)
    PROVE  HandsAreFresh'
<1>1. threads'[t] = h /\ \A s \in Threads : s # t => threads'[s] = threads[s]
  BY DEF ThreadsInv, ThreadsTypeOK
<1>2. purchase_orders' = purchase_orders /\ invoices' = invoices
  BY DEF vars, documents
<1> QED
  BY <1>1, <1>2 DEF HandsAreFresh

(* A first read is fresh, as nothing happens in between.                   *)
LEMMA StartIsFresh ==
    ASSUME ThreadsInv, HandsAreFresh, NEW t \in Threads, NEW k \in Keys, StartStep(t, k)
    PROVE  HandsAreFresh'
<1> DEFINE Holds(h, request, step, invoice, order) ==
              /\ h.request = request /\ h.step = step /\ h.key = k
              /\ h.invoice = invoice /\ h.order = order
<1>1. ASSUME NEW request, NEW step, NEW invoice, NEW order,
             Start(t, k, request, step, invoice, order),
             \A h : Holds(h, request, step, invoice, order) => Fresh(purchase_orders, invoices, h)
      PROVE  HandsAreFresh'
  <2> DEFINE h == [step |-> step, key |-> k, request |-> request,
                   invoice |-> invoice, order |-> order, row |-> None]
  <2>1. UNCHANGED vars /\ threads' = [threads EXCEPT ![t] = h]
    BY <1>1 DEF Start
  <2>2. Holds(h, request, step, invoice, order)
    OBVIOUS
  <2> HIDE DEF h
  <2>3. Fresh(purchase_orders, invoices, h)
    BY <1>1, <2>2
  <2> QED
    BY <2>1, <2>3, FreshHandStep
<1>2. ASSUME NEW v \in VendorIds, NEW order \in Orders, StartCreateOrder(t, k, v, order)
      PROVE  HandsAreFresh'
  <2> DEFINE request == CreateOrderRequest(v, order)
             draft == DraftPurchaseOrder(v, order, k)
  <2>1. request.operation = "purchase_order.create"
    BY DEF CreateOrderRequest
  <2>2. OrderRefusal(v, order) = "OK" /\ Start(t, k, request, "commit", None, draft)
    BY <1>2 DEF StartCreateOrder
  <2>3. ASSUME NEW h, Holds(h, request, "commit", None, draft)
        PROVE  Fresh(purchase_orders, invoices, h)
    BY <2>1, <2>2, <2>3
       DEF Fresh, OrderIsFresh, NewInvoiceIsFresh, InvoiceIsFresh
  <2> QED
    BY <1>1, <2>2, <2>3
<1>3. ASSUME NEW p \in PurchaseOrders, StartSubmit(t, k, p)
      PROVE  HandsAreFresh'
  <2> DEFINE request == [operation |-> "purchase_order.submit", purchase_order_id |-> p]
             order == Submitted(purchase_orders[p], k)
  <2>1. request.operation = "purchase_order.submit" /\ request.purchase_order_id = p
    OBVIOUS
  <2>2. /\ ~SubmittedUnder(purchase_orders[p], k)
        /\ SubmitRefusal(purchase_orders[p]) = "OK"
        /\ Start(t, k, request, "reread", None, order)
    BY <1>3 DEF StartSubmit
  <2> HIDE DEF request
  <2>3. ASSUME NEW h, Holds(h, request, "reread", None, order)
        PROVE  Fresh(purchase_orders, invoices, h)
    BY <2>1, <2>2, <2>3
       DEF Fresh, OrderIsFresh, NewInvoiceIsFresh, InvoiceIsFresh
  <2> QED
    BY <1>1, <2>2, <2>3
<1>4. ASSUME NEW p \in PurchaseOrders, NEW delivery \in Deliveries, StartReceive(t, k, p, delivery)
      PROVE  HandsAreFresh'
  <2> DEFINE request == ReceiveRequest(p, delivery)
             order == Received(purchase_orders[p], delivery)
  <2>1. /\ request.operation = "purchase_order.receive"
        /\ request.purchase_order_id = p
        /\ request.line_items = delivery
    BY DEF ReceiveRequest
  <2>2. /\ ReceiptRefusal(purchase_orders[p], delivery) = "OK"
        /\ Start(t, k, request, "reread", None, order)
    BY <1>4 DEF StartReceive
  <2> HIDE DEF request
  <2>3. ASSUME NEW h, Holds(h, request, "reread", None, order)
        PROVE  Fresh(purchase_orders, invoices, h)
    BY <2>1, <2>2, <2>3
       DEF Fresh, OrderIsFresh, NewInvoiceIsFresh, InvoiceIsFresh
  <2> QED
    BY <1>1, <2>2, <2>3
<1>5. ASSUME NEW v \in VendorIds, NEW p \in PurchaseOrders, NEW number \in InvoiceNumbers,
             NEW amount \in Amounts, StartCreateInvoice(t, k, v, p, number, amount)
      PROVE  HandsAreFresh'
  <2> DEFINE request == CreateInvoiceRequest(v, p, number, amount)
             invoice == PendingInvoice(v, p, number, amount)
  <2>1. request.operation = "invoice.create"
    BY DEF CreateInvoiceRequest
  <2>2. /\ InvoiceRefusal(v, purchase_orders[p], FALSE) = "OK"
        /\ Start(t, k, request, "commit", invoice, None)
    BY <1>5 DEF StartCreateInvoice, InvoiceRefusal
  <2>3. ASSUME NEW h, Holds(h, request, "commit", invoice, None)
        PROVE  Fresh(purchase_orders, invoices, h)
    BY <2>1, <2>2, <2>3
       DEF Fresh, OrderIsFresh, NewInvoiceIsFresh, InvoiceIsFresh
  <2> QED
    BY <1>1, <2>2, <2>3
<1>6. ASSUME NEW i \in Invoices, StartMatch(t, k, i)
      PROVE  HandsAreFresh'
  <2> DEFINE request == [operation |-> "invoice.match", invoice_id |-> i]
  <2>1. request.operation = "invoice.match" /\ request.invoice_id = i
    OBVIOUS
  <2>2. Start(t, k, request, "find", invoices[i], None)
    BY <1>6 DEF StartMatch
  <2> HIDE DEF request
  <2>3. ASSUME NEW h, Holds(h, request, "find", invoices[i], None)
        PROVE  Fresh(purchase_orders, invoices, h)
    BY <2>1, <2>2, <2>3
       DEF Fresh, OrderIsFresh, NewInvoiceIsFresh, InvoiceIsFresh
  <2> QED
    BY <1>1, <2>2, <2>3
<1>7. ASSUME NEW i \in Invoices, StartApprove(t, k, i)
      PROVE  HandsAreFresh'
  <2> DEFINE request == [operation |-> "invoice.approve", invoice_id |-> i]
             invoice == Approved(invoices[i], k)
  <2>1. request.operation = "invoice.approve" /\ request.invoice_id = i
    OBVIOUS
  <2>2. ApprovalRefusal(invoices[i]) = "OK" /\ Start(t, k, request, "reread", invoice, None)
    BY <1>7 DEF StartApprove
  <2> HIDE DEF request
  <2>3. ASSUME NEW h, Holds(h, request, "reread", invoice, None)
        PROVE  Fresh(purchase_orders, invoices, h)
    BY <2>1, <2>2, <2>3
       DEF Fresh, OrderIsFresh, NewInvoiceIsFresh, InvoiceIsFresh
  <2> QED
    BY <1>1, <2>2, <2>3
<1>8. ASSUME NEW i \in Invoices, StartPay(t, k, i)
      PROVE  HandsAreFresh'
  <2> DEFINE request == [operation |-> "invoice.pay", invoice_id |-> i]
  <2>1. request.operation = "invoice.pay" /\ request.invoice_id = i
    OBVIOUS
  <2>2. Start(t, k, request, "load", invoices[i], None)
    BY <1>8 DEF StartPay
  <2> HIDE DEF request
  <2>3. ASSUME NEW h, Holds(h, request, "load", invoices[i], None)
        PROVE  Fresh(purchase_orders, invoices, h)
    BY <2>1, <2>2, <2>3
       DEF Fresh, OrderIsFresh, NewInvoiceIsFresh, InvoiceIsFresh
  <2> QED
    BY <1>1, <2>2, <2>3
<1> QED
  BY <1>2, <1>3, <1>4, <1>5, <1>6, <1>7, <1>8 DEF StartStep

(* And so are the later reads.                                             *)
LEMMA LaterReadsAreFresh ==
    ASSUME ThreadsInv, HandsAreFresh, NEW t \in Threads,
           FindOrder(t) \/ LoadOrder(t) \/ Reread(t) \/ RollBack(t)
    PROVE  HandsAreFresh'
<1> DEFINE r == threads[t].request
           i == r.invoice_id
           inv == threads[t].invoice
           po == purchase_orders[inv.purchase_order_id]
<1>1. UNCHANGED vars /\ threads \in [Threads -> Working \cup {Idle}]
  BY DEF FindOrder, LoadOrder, Reread, RollBack, ThreadsInv, ThreadsTypeOK
<1> USE DEF Fresh, OrderIsFresh, NewInvoiceIsFresh, InvoiceIsFresh, Operation
<1>2. CASE LoadOrder(t)
  <2>1. threads[t].step = "load" /\ Operation(t) \in {"invoice.match", "invoice.pay"}
    BY <1>2 DEF LoadOrder
  <2>2. threads[t] # Idle
    BY <2>1, AtAThreadStep
  <2>3. threads[t] \in Working /\ inv = invoices[i]
    BY <2>1, <2>2, HeldByThread DEF HandsAreFresh
  <2>4. PICK order, invoice :
           /\ threads' = [threads EXCEPT ![t].step = "reread", ![t].order = order, ![t].invoice = invoice]
           /\ \/ /\ Operation(t) = "invoice.match"
                 /\ MatchRefusal(inv, po) = "OK"
                 /\ order = po
                 /\ invoice = Matched(inv, MatchOutcome(inv.invoice_amount, po), threads[t].key)
              \/ /\ Operation(t) = "invoice.pay"
                 /\ PaymentRefusal(inv, po) = "OK"
                 /\ order = Closed(po)
                 /\ invoice = Paid(inv, threads[t].key)
    BY <1>2 DEF LoadOrder
  <2> DEFINE h == [threads[t] EXCEPT !.step = "reread", !.order = order, !.invoice = invoice]
  <2>5. threads' = [threads EXCEPT ![t] = h]
    BY <1>1, <2>4
  <2>6. /\ h.step = "reread" /\ h.key = threads[t].key /\ h.request = r
        /\ h.order = order /\ h.invoice = invoice
    BY <2>3 DEF Working
  <2> HIDE DEF h
  <2>7. Fresh(purchase_orders, invoices, h)
    BY <2>1, <2>3, <2>4, <2>6
  <2> QED
    BY <1>1, <2>5, <2>7, FreshHandStep
<1>3. CASE Reread(t)
  <2> DEFINE row == IF Operation(t) \in {"purchase_order.submit", "purchase_order.receive"}
                    THEN purchase_orders[r.purchase_order_id] ELSE invoices[r.invoice_id]
             h == [threads[t] EXCEPT !.step = "commit", !.row = row]
  <2>1. threads[t].step = "reread"
    BY <1>3 DEF Reread
  <2>2. threads[t] # Idle
    BY <2>1, AtAThreadStep
  <2>3. threads[t] \in Working /\ Fresh(purchase_orders, invoices, threads[t])
    BY <2>2, HeldByThread DEF HandsAreFresh
  <2>4. threads' = [threads EXCEPT ![t] = h]
    BY <1>1, <1>3 DEF Reread
  <2>5. row = IF Operation(t) \in {"purchase_order.submit", "purchase_order.receive"}
              THEN purchase_orders[r.purchase_order_id] ELSE invoices[r.invoice_id]
    OBVIOUS
  <2> HIDE DEF row
  <2>6. /\ h.step = "commit" /\ h.key = threads[t].key /\ h.request = r
        /\ h.order = threads[t].order /\ h.invoice = inv /\ h.row = row
    BY <2>3 DEF Working
  <2> HIDE DEF h
  <2>7. OrderIsFresh(purchase_orders, h)
    BY <2>3, <2>5, <2>6
  <2>8. NewInvoiceIsFresh(purchase_orders, h)
    BY <2>3, <2>6
  <2>9. InvoiceIsFresh(purchase_orders, invoices, h)
    BY <2>1, <2>3, <2>5, <2>6
  <2> QED
    BY <1>1, <2>4, <2>7, <2>8, <2>9, FreshHandStep
<1>4. CASE FindOrder(t)
  <2> DEFINE h == [threads[t] EXCEPT !.step = "load"]
  <2>1. threads[t].step = "find" /\ Operation(t) = "invoice.match"
    BY <1>4 DEF FindOrder, At
  <2>2. threads[t] # Idle
    BY <2>1, AtAThreadStep
  <2>3. threads[t] \in Working /\ Fresh(purchase_orders, invoices, threads[t])
    BY <2>2, HeldByThread DEF HandsAreFresh
  <2>4. threads' = [threads EXCEPT ![t] = h]
    BY <1>1, <1>4 DEF FindOrder
  <2>5. /\ h.step = "load" /\ h.key = threads[t].key /\ h.request = r
        /\ h.order = threads[t].order /\ h.invoice = inv
    BY <2>3 DEF Working
  <2> HIDE DEF h
  <2>6. Fresh(purchase_orders, invoices, h)
    BY <2>1, <2>3, <2>5
  <2> QED
    BY <1>1, <2>4, <2>6, FreshHandStep
<1>5. CASE RollBack(t)
  BY <1>1, <1>5, FreshHandStep DEF RollBack
<1> QED
  BY <1>2, <1>3, <1>4, <1>5

(* With nothing read in vain, an update writes what the rule returned.     *)
LEMMA FreshUpdateIsWhole ==
    /\ \A current, new \in Invoice : Written(current, current, new) = new
    /\ \A current, new \in PurchaseOrder : WrittenOrder(current, current, new) = new
<1>1. ASSUME NEW current \in Invoice, NEW new \in Invoice
      PROVE  Written(current, current, new) = new
  <2> DEFINE w == Written(current, current, new)
  <2>1. w = [c \in DOMAIN new |-> new[c]]
    BY DEF Written, Invoice
  <2> QED
    BY <2>1 DEF Invoice
<1>2. ASSUME NEW current \in PurchaseOrder, NEW new \in PurchaseOrder
      PROVE  WrittenOrder(current, current, new) = new
  <2>1. Written(current, current, new) = [c \in DOMAIN new |-> new[c]]
    BY DEF Written, PurchaseOrder
  <2>2. Written(current, current, new) = new
    BY <2>1 DEF PurchaseOrder
  <2>3. current.qty_received \in LineQuantities /\ new.qty_received \in LineQuantities
    BY DEF PurchaseOrder
  <2>4. Written(current.qty_received, current.qty_received, new.qty_received) = new.qty_received
    BY <2>3 DEF Written, LineQuantities
  <2>5. [new EXCEPT !.qty_received = new.qty_received] = new
    BY DEF PurchaseOrder
  <2> QED
    BY <2>2, <2>4, <2>5 DEF WrittenOrder
<1> QED
  BY <1>1, <1>2

(* A commit that ends its request and writes no row of another order.      *)
OnlyItsOrder(t) ==
    /\ threads' = [threads EXCEPT ![t] = Idle]
    /\ \A q \in PurchaseOrders : (purchase_orders[q] # None /\ q # OrderOf(t)) =>
          purchase_orders'[q] = purchase_orders[q]
    /\ \A i \in Invoices : (invoices[i] # None /\ invoices[i].purchase_order_id # OrderOf(t)) =>
          invoices'[i] = invoices[i]

(* What a request that is about to commit has in hand.                     *)
LEMMA FreshAtCommit ==
    ASSUME ThreadsInv, HandsAreFresh, NEW t \in Threads, NEW operations, At(t, "commit", operations)
    PROVE  /\ threads[t] # Idle
           /\ threads[t].step = "commit"
           /\ threads[t].key \in Keys
           /\ threads[t].request \in Request
           /\ Fresh(purchase_orders, invoices, threads[t])
           /\ TypeOK
BY HeldAtCommit DEF HandsAreFresh

(* Each commit is the step of the serial system that serves the request.   *)
LEMMA CommitCreateOrderIsSerial ==
    ASSUME ThreadsInv, HandsAreFresh, NEW t \in Threads, NEW p \in PurchaseOrders,
           CommitCreateOrder(t, p)
    PROVE  Next /\ OnlyItsOrder(t)
<1> DEFINE k == threads[t].key
<1>1. /\ threads[t] # Idle
      /\ k \in Keys
      /\ Operation(t) = "purchase_order.create"
      /\ Fresh(purchase_orders, invoices, threads[t])
      /\ TypeOK
  BY FreshAtCommit DEF CommitCreateOrder, At
<1>2. PICK v \in VendorIds, order \in Orders :
          /\ threads[t].request = CreateOrderRequest(v, order)
          /\ OrderRefusal(v, order) = "OK"
          /\ threads[t].order = DraftPurchaseOrder(v, order, k)
  BY <1>1 DEF Fresh, OrderIsFresh, Operation
<1>3. CreatePurchaseOrder(k, v, order, p)
  BY <1>2 DEF CommitCreateOrder, Finish, CreatePurchaseOrder
<1>4. Next
  BY <1>1, <1>3 DEF Next, OrderStep
<1>5. OnlyItsOrder(t)
  BY <1>1 DEF CommitCreateOrder, Finish, OnlyItsOrder, TypeOK
<1> QED
  BY <1>4, <1>5

(* The row it writes is the one that submission or receipt makes of the    *)
(* order as it is.                                                         *)
LEMMA CommitOrderIsSerial ==
    ASSUME ThreadsInv, HandsAreFresh, NEW t \in Threads, CommitOrder(t)
    PROVE  Next /\ OnlyItsOrder(t)
<1> DEFINE k == threads[t].key
           r == threads[t].request
           p == r.purchase_order_id
           order == threads[t].order
<1>1. /\ threads[t] # Idle
      /\ threads[t].step = "commit"
      /\ k \in Keys
      /\ r \in Request
      /\ Operation(t) \in {"purchase_order.submit", "purchase_order.receive"}
      /\ Fresh(purchase_orders, invoices, threads[t])
      /\ TypeOK
  BY FreshAtCommit DEF CommitOrder, At
<1>2. p \in PurchaseOrders /\ purchase_orders[p] # None /\ OrderOf(t) = p
  BY <1>1, OrderInFlight
<1>3. purchase_orders[p] \in PurchaseOrder /\ order \in PurchaseOrder /\ threads[t].row = purchase_orders[p]
  <2>1. purchase_orders[p] \in PurchaseOrder
    BY <1>1, <1>2 DEF TypeOK
  <2>2. SameOrigin(order, purchase_orders[p])
    BY <1>1, HeldByThread DEF OrderInHand, Operation
  <2> QED
    BY <1>1, <2>1, <2>2 DEF Fresh, OrderIsFresh, Operation, SameOrigin
<1>4. WrittenOrder(purchase_orders[p], threads[t].row, order) = order
  BY <1>3, FreshUpdateIsWhole
<1>5. /\ purchase_orders' = [purchase_orders EXCEPT ![p] = order]
      /\ ~Recorded(k)
      /\ Record(k, r, p)
      /\ threads' = [threads EXCEPT ![t] = Idle]
      /\ UNCHANGED <<invoices, invoice_match_snapshots, gl_entries, credit>>
  BY <1>4 DEF CommitOrder, Finish
<1>6. OnlyItsOrder(t)
  <2> HIDE DEF order, p
  <2> QED
    BY <1>1, <1>2, <1>5 DEF OnlyItsOrder, TypeOK
<1>7. CASE Operation(t) = "purchase_order.submit"
  <2>1. /\ ~SubmittedUnder(purchase_orders[p], k)
        /\ SubmitRefusal(purchase_orders[p]) = "OK"
        /\ order = Submitted(purchase_orders[p], k)
    BY <1>1, <1>7 DEF Fresh, OrderIsFresh, Operation
  <2>2. r = [operation |-> "purchase_order.submit", purchase_order_id |-> p]
    BY <1>1, <1>7 DEF Request, Operation
  <2>3. UNCHANGED goods_receipts
    BY <1>7 DEF CommitOrder
  <2> HIDE DEF p, r, order, k
  <2>4. SubmitPurchaseOrder(k, p)
    BY <1>5, <2>1, <2>2, <2>3 DEF SubmitPurchaseOrder, history
  <2> QED
    BY <1>1, <1>2, <1>6, <2>4 DEF Next, OrderStep
<1>8. CASE Operation(t) = "purchase_order.receive"
  <2> DEFINE delivery == r.line_items
  <2>1. /\ ReceiptRefusal(purchase_orders[p], delivery) = "OK"
        /\ order = Received(purchase_orders[p], delivery)
    BY <1>1, <1>8 DEF Fresh, OrderIsFresh, Operation
  <2>2. r = ReceiveRequest(p, delivery) /\ delivery \in Deliveries
    BY <1>1, <1>8 DEF Request, ReceiveRequest, Operation
  <2>3. /\ goods_receipts[k] = None
        /\ goods_receipts' = [goods_receipts EXCEPT ![k] = [po_id |-> p, line_items |-> delivery]]
    BY <1>8 DEF CommitOrder
  <2> HIDE DEF p, r, order, k, delivery
  <2>4. ReceiveGoods(k, p, delivery)
    BY <1>5, <2>1, <2>2, <2>3 DEF ReceiveGoods
  <2> QED
    BY <1>1, <1>2, <1>6, <2>2, <2>4 DEF Next, OrderStep
<1> QED
  BY <1>1, <1>7, <1>8

(* The order can still be invoiced, for no one else was about it.          *)
LEMMA CommitCreateInvoiceIsSerial ==
    ASSUME ThreadsInv, HandsAreFresh, NEW t \in Threads, NEW i \in Invoices,
           NEW channel \in Channels, CommitCreateInvoice(t, i, channel)
    PROVE  Next /\ OnlyItsOrder(t)
<1> DEFINE k == threads[t].key
<1>1. /\ threads[t] # Idle
      /\ k \in Keys
      /\ Operation(t) = "invoice.create"
      /\ Fresh(purchase_orders, invoices, threads[t])
      /\ TypeOK
  BY FreshAtCommit DEF CommitCreateInvoice, At
<1>2. PICK v \in VendorIds, p \in PurchaseOrders, number \in InvoiceNumbers, amount \in Amounts :
          /\ threads[t].request = CreateInvoiceRequest(v, p, number, amount)
          /\ InvoiceRefusal(v, purchase_orders[p], FALSE) = "OK"
          /\ threads[t].invoice = PendingInvoice(v, p, number, amount)
  BY <1>1 DEF Fresh, NewInvoiceIsFresh, Operation
<1>3. /\ threads[t].invoice.vendor_id = v
      /\ threads[t].invoice.purchase_order_id = p
      /\ threads[t].invoice.invoice_number = number
      /\ threads[t].request.purchase_order_id = p
  BY <1>2 DEF PendingInvoice, CreateInvoiceRequest
<1>4. HasInvoiceNumber(v, number) = FALSE
  BY <1>3 DEF CommitCreateInvoice, HasInvoiceNumber
<1>5. CreateInvoice(k, v, p, number, amount, i, channel)
  BY <1>2, <1>3, <1>4 DEF CommitCreateInvoice, Finish, CreateInvoice
<1>6. Next
  BY <1>1, <1>5 DEF Next, InvoiceStep
<1>7. OrderOf(t) = p
  BY <1>1, <1>3, OrderInFlight
<1>8. OnlyItsOrder(t)
  BY <1>1, <1>3, <1>7 DEF CommitCreateInvoice, Finish, OnlyItsOrder, TypeOK
<1> QED
  BY <1>6, <1>8

(* What the three updates of an invoice share.                             *)
LEMMA FreshInvoiceCommit ==
    ASSUME ThreadsInv, HandsAreFresh, NEW t \in Threads,
           At(t, "commit", {"invoice.match", "invoice.approve", "invoice.pay"})
    PROVE  LET i == threads[t].request.invoice_id
               inv == threads[t].invoice
           IN  /\ i \in Invoices
               /\ invoices[i] \in Invoice
               /\ invoices[i] # None
               /\ invoices[i].purchase_order_id \in PurchaseOrders
               /\ OrderOf(t) = invoices[i].purchase_order_id
               /\ inv.purchase_order_id = invoices[i].purchase_order_id
               /\ inv.invoice_amount = invoices[i].invoice_amount
               /\ inv.vendor_id = invoices[i].vendor_id
               /\ Written(invoices[i], threads[t].row, inv) = inv
               /\ threads[t].request = [operation |-> Operation(t), invoice_id |-> i]
<1> DEFINE i == threads[t].request.invoice_id
           inv == threads[t].invoice
<1>1. /\ threads[t] # Idle
      /\ threads[t].step = "commit"
      /\ threads[t].request \in Request
      /\ Operation(t) \in {"invoice.match", "invoice.approve", "invoice.pay"}
      /\ Fresh(purchase_orders, invoices, threads[t])
  BY FreshAtCommit DEF At
<1>2. /\ i \in Invoices
      /\ invoices[i] \in Invoice
      /\ invoices[i] # None
      /\ invoices[i].purchase_order_id \in PurchaseOrders
      /\ OrderOf(t) = invoices[i].purchase_order_id
  BY <1>1, OrderInFlight
<1>3. inv \in Invoice /\ SameInvoice(inv, invoices[i])
  BY CommitWritesInvoice
<1>4. threads[t].row = invoices[i]
  BY <1>1 DEF Fresh, InvoiceIsFresh, Operation
<1>5. Written(invoices[i], threads[t].row, inv) = inv
  BY <1>2, <1>3, <1>4, FreshUpdateIsWhole
<1>6. threads[t].request = [operation |-> Operation(t), invoice_id |-> i]
  BY <1>1 DEF Request, Operation
<1> QED
  BY <1>2, <1>3, <1>5, <1>6 DEF SameInvoice

(* The outcome is that of the goods received by now.                       *)
LEMMA CommitMatchIsSerial ==
    ASSUME ThreadsInv, HandsAreFresh, NEW t \in Threads, CommitMatch(t)
    PROVE  Next /\ OnlyItsOrder(t)
<1> DEFINE k == threads[t].key
           r == threads[t].request
           i == r.invoice_id
           inv == threads[t].invoice
           po == purchase_orders[invoices[i].purchase_order_id]
           outcome == MatchOutcome(invoices[i].invoice_amount, po)
<1>1. /\ threads[t].step = "commit"
      /\ k \in Keys
      /\ Operation(t) = "invoice.match"
      /\ Fresh(purchase_orders, invoices, threads[t])
      /\ TypeOK
  BY FreshAtCommit DEF CommitMatch, At
<1>2. /\ i \in Invoices
      /\ invoices[i] \in Invoice
      /\ invoices[i] # None
      /\ OrderOf(t) = invoices[i].purchase_order_id
      /\ inv.invoice_amount = invoices[i].invoice_amount
      /\ Written(invoices[i], threads[t].row, inv) = inv
      /\ r = [operation |-> "invoice.match", invoice_id |-> i]
  <2>1. At(t, "commit", {"invoice.match", "invoice.approve", "invoice.pay"})
    BY DEF CommitMatch, At
  <2> QED
    BY <1>1, <2>1, FreshInvoiceCommit
<1>3. /\ MatchRefusal(invoices[i], po) = "OK"
      /\ threads[t].order = po
      /\ inv = Matched(invoices[i], outcome, k)
  BY <1>1 DEF Fresh, InvoiceIsFresh, Operation
<1>4. inv.last_match_outcome = outcome
  BY <1>2, <1>3 DEF Matched, Invoice
<1>5. /\ ~Recorded(k)
      /\ Record(k, r, k)
      /\ threads' = [threads EXCEPT ![t] = Idle]
      /\ invoices' = [invoices EXCEPT ![i] = inv]
      /\ invoice_match_snapshots' = [invoice_match_snapshots EXCEPT ![k] =
            [invoice_id |-> i, outcome |-> outcome,
             next_action |-> NextAction(invoices[i].invoice_amount, po)]]
      /\ UNCHANGED <<purchase_orders, goods_receipts, gl_entries, credit>>
  BY <1>2, <1>3, <1>4 DEF CommitMatch, Finish
<1>6. MatchInvoice(k, i)
  BY <1>2, <1>3, <1>5 DEF MatchInvoice
<1>7. Next
  BY <1>1, <1>2, <1>6 DEF Next, InvoiceStep
<1>8. OnlyItsOrder(t)
  <2> HIDE DEF inv, i
  <2> QED
    BY <1>1, <1>2, <1>5 DEF OnlyItsOrder, TypeOK
<1> QED
  BY <1>7, <1>8

(* The invoice is still MATCHED, and so is posted once.                    *)
LEMMA CommitApproveIsSerial ==
    ASSUME ThreadsInv, HandsAreFresh, NEW t \in Threads, NEW channel \in Channels,
           CommitApprove(t, channel)
    PROVE  Next /\ OnlyItsOrder(t)
<1> DEFINE k == threads[t].key
           r == threads[t].request
           i == r.invoice_id
           inv == threads[t].invoice
<1>1. /\ k \in Keys
      /\ Operation(t) = "invoice.approve"
      /\ Fresh(purchase_orders, invoices, threads[t])
      /\ TypeOK
  BY FreshAtCommit DEF CommitApprove, At
<1>2. /\ i \in Invoices
      /\ OrderOf(t) = invoices[i].purchase_order_id
      /\ inv.invoice_amount = invoices[i].invoice_amount
      /\ inv.vendor_id = invoices[i].vendor_id
      /\ Written(invoices[i], threads[t].row, inv) = inv
      /\ r = [operation |-> "invoice.approve", invoice_id |-> i]
  <2>1. At(t, "commit", {"invoice.match", "invoice.approve", "invoice.pay"})
    BY DEF CommitApprove, At
  <2> QED
    BY <1>1, <2>1, FreshInvoiceCommit
<1>3. ApprovalRefusal(invoices[i]) = "OK" /\ inv = Approved(invoices[i], k)
  BY <1>1 DEF Fresh, InvoiceIsFresh, Operation
<1>4. /\ ~Recorded(k)
      /\ Record(k, r, i)
      /\ threads' = [threads EXCEPT ![t] = Idle]
      /\ invoices' = [invoices EXCEPT ![i] = inv]
      /\ GLEntriesAreBalanced(BalancedGLEntries(k, i, invoices[i].invoice_amount))
      /\ gl_entries' = gl_entries \cup BalancedGLEntries(k, i, invoices[i].invoice_amount)
      /\ StartCreditCheck(k, invoices[i].vendor_id, i, "APPROVE", channel)
      /\ UNCHANGED <<purchase_orders, goods_receipts, invoice_match_snapshots>>
  BY <1>2 DEF CommitApprove, Finish
<1>5. ApproveInvoice(k, i, channel)
  BY <1>2, <1>3, <1>4 DEF ApproveInvoice
<1>6. Next
  BY <1>1, <1>2, <1>5 DEF Next, InvoiceStep
<1>7. OnlyItsOrder(t)
  <2> HIDE DEF inv, i
  <2> QED
    BY <1>1, <1>2, <1>4 DEF OnlyItsOrder, TypeOK
<1> QED
  BY <1>6, <1>7

(* The order is still RECEIVED, and closing it overwrites nothing.         *)
LEMMA CommitPayIsSerial ==
    ASSUME ThreadsInv, HandsAreFresh, NEW t \in Threads, CommitPay(t)
    PROVE  Next /\ OnlyItsOrder(t)
<1> DEFINE k == threads[t].key
           r == threads[t].request
           i == r.invoice_id
           inv == threads[t].invoice
           p == invoices[i].purchase_order_id
<1>1. /\ threads[t].step = "commit"
      /\ k \in Keys
      /\ Operation(t) = "invoice.pay"
      /\ Fresh(purchase_orders, invoices, threads[t])
      /\ TypeOK
  BY FreshAtCommit DEF CommitPay, At
<1>2. /\ i \in Invoices
      /\ invoices[i] # None
      /\ OrderOf(t) = p
      /\ inv.purchase_order_id = p
      /\ Written(invoices[i], threads[t].row, inv) = inv
      /\ r = [operation |-> "invoice.pay", invoice_id |-> i]
  <2>1. At(t, "commit", {"invoice.match", "invoice.approve", "invoice.pay"})
    BY DEF CommitPay, At
  <2> QED
    BY <1>1, <2>1, FreshInvoiceCommit
<1>3. /\ PaymentRefusal(invoices[i], purchase_orders[p]) = "OK"
      /\ threads[t].order = Closed(purchase_orders[p])
      /\ inv = Paid(invoices[i], k)
  BY <1>1 DEF Fresh, InvoiceIsFresh, Operation
<1>4. /\ ~Recorded(k)
      /\ Record(k, r, i)
      /\ threads' = [threads EXCEPT ![t] = Idle]
      /\ invoices' = [invoices EXCEPT ![i] = inv]
      /\ purchase_orders' = [purchase_orders EXCEPT ![p] = threads[t].order]
      /\ UNCHANGED <<history, credit>>
  BY <1>2 DEF CommitPay, Finish
<1>5. PayInvoice(k, i)
  BY <1>2, <1>3, <1>4 DEF PayInvoice
<1>6. Next
  BY <1>1, <1>2, <1>5 DEF Next, InvoiceStep
<1>7. OnlyItsOrder(t)
  <2> HIDE DEF inv, i, p
  <2> QED
    BY <1>1, <1>2, <1>4 DEF OnlyItsOrder, TypeOK, p
<1> QED
  BY <1>6, <1>7

(* A step under the discipline is a step of the serial system, or changes  *)
(* no table.                                                               *)
LEMMA SerialStep ==
    ThreadsInv /\ HandsAreFresh /\ OneRequestPerOrder /\ [ThreadsNext]_allvars
        => [Next]_vars /\ HandsAreFresh'
<1> SUFFICES ASSUME ThreadsInv, HandsAreFresh, OneRequestPerOrder, [ThreadsNext]_allvars
             PROVE  [Next]_vars /\ HandsAreFresh'
  OBVIOUS
<1>1. ASSUME NEW t \in Threads, NEW k \in Keys, StartStep(t, k)
      PROVE  [Next]_vars /\ HandsAreFresh'
  <2>1. UNCHANGED vars
    BY <1>1 DEF StartStep, StartCreateOrder, StartSubmit, StartReceive, StartCreateInvoice,
                StartMatch, StartApprove, StartPay, Start
  <2> QED
    BY <1>1, <2>1, StartIsFresh
<1>2. ASSUME NEW t \in Threads, FindOrder(t) \/ LoadOrder(t) \/ Reread(t) \/ RollBack(t)
      PROVE  [Next]_vars /\ HandsAreFresh'
  <2>1. UNCHANGED vars
    BY <1>2 DEF FindOrder, LoadOrder, Reread, RollBack
  <2> QED
    BY <1>2, <2>1, LaterReadsAreFresh
<1>3. ASSUME NEW t \in Threads, CommitStep(t)
      PROVE  [Next]_vars /\ HandsAreFresh'
  <2>1. Next /\ OnlyItsOrder(t)
    BY <1>3, CommitCreateOrderIsSerial, CommitOrderIsSerial, CommitCreateInvoiceIsSerial,
       CommitMatchIsSerial, CommitApproveIsSerial, CommitPayIsSerial DEF CommitStep
  <2> QED
    BY <2>1, OthersStayFresh DEF OnlyItsOrder
<1>4. CASE ThreadsNext
  BY <1>1, <1>2, <1>3, <1>4 DEF ThreadsNext
<1>5. CASE UNCHANGED allvars
  BY <1>5 DEF allvars, vars, documents, HandsAreFresh
<1> QED
  BY <1>4, <1>5

(* Clients that wait for the answer about an order before they send the    *)
(* next request about it see the serial system, however many of them there *)
(* are: their requests behave as if each were served at its commit.        *)
THEOREM SerialPerOrderImplementsP2P ==
    ThreadsSpec /\ []OneRequestPerOrder => ImplementsSerialSystem
<1>1. ThreadsInit => Init /\ HandsAreFresh
  BY DEF ThreadsInit, HandsAreFresh
<1> QED
  BY <1>1, SerialStep, ThreadsInvariant, PTL DEF ThreadsSpec, Spec, ImplementsSerialSystem

(* So what the documentation says of receipts and of postings, and races   *)
(* break, holds for such clients: the receipts of a line stay within what  *)
(* was ordered, and an invoice is posted once, as two entries.             *)
THEOREM SerialPerOrderKeepsTheBooks ==
    ThreadsSpec /\ []OneRequestPerOrder => [](ReceiptsWithinOrder /\ TwoEntriesPerInvoice)
<1>1. ReceiptsAddUp /\ NeverOverReceived => ReceiptsWithinOrder
  BY DEF ReceiptsAddUp, NeverOverReceived, ReceiptsWithinOrder
<1>2. PostedOnce => TwoEntriesPerInvoice
  <2> SUFFICES ASSUME PostedOnce, NEW i \in Invoices
               PROVE  Cardinality(PostedFor(i)) \in {0, 2}
    BY DEF TwoEntriesPerInvoice
  <2>1. ASSUME NEW k, NEW amount
        PROVE  Cardinality(BalancedGLEntries(k, i, amount)) = 2
    <3> DEFINE expense == [posting |-> k, invoice_id |-> i, account_code |-> "EXPENSE",
                           debit |-> amount, credit |-> 0]
               payable == [posting |-> k, invoice_id |-> i, account_code |-> "AP_CONTROL",
                           debit |-> 0, credit |-> amount]
    <3>1. expense.account_code # payable.account_code
      OBVIOUS
    <3>2. BalancedGLEntries(k, i, amount) = {expense} \cup {payable}
      BY DEF BalancedGLEntries
    <3> HIDE DEF expense, payable
    <3>3. IsFiniteSet({expense}) /\ Cardinality({expense}) = 1
      BY FS_Singleton
    <3>4. payable \notin {expense}
      BY <3>1
    <3>5. Cardinality({expense} \cup {payable}) = Cardinality({expense}) + 1
      BY <3>3, <3>4, FS_AddElement
    <3> QED
      BY <3>2, <3>3, <3>5
  <2>2. PostedFor(i) = {} \/ \E k, amount : PostedFor(i) = BalancedGLEntries(k, i, amount)
    BY DEF PostedOnce
  <2>3. CASE PostedFor(i) = {}
    BY <2>3, FS_EmptySet
  <2>4. CASE \E k, amount : PostedFor(i) = BalancedGLEntries(k, i, amount)
    <3>1. PICK k, amount : PostedFor(i) = BalancedGLEntries(k, i, amount)
      BY <2>4
    <3>2. Cardinality(PostedFor(i)) = 2
      BY <2>1, <3>1
    <3> QED
      BY <3>2
  <2> QED
    BY <2>2, <2>3, <2>4
<1> QED
  BY <1>1, <1>2, SerialPerOrderImplementsP2P, ReceiptsAlwaysAddUp, NothingOverReceived,
     LedgerPostedOnce, PTL DEF ImplementsSerialSystem

(* And they get the contract of Payables: whatever the number of threads,  *)
(* what they see of an order is goods, one bill that the goods cover       *)
(* before it is owed, and one posting of it.                               *)
THEOREM SerialPerOrderImplementsPayables ==
    ThreadsSpec /\ []OneRequestPerOrder => ImplementsPayables
<1>1. ImplementsSerialSystem => Spec
  BY DEF ImplementsSerialSystem
<1> QED
  BY <1>1, SerialPerOrderImplementsP2P, ServiceImplementsPayables, PTL
=============================================================================
