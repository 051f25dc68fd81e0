------------------------- MODULE P2PThreadsProofs -------------------------
(***************************************************************************)
(* Proofs about P2PThreads, for every number of threads and every          *)
(* interleaving of their reads and transactions: what a request has in     *)
(* hand between its first read and its commit still fits the tables, so    *)
(* effects are recorded exactly once, no stage is skipped, and every       *)
(* ledger balances.                                                        *)
(***************************************************************************)
EXTENDS P2PThreads, P2PTotalsProofs

-----------------------------------------------------------------------------
(* Columns written and columns kept                                        *)

(* However old the row that was read, an update of an invoice writes an    *)
(* invoice, never its identity, and a status that was there or that the    *)
(* rule returned.                                                          *)
LEMMA WrittenInvoice ==
    ASSUME NEW current \in Invoice, NEW read \in Invoice, NEW new \in Invoice,
           SameInvoice(read, current), SameInvoice(new, current)
    PROVE  LET written == Written(current, read, new)
           IN  /\ written \in Invoice
               /\ SameInvoice(current, written)
               /\ written.status \in {current.status, new.status}
<1>1. Written(current, read, new) \in Invoice
  BY DEF Invoice, Written
<1>2. SameInvoice(current, Written(current, read, new))
  BY <1>1, NoneAssumption DEF Invoice, Written, SameInvoice, TimeStamps
<1>3. Written(current, read, new).status \in {current.status, new.status}
  BY DEF Invoice, Written
<1> QED
  BY <1>1, <1>2, <1>3

(* An update of an order writes an order, made by the same request.        *)
LEMMA WrittenPurchaseOrder ==
    ASSUME NEW current \in PurchaseOrder, NEW read \in PurchaseOrder, NEW new \in PurchaseOrder,
           read.create_idempotency_key = current.create_idempotency_key,
           new.create_idempotency_key = current.create_idempotency_key
    PROVE  LET written == WrittenOrder(current, read, new)
           IN  /\ written \in PurchaseOrder
               /\ written.create_idempotency_key = current.create_idempotency_key
<1>1. Written(current.qty_received, read.qty_received, new.qty_received) \in LineQuantities
  BY DEF PurchaseOrder, LineQuantities, Written
<1>2. Written(current, read, new) \in PurchaseOrder
  BY DEF PurchaseOrder, Written
<1>3. Written(current, read, new).create_idempotency_key = current.create_idempotency_key
  BY DEF PurchaseOrder, Written
<1> QED
  BY <1>1, <1>2, <1>3 DEF WrittenOrder, PurchaseOrder

-----------------------------------------------------------------------------
(* What a request in flight may rely on                                    *)

(* Some match of the invoice was not blocked; the invoice was posted.      *)
WasMatched(snapshots, i) ==
    \E k \in Keys : /\ snapshots[k] # None
                    /\ snapshots[k].invoice_id = i
                    /\ snapshots[k].outcome # "BLOCKED"
WasPosted(entries, i) == \E e \in entries : e.invoice_id = i

(* Two versions of one order. *)
SameOrigin(old, new) ==
    /\ old \in PurchaseOrder
    /\ new # None
    /\ new.create_idempotency_key = old.create_idempotency_key

OrderInHand(orders, h) ==
    LET operation == h.request.operation
    IN  /\ operation = "purchase_order.create" =>
              /\ h.step = "commit"
              /\ h.order \in PurchaseOrder
              /\ h.order.create_idempotency_key = h.key
        /\ operation \in {"purchase_order.submit", "purchase_order.receive"} =>
              /\ h.step \in {"reread", "commit"}
              /\ SameOrigin(h.order, orders[h.request.purchase_order_id])
              /\ h.step = "commit" => SameOrigin(h.row, orders[h.request.purchase_order_id])

InvoiceInHand(orders, rows, h) ==
    LET operation == h.request.operation
    IN  /\ operation = "invoice.create" =>
              /\ h.step = "commit"
              /\ h.invoice \in Invoice
              /\ h.invoice.status = "PENDING"
              /\ orders[h.invoice.purchase_order_id] # None
        /\ operation \in {"invoice.match", "invoice.approve", "invoice.pay"} =>
              /\ h.invoice \in Invoice
              /\ SameInvoice(h.invoice, rows[h.request.invoice_id])
              /\ h.step = "commit" =>
                    h.row \in Invoice /\ SameInvoice(h.row, rows[h.request.invoice_id])

StageInHand(orders, snapshots, entries, h) ==
    LET operation == h.request.operation
        i == h.request.invoice_id
    IN  /\ operation = "invoice.match" =>
              /\ h.invoice.status \in {"PENDING", "MATCHED"}
              /\ h.step \notin {"find", "load"} => h.order \in PurchaseOrder
              /\ h.invoice.status = "MATCHED" =>
                    \/ WasMatched(snapshots, i)
                    \/ h.step \notin {"find", "load"} /\ h.invoice.last_match_outcome # "BLOCKED"
        /\ operation = "invoice.approve" =>
              /\ h.step \in {"reread", "commit"}
              /\ h.invoice.status = "APPROVED"
              /\ WasMatched(snapshots, i)
        /\ operation = "invoice.pay" =>
              /\ WasPosted(entries, i)
              /\ h.step \notin {"find", "load"} =>
                    /\ h.invoice.status = "PAID"
                    /\ SameOrigin(h.order, orders[h.invoice.purchase_order_id])

InHand(orders, rows, snapshots, entries, h) ==
    /\ OrderInHand(orders, h)
    /\ InvoiceInHand(orders, rows, h)
    /\ StageInHand(orders, snapshots, entries, h)

HandsAgree ==
    \A t \in Threads : threads[t] # Idle =>
        InHand(purchase_orders, invoices, invoice_match_snapshots, gl_entries, threads[t])

-----------------------------------------------------------------------------
(* The invariant                                                           *)

(* EffectsAreRecorded, with the key that created an invoice in place of    *)
(* the number of keys that did.                                            *)
CreatedOnce ==
    \A i \in Invoices :
        LET keys == {k \in Keys : RecordedAs(k, "invoice.create", i)}
        IN  IF invoices[i] = None THEN keys = {} ELSE \E k \in Keys : keys = {k}
OrdersAreRecorded ==
    \A p \in PurchaseOrders :
        {k \in Keys : RecordedAs(k, "purchase_order.create", p)} =
            IF purchase_orders[p] = None THEN {} ELSE {purchase_orders[p].create_idempotency_key}
KeysAreRecorded ==
    \A k \in Keys :
        /\ goods_receipts[k] # None <=>
              \E p \in PurchaseOrders : RecordedAs(k, "purchase_order.receive", p)
        /\ invoice_match_snapshots[k] # None <=> RecordedAs(k, "invoice.match", k)
        /\ \A i \in Invoices :
              /\ (\E e \in gl_entries : e.posting = k /\ e.invoice_id = i)
                    <=> RecordedAs(k, "invoice.approve", i)
              /\ (credit_checks[k] # None /\ credit_checks[k].triggering_invoice_id = i)
                    <=> \/ RecordedAs(k, "invoice.approve", i)
                        \/ RecordedAs(k, "invoice.create", i)

StagesFollow ==
    \A i \in Invoices :
        /\ (invoices[i] # None /\ invoices[i].status # "PENDING") =>
              WasMatched(invoice_match_snapshots, i)
        /\ (invoices[i] # None /\ invoices[i].status \in {"APPROVED", "PAID"}) =>
              WasPosted(gl_entries, i)
        /\ WasPosted(gl_entries, i) => WasMatched(invoice_match_snapshots, i)
        /\ (\E k \in Keys : RecordedAs(k, "invoice.pay", i)) => WasPosted(gl_entries, i)

LedgerBalances ==
    /\ IsFiniteSet(gl_entries)
    /\ \A i \in Invoices : PostedFor(i) # {} => GLEntriesAreBalanced(PostedFor(i))

ThreadsInv ==
    /\ ThreadsTypeOK
    /\ HandsAgree
    /\ OrdersAreRecorded
    /\ CreatedOnce
    /\ KeysAreRecorded
    /\ StagesFollow
    /\ LedgerBalances
    /\ InvoicesAreDistinct

(* A request names an order or an invoice, as its operation needs.         *)
LEMMA RequestNames ==
    ASSUME NEW r \in Request
    PROVE  /\ r.operation \in {"purchase_order.submit", "purchase_order.receive"} =>
                 r.purchase_order_id \in PurchaseOrders
           /\ r.operation \in {"invoice.match", "invoice.approve", "invoice.pay"} =>
                 r.invoice_id \in Invoices
           /\ r.operation = "purchase_order.receive" => r.line_items \in Deliveries
           /\ r.operation \in {"purchase_order.create", "purchase_order.submit",
                  "purchase_order.receive", "invoice.create", "invoice.match",
                  "invoice.approve", "invoice.pay"}
BY DEF Request

-----------------------------------------------------------------------------
(* Steps of a request before its commit                                    *)

(* What no commit takes away. *)
TablesGrow ==
    /\ \A p \in PurchaseOrders : purchase_orders[p] # None =>
          /\ purchase_orders'[p] # None
          /\ purchase_orders'[p].create_idempotency_key = purchase_orders[p].create_idempotency_key
    /\ \A i \in Invoices : invoices[i] # None => SameInvoice(invoices[i], invoices'[i])
    /\ \A i \in Invoices : WasMatched(invoice_match_snapshots, i) =>
          WasMatched(invoice_match_snapshots', i)
    /\ gl_entries \subseteq gl_entries'

(* So what a request relies on does not depend on who commits meanwhile.   *)
LEMMA InHandStays ==
    ASSUME TablesGrow, NEW h \in Working,
           InHand(purchase_orders, invoices, invoice_match_snapshots, gl_entries, h)
    PROVE  InHand(purchase_orders', invoices', invoice_match_snapshots', gl_entries', h)
<1> DEFINE p == h.request.purchase_order_id
           i == h.request.invoice_id
<1>1. h.request \in Request
  BY DEF Working
<1>2. OrderInHand(purchase_orders', h)
  <2>1. OrderInHand(purchase_orders, h)
    BY DEF InHand
  <2>2. \A q \in PurchaseOrders : \A old : SameOrigin(old, purchase_orders[q]) =>
                                           SameOrigin(old, purchase_orders'[q])
    BY DEF TablesGrow, SameOrigin
  <2>3. h.request.operation \in {"purchase_order.submit", "purchase_order.receive"} =>
           p \in PurchaseOrders
    BY <1>1, RequestNames
  <2> QED
    BY <2>1, <2>2, <2>3 DEF OrderInHand
<1>3. InvoiceInHand(purchase_orders', invoices', h)
  <2>1. InvoiceInHand(purchase_orders, invoices, h)
    BY DEF InHand
  <2>2. \A j \in Invoices : \A old : SameInvoice(old, invoices[j]) => SameInvoice(old, invoices'[j])
    BY DEF TablesGrow, SameInvoice
  <2>3. h.request.operation \in {"invoice.match", "invoice.approve", "invoice.pay"} =>
           i \in Invoices
    BY <1>1, RequestNames
  <2>4. h.invoice \in Invoice => h.invoice.purchase_order_id \in PurchaseOrders
    BY DEF Invoice
  <2>5. \A q \in PurchaseOrders : purchase_orders[q] # None => purchase_orders'[q] # None
    BY DEF TablesGrow
  <2> QED
    BY <2>1, <2>2, <2>3, <2>4, <2>5 DEF InvoiceInHand
<1>4. StageInHand(purchase_orders', invoice_match_snapshots', gl_entries', h)
  <2>1. StageInHand(purchase_orders, invoice_match_snapshots, gl_entries, h)
        /\ InvoiceInHand(purchase_orders, invoices, h)
    BY DEF InHand
  <2>2. \A q \in PurchaseOrders : \A old : SameOrigin(old, purchase_orders[q]) =>
                                           SameOrigin(old, purchase_orders'[q])
    BY DEF TablesGrow, SameOrigin
  <2>3. h.request.operation \in {"invoice.match", "invoice.approve", "invoice.pay"} =>
           i \in Invoices /\ h.invoice.purchase_order_id \in PurchaseOrders
    BY <1>1, <2>1, RequestNames DEF InvoiceInHand, Invoice
  <2>4. \A j \in Invoices :
          /\ WasMatched(invoice_match_snapshots, j) => WasMatched(invoice_match_snapshots', j)
          /\ WasPosted(gl_entries, j) => WasPosted(gl_entries', j)
    BY DEF TablesGrow, WasPosted
  <2> QED
    BY <2>1, <2>2, <2>3, <2>4 DEF StageInHand
<1> QED
  BY <1>2, <1>3, <1>4 DEF InHand

(* A step that only changes what one thread has in hand.                   *)
LEMMA HandStep ==
    ASSUME ThreadsInv, NEW t \in Threads, NEW h, UNCHANGED vars,
           threads' = [threads EXCEPT ![t] = h],
           h # Idle => /\ h \in Working
                       /\ InHand(purchase_orders, invoices, invoice_match_snapshots, gl_entries, h)
    PROVE  ThreadsInv'
<1> USE DEF vars, documents, history, credit
<1>1. threads \in [Threads -> Working \cup {Idle}]
  BY DEF ThreadsInv, ThreadsTypeOK
<1>2. threads'[t] = h /\ \A s \in Threads : s # t => threads'[s] = threads[s]
  BY <1>1
<1>3. ThreadsTypeOK'
  BY <1>1 DEF ThreadsInv, ThreadsTypeOK, TypeOK
<1>4. HandsAgree'
  BY <1>2 DEF ThreadsInv, HandsAgree
<1>5. OrdersAreRecorded' /\ CreatedOnce' /\ KeysAreRecorded'
  BY DEF ThreadsInv, OrdersAreRecorded, CreatedOnce, KeysAreRecorded, RecordedAs, Recorded
<1>6. StagesFollow' /\ LedgerBalances' /\ InvoicesAreDistinct'
  BY DEF ThreadsInv, StagesFollow, LedgerBalances, InvoicesAreDistinct, PostedFor,
         RecordedAs, Recorded
<1> QED
  BY <1>3, <1>4, <1>5, <1>6 DEF ThreadsInv

(* A request that starts has a version of every row it read that fits the  *)
(* tables.                                                                 *)
LEMMA StartKeepsInv ==
    ASSUME ThreadsInv, NEW t \in Threads, NEW k \in Keys, StartStep(t, k)
    PROVE  ThreadsInv'
<1> DEFINE Fits(h) == /\ h \in Working
                      /\ InHand(purchase_orders, invoices, invoice_match_snapshots, gl_entries, h)
           Hand(request, step, invoice, order) ==
              [step |-> step, key |-> k, request |-> request,
               invoice |-> invoice, order |-> order, row |-> None]
<1>1. TypeOK
  BY DEF ThreadsInv, ThreadsTypeOK
<1>2. ASSUME NEW request, NEW step, NEW invoice, NEW order,
             Start(t, k, request, step, invoice, order), Fits(Hand(request, step, invoice, order))
      PROVE  ThreadsInv'
  <2> DEFINE h == Hand(request, step, invoice, order)
  <2>1. UNCHANGED vars /\ threads' = [threads EXCEPT ![t] = h]
    BY <1>2 DEF Start
  <2> HIDE DEF h
  <2> QED
    BY <1>2, <2>1, HandStep DEF h
<1>3. ASSUME NEW request \in Request, NEW step \in {"find", "load", "reread", "commit"},
             NEW invoice \in Invoice \cup {None}, NEW order \in PurchaseOrder \cup {None}
      PROVE  /\ Hand(request, step, invoice, order) \in Working
             /\ Hand(request, step, invoice, order).request = request
             /\ Hand(request, step, invoice, order).step = step
             /\ Hand(request, step, invoice, order).key = k
             /\ Hand(request, step, invoice, order).invoice = invoice
             /\ Hand(request, step, invoice, order).order = order
  BY DEF Working
<1> USE DEF InHand, OrderInHand, InvoiceInHand, StageInHand
<1>4. ASSUME NEW v \in VendorIds, NEW order \in Orders, StartCreateOrder(t, k, v, order)
      PROVE  ThreadsInv'
  <2> DEFINE request == CreateOrderRequest(v, order)
             draft == DraftPurchaseOrder(v, order, k)
  <2>1. draft \in PurchaseOrder /\ draft.create_idempotency_key = k
    <3>1. draft \in PurchaseOrder
      BY <1>4, OrderRulesReturnRows DEF StartCreateOrder
    <3> QED
      BY <3>1 DEF DraftPurchaseOrder
  <2>2. request \in Request /\ request.operation = "purchase_order.create"
    BY DEF CreateOrderRequest, Request
  <2> HIDE DEF request, draft, Hand
  <2>3. Fits(Hand(request, "commit", None, draft))
    BY <1>3, <2>1, <2>2
  <2>4. Start(t, k, request, "commit", None, draft)
    BY <1>4 DEF StartCreateOrder, request, draft
  <2> QED
    BY <1>2, <2>3, <2>4
<1>5. ASSUME NEW p \in PurchaseOrders, StartSubmit(t, k, p)
      PROVE  ThreadsInv'
  <2> DEFINE request == [operation |-> "purchase_order.submit", purchase_order_id |-> p]
             order == Submitted(purchase_orders[p], k)
  <2>1. purchase_orders[p] \in PurchaseOrder /\ purchase_orders[p] # None
    BY <1>1, <1>5 DEF StartSubmit, SubmitRefusal, TypeOK
  <2>2. order \in PurchaseOrder /\ SameOrigin(order, purchase_orders[p])
    BY <2>1, OrderRulesReturnRows DEF Submitted, SameOrigin, PurchaseOrder
  <2>3. /\ request \in Request /\ request.operation = "purchase_order.submit"
        /\ request.purchase_order_id = p
    BY DEF Request
  <2> HIDE DEF request, order, Hand
  <2>4. Fits(Hand(request, "reread", None, order))
    BY <1>3, <2>2, <2>3
  <2>5. Start(t, k, request, "reread", None, order)
    BY <1>5 DEF StartSubmit, request, order
  <2> QED
    BY <1>2, <2>4, <2>5
<1>6. ASSUME NEW p \in PurchaseOrders, NEW delivery \in Deliveries, StartReceive(t, k, p, delivery)
      PROVE  ThreadsInv'
  <2> DEFINE request == ReceiveRequest(p, delivery)
             order == Received(purchase_orders[p], delivery)
  <2>1. purchase_orders[p] \in PurchaseOrder /\ purchase_orders[p] # None
    BY <1>1, <1>6 DEF StartReceive, ReceiptRefusal, TypeOK
  <2>2. order \in PurchaseOrder /\ SameOrigin(order, purchase_orders[p])
    BY <2>1, OrderRulesReturnRows DEF Received, SameOrigin, PurchaseOrder
  <2>3. /\ request \in Request /\ request.operation = "purchase_order.receive"
        /\ request.purchase_order_id = p
    BY DEF Request, ReceiveRequest
  <2> HIDE DEF request, order, Hand
  <2>4. Fits(Hand(request, "reread", None, order))
    BY <1>3, <2>2, <2>3
  <2>5. Start(t, k, request, "reread", None, order)
    BY <1>6 DEF StartReceive, request, order
  <2> QED
    BY <1>2, <2>4, <2>5
<1>7. ASSUME NEW v \in VendorIds, NEW p \in PurchaseOrders, NEW number \in InvoiceNumbers,
             NEW amount \in Amounts, StartCreateInvoice(t, k, v, p, number, amount)
      PROVE  ThreadsInv'
  <2> DEFINE request == CreateInvoiceRequest(v, p, number, amount)
             invoice == PendingInvoice(v, p, number, amount)
  <2>1. v \in Vendors /\ purchase_orders[p] # None
    BY <1>7 DEF StartCreateInvoice, InvoiceRefusal
  <2>2. /\ invoice \in Invoice
        /\ invoice.status = "PENDING"
        /\ invoice.purchase_order_id = p
    BY <2>1, InvoiceRulesReturnRows DEF PendingInvoice
  <2>3. request \in Request /\ request.operation = "invoice.create"
    BY DEF Request, CreateInvoiceRequest
  <2> HIDE DEF request, invoice, Hand
  <2>4. Fits(Hand(request, "commit", invoice, None))
    BY <1>3, <2>1, <2>2, <2>3
  <2>5. Start(t, k, request, "commit", invoice, None)
    BY <1>7 DEF StartCreateInvoice, request, invoice
  <2> QED
    BY <1>2, <2>4, <2>5
<1>8. ASSUME NEW i \in Invoices, StartMatch(t, k, i)
      PROVE  ThreadsInv'
  <2> DEFINE request == [operation |-> "invoice.match", invoice_id |-> i]
             invoice == invoices[i]
  <2>1. /\ invoice \in Invoice
        /\ SameInvoice(invoice, invoices[i])
        /\ invoice.status \in {"PENDING", "MATCHED"}
    BY <1>1, <1>8 DEF StartMatch, SameInvoice, TypeOK
  <2>2. invoice.status = "MATCHED" => WasMatched(invoice_match_snapshots, i)
    BY <1>8 DEF ThreadsInv, StagesFollow, StartMatch
  <2>3. request \in Request /\ request.operation = "invoice.match" /\ request.invoice_id = i
    BY DEF Request
  <2>4. Start(t, k, request, "find", invoice, None)
    BY <1>8 DEF StartMatch
  <2> HIDE DEF request, invoice, Hand
  <2>5. Fits(Hand(request, "find", invoice, None))
    BY <1>3, <2>1, <2>2, <2>3
  <2> QED
    BY <1>2, <2>4, <2>5
<1>9. ASSUME NEW i \in Invoices, StartApprove(t, k, i)
      PROVE  ThreadsInv'
  <2> DEFINE request == [operation |-> "invoice.approve", invoice_id |-> i]
             invoice == Approved(invoices[i], k)
  <2>1. /\ invoices[i] \in Invoice
        /\ invoices[i] # None
        /\ invoices[i].status = "MATCHED"
    BY <1>1, <1>9 DEF StartApprove, ApprovalRefusal, TypeOK
  <2>2. /\ invoice \in Invoice
        /\ SameInvoice(invoice, invoices[i])
        /\ invoice.status = "APPROVED"
    <3>1. invoice \in Invoice
      BY <2>1, InvoiceRulesReturnRows
    <3> QED
      BY <2>1, <3>1, NoneAssumption DEF Approved, Invoice, SameInvoice
  <2>3. WasMatched(invoice_match_snapshots, i)
    BY <2>1 DEF ThreadsInv, StagesFollow
  <2>4. request \in Request /\ request.operation = "invoice.approve" /\ request.invoice_id = i
    BY DEF Request
  <2> HIDE DEF request, invoice, Hand
  <2>5. Fits(Hand(request, "reread", invoice, None))
    BY <1>3, <2>2, <2>3, <2>4
  <2>6. Start(t, k, request, "reread", invoice, None)
    BY <1>9 DEF StartApprove, request, invoice
  <2> QED
    BY <1>2, <2>5, <2>6
<1>10. ASSUME NEW i \in Invoices, StartPay(t, k, i)
      PROVE  ThreadsInv'
  <2> DEFINE request == [operation |-> "invoice.pay", invoice_id |-> i]
             invoice == invoices[i]
  <2>1. invoice \in Invoice /\ SameInvoice(invoice, invoices[i])
    BY <1>1, <1>10 DEF StartPay, SameInvoice, TypeOK
  <2>2. WasPosted(gl_entries, i)
    BY <1>10 DEF ThreadsInv, StagesFollow, StartPay
  <2>3. request \in Request /\ request.operation = "invoice.pay" /\ request.invoice_id = i
    BY DEF Request
  <2>4. Start(t, k, request, "load", invoice, None)
    BY <1>10 DEF StartPay
  <2> HIDE DEF request, invoice, Hand
  <2>5. Fits(Hand(request, "load", invoice, None))
    BY <1>3, <2>1, <2>2, <2>3
  <2> QED
    BY <1>2, <2>4, <2>5
<1> QED
  BY <1>4, <1>5, <1>6, <1>7, <1>8, <1>9, <1>10 DEF StartStep

(* What a request that is not idle has in hand.                            *)
LEMMA HeldByThread ==
    ASSUME ThreadsInv, NEW t \in Threads, threads[t] # Idle
    PROVE  /\ threads[t] \in Working
           /\ threads[t].key \in Keys
           /\ threads[t].request \in Request
           /\ OrderInHand(purchase_orders, threads[t])
           /\ InvoiceInHand(purchase_orders, invoices, threads[t])
           /\ StageInHand(purchase_orders, invoice_match_snapshots, gl_entries, threads[t])
<1>1. threads[t] \in Working
  BY DEF ThreadsInv, ThreadsTypeOK
<1> QED
  BY <1>1 DEF ThreadsInv, HandsAgree, InHand, Working

(* A request that is at a step is not idle.                                *)
LEMMA AtAThreadStep ==
    ASSUME NEW t \in Threads, threads[t].step # "idle"
    PROVE  threads[t] # Idle
<1>1. Idle.step = "idle"
  BY DEF Idle
<1> QED
  BY <1>1

(* What the rules make of the invoice in hand is that invoice still.       *)
LEMMA RulesKeepInvoice ==
    ASSUME NEW inv \in Invoice, NEW row, SameInvoice(inv, row), NEW k \in Keys,
           NEW outcome \in {"BLOCKED", "MATCHED_WITH_WARNING", "MATCHED"}
    PROVE  /\ Matched(inv, outcome, k) \in Invoice
           /\ SameInvoice(Matched(inv, outcome, k), row)
           /\ IF outcome = "BLOCKED" THEN Matched(inv, outcome, k).status = inv.status
              ELSE /\ Matched(inv, outcome, k).status = "MATCHED"
                   /\ Matched(inv, outcome, k).last_match_outcome # "BLOCKED"
           /\ Paid(inv, k) \in Invoice
           /\ SameInvoice(Paid(inv, k), row)
           /\ Paid(inv, k).status = "PAID"
           /\ Paid(inv, k).purchase_order_id = inv.purchase_order_id
<1>1. Matched(inv, outcome, k) \in Invoice /\ Paid(inv, k) \in Invoice
  BY InvoiceRulesReturnRows DEF MatchOutcomes
<1>2. /\ SameInvoice(Paid(inv, k), row)
      /\ Paid(inv, k).status = "PAID"
      /\ Paid(inv, k).purchase_order_id = inv.purchase_order_id
  BY <1>1, NoneAssumption DEF Paid, Invoice, SameInvoice
<1>3. CASE outcome = "BLOCKED"
  BY <1>1, <1>2, <1>3, NoneAssumption DEF Matched, Invoice, SameInvoice
<1>4. CASE outcome # "BLOCKED"
  BY <1>1, <1>2, <1>4, NoneAssumption DEF Matched, Invoice, SameInvoice
<1> QED
  BY <1>3, <1>4

(* To find that there is an order changes nothing in hand ...              *)
LEMMA FindKeepsInv ==
    ASSUME ThreadsInv, NEW t \in Threads, FindOrder(t)
    PROVE  ThreadsInv'
<1> DEFINE h == [threads[t] EXCEPT !.step = "load"]
<1>1. threads[t].step = "find" /\ Operation(t) = "invoice.match" /\ UNCHANGED vars
  BY DEF FindOrder, At
<1>2. threads[t] # Idle
  BY <1>1, AtAThreadStep
<1>3. /\ threads[t] \in Working
      /\ OrderInHand(purchase_orders, threads[t])
      /\ InvoiceInHand(purchase_orders, invoices, threads[t])
      /\ StageInHand(purchase_orders, invoice_match_snapshots, gl_entries, threads[t])
  BY <1>2, HeldByThread
<1>4. threads' = [threads EXCEPT ![t] = h]
  BY DEF FindOrder, ThreadsInv, ThreadsTypeOK
<1>5. /\ h \in Working
      /\ h.step = "load" /\ h.key = threads[t].key /\ h.request = threads[t].request
      /\ h.order = threads[t].order /\ h.invoice = threads[t].invoice
  BY <1>3 DEF Working
<1> HIDE DEF h
<1>6. InHand(purchase_orders, invoices, invoice_match_snapshots, gl_entries, h)
  BY <1>1, <1>3, <1>5 DEF InHand, OrderInHand, InvoiceInHand, StageInHand, Operation
<1> QED
  BY <1>1, <1>4, <1>5, <1>6, HandStep

(* ... and the order that a match or a payment then reads fits too.        *)
LEMMA LoadKeepsInv ==
    ASSUME ThreadsInv, NEW t \in Threads, LoadOrder(t)
    PROVE  ThreadsInv'
<1> DEFINE k == threads[t].key
           inv == threads[t].invoice
           i == threads[t].request.invoice_id
           p == inv.purchase_order_id
           po == purchase_orders[p]
           Fits(h) == /\ h \in Working
                      /\ InHand(purchase_orders, invoices, invoice_match_snapshots, gl_entries, h)
<1>1. threads[t] # Idle /\ threads[t].step = "load"
  <2>1. threads[t].step = "load"
    BY DEF LoadOrder
  <2> QED
    BY <2>1, AtAThreadStep
<1>2. /\ threads[t] \in Working
      /\ k \in Keys
      /\ threads[t].request \in Request
      /\ InvoiceInHand(purchase_orders, invoices, threads[t])
      /\ StageInHand(purchase_orders, invoice_match_snapshots, gl_entries, threads[t])
  BY <1>1, HeldByThread
<1>3. Operation(t) \in {"invoice.match", "invoice.pay"}
  BY DEF LoadOrder
<1>4. inv \in Invoice /\ SameInvoice(inv, invoices[i]) /\ p \in PurchaseOrders
  BY <1>2, <1>3 DEF InvoiceInHand, Operation, Invoice
<1>5. ASSUME NEW order \in PurchaseOrder, NEW invoice \in Invoice
      PROVE  LET h == [threads[t] EXCEPT !.step = "reread", !.order = order, !.invoice = invoice]
             IN  /\ h \in Working
                 /\ h.step = "reread" /\ h.key = k /\ h.request = threads[t].request
                 /\ h.order = order /\ h.invoice = invoice
  BY <1>2 DEF Working
<1>6. ASSUME NEW order, NEW invoice,
             threads' = [threads EXCEPT ![t].step = "reread", ![t].order = order, ![t].invoice = invoice],
             Fits([threads[t] EXCEPT !.step = "reread", !.order = order, !.invoice = invoice])
      PROVE  ThreadsInv'
  <2> DEFINE h == [threads[t] EXCEPT !.step = "reread", !.order = order, !.invoice = invoice]
  <2>1. threads' = [threads EXCEPT ![t] = h]
    BY <1>6 DEF ThreadsInv, ThreadsTypeOK
  <2>2. UNCHANGED vars
    BY DEF LoadOrder
  <2> HIDE DEF h
  <2> QED
    BY <1>6, <2>1, <2>2, HandStep DEF h
<1>7. ASSUME Operation(t) = "invoice.match"
      PROVE  ThreadsInv'
  <2> DEFINE outcome == MatchOutcome(inv.invoice_amount, po)
             invoice == Matched(inv, outcome, k)
             order == po
             h == [threads[t] EXCEPT !.step = "reread", !.order = order, !.invoice = invoice]
  <2>1. MatchRefusal(inv, po) = "OK"
        /\ threads' = [threads EXCEPT ![t].step = "reread", ![t].order = order, ![t].invoice = invoice]
    BY <1>7 DEF LoadOrder
  <2>2. order \in PurchaseOrder
    BY <1>4, <2>1 DEF MatchRefusal, ThreadsInv, ThreadsTypeOK, TypeOK
  <2>3. outcome \in {"BLOCKED", "MATCHED_WITH_WARNING", "MATCHED"}
    BY MatchOutcomeType
  <2>4. /\ inv.status \in {"PENDING", "MATCHED"}
        /\ inv.status = "MATCHED" => WasMatched(invoice_match_snapshots, i)
    BY <1>1, <1>2, <1>7 DEF StageInHand, Operation
  <2> HIDE DEF outcome, order
  <2>5. /\ invoice \in Invoice
        /\ SameInvoice(invoice, invoices[i])
        /\ invoice.status \in {"PENDING", "MATCHED"}
        /\ invoice.status = "MATCHED" => \/ WasMatched(invoice_match_snapshots, i)
                                         \/ invoice.last_match_outcome # "BLOCKED"
    BY <1>2, <1>4, <2>3, <2>4, RulesKeepInvoice
  <2> HIDE DEF invoice
  <2>6. /\ h \in Working
        /\ h.step = "reread" /\ h.key = k /\ h.request = threads[t].request
        /\ h.order = order /\ h.invoice = invoice
    <3>1. order \in PurchaseOrder /\ invoice \in Invoice
      BY <2>2, <2>5
    <3> QED
      BY <1>5, <3>1
  <2> HIDE DEF h
  <2>7. Fits(h)
    BY <1>7, <2>2, <2>5, <2>6 DEF InHand, OrderInHand, InvoiceInHand, StageInHand, Operation
  <2> QED
    BY <1>6, <2>1, <2>7 DEF h
<1>8. ASSUME Operation(t) = "invoice.pay"
      PROVE  ThreadsInv'
  <2> DEFINE invoice == Paid(inv, k)
             order == Closed(po)
             h == [threads[t] EXCEPT !.step = "reread", !.order = order, !.invoice = invoice]
  <2>1. PaymentRefusal(inv, po) = "OK"
        /\ threads' = [threads EXCEPT ![t].step = "reread", ![t].order = order, ![t].invoice = invoice]
    BY <1>8 DEF LoadOrder
  <2>2. po \in PurchaseOrder /\ po # None
    BY <1>4, <2>1 DEF PaymentRefusal, ThreadsInv, ThreadsTypeOK, TypeOK
  <2>3. order \in PurchaseOrder /\ SameOrigin(order, po)
    BY <2>2, OrderRulesReturnRows DEF Closed, SameOrigin, PurchaseOrder
  <2>4. WasPosted(gl_entries, i)
    BY <1>2, <1>8 DEF StageInHand, Operation
  <2>5. /\ invoice \in Invoice
        /\ SameInvoice(invoice, invoices[i])
        /\ invoice.status = "PAID"
        /\ invoice.purchase_order_id = p
    BY <1>2, <1>4, RulesKeepInvoice
  <2> HIDE DEF invoice, order
  <2>6. /\ h \in Working
        /\ h.step = "reread" /\ h.key = k /\ h.request = threads[t].request
        /\ h.order = order /\ h.invoice = invoice
    BY <1>5, <2>3, <2>5
  <2> HIDE DEF h
  <2>7. Fits(h)
    BY <1>8, <2>3, <2>4, <2>5, <2>6
       DEF InHand, OrderInHand, InvoiceInHand, StageInHand, Operation
  <2> QED
    BY <1>6, <2>1, <2>7 DEF h
<1> QED
  BY <1>3, <1>7, <1>8

(* The second read finds a version of the same row.                        *)
LEMMA RereadKeepsInv ==
    ASSUME ThreadsInv, NEW t \in Threads, Reread(t)
    PROVE  ThreadsInv'
<1> DEFINE r == threads[t].request
           row == IF Operation(t) \in {"purchase_order.submit", "purchase_order.receive"}
                  THEN purchase_orders[r.purchase_order_id]
                  ELSE invoices[r.invoice_id]
           h == [threads[t] EXCEPT !.step = "commit", !.row = row]
<1>1. threads[t] # Idle /\ threads[t].step = "reread"
  <2>1. threads[t].step = "reread"
    BY DEF Reread
  <2> QED
    BY <2>1, AtAThreadStep
<1>2. /\ threads[t] \in Working
      /\ r \in Request
      /\ OrderInHand(purchase_orders, threads[t])
      /\ InvoiceInHand(purchase_orders, invoices, threads[t])
      /\ StageInHand(purchase_orders, invoice_match_snapshots, gl_entries, threads[t])
  BY <1>1, HeldByThread
<1>3. TypeOK
  BY DEF ThreadsInv, ThreadsTypeOK
<1>4. /\ Operation(t) \in {"purchase_order.submit", "purchase_order.receive", "invoice.match",
                            "invoice.approve", "invoice.pay"}
      /\ Operation(t) \in {"purchase_order.submit", "purchase_order.receive"} =>
            /\ r.purchase_order_id \in PurchaseOrders
            /\ SameOrigin(threads[t].order, purchase_orders[r.purchase_order_id])
            /\ row = purchase_orders[r.purchase_order_id]
            /\ row \in PurchaseOrder
            /\ SameOrigin(row, row)
      /\ Operation(t) \in {"invoice.match", "invoice.approve", "invoice.pay"} =>
            /\ row = invoices[r.invoice_id]
            /\ row \in Invoice
            /\ SameInvoice(row, row)
  <2>1. Operation(t) \in {"purchase_order.submit", "purchase_order.receive", "invoice.match",
                            "invoice.approve", "invoice.pay"}
    BY <1>1, <1>2, RequestNames DEF Operation, OrderInHand, InvoiceInHand
  <2>2. ASSUME Operation(t) \in {"purchase_order.submit", "purchase_order.receive"}
        PROVE  /\ r.purchase_order_id \in PurchaseOrders
               /\ SameOrigin(threads[t].order, purchase_orders[r.purchase_order_id])
               /\ row = purchase_orders[r.purchase_order_id]
               /\ row \in PurchaseOrder
               /\ SameOrigin(row, row)
    BY <1>2, <1>3, <2>2, RequestNames DEF Operation, OrderInHand, SameOrigin, TypeOK
  <2>3. ASSUME Operation(t) \in {"invoice.match", "invoice.approve", "invoice.pay"}
        PROVE  /\ row = invoices[r.invoice_id]
               /\ row \in Invoice
               /\ SameInvoice(row, row)
    <3>1. /\ r.invoice_id \in Invoices
          /\ SameInvoice(threads[t].invoice, invoices[r.invoice_id])
      BY <1>2, <2>3, RequestNames DEF Operation, InvoiceInHand
    <3> QED
      BY <1>3, <2>3, <3>1 DEF SameInvoice, TypeOK
  <2> QED
    BY <2>1, <2>2, <2>3
<1>5. threads' = [threads EXCEPT ![t] = h] /\ UNCHANGED vars
  BY DEF Reread, ThreadsInv, ThreadsTypeOK
<1> HIDE DEF row
<1>6. row \in Invoice \cup PurchaseOrder
  BY <1>4
<1>7. /\ h \in Working
      /\ h.step = "commit" /\ h.key = threads[t].key /\ h.request = r
      /\ h.order = threads[t].order /\ h.invoice = threads[t].invoice /\ h.row = row
  BY <1>2, <1>6 DEF Working
<1> HIDE DEF h
<1>8. OrderInHand(purchase_orders, h)
  BY <1>2, <1>4, <1>7 DEF OrderInHand, Operation
<1>9. InvoiceInHand(purchase_orders, invoices, h)
  BY <1>2, <1>4, <1>7 DEF InvoiceInHand, Operation
<1>10. StageInHand(purchase_orders, invoice_match_snapshots, gl_entries, h)
  BY <1>1, <1>2, <1>4, <1>7 DEF StageInHand, Operation
<1> QED
  BY <1>5, <1>7, <1>8, <1>9, <1>10, HandStep DEF InHand

(* A request that ends before its commit only empties its hands.           *)
LEMMA RollBackKeepsInv ==
    ASSUME ThreadsInv, NEW t \in Threads, RollBack(t)
    PROVE  ThreadsInv'
BY HandStep DEF RollBack

-----------------------------------------------------------------------------
(* What every commit does                                                  *)

(* The other requests go on with what they have in hand.                   *)
LEMMA CommitFrame ==
    ASSUME ThreadsInv, NEW t \in Threads, threads' = [threads EXCEPT ![t] = Idle],
           TypeOK', TablesGrow
    PROVE  ThreadsTypeOK' /\ HandsAgree'
<1>1. threads \in [Threads -> Working \cup {Idle}]
  BY DEF ThreadsInv, ThreadsTypeOK
<1>2. threads'[t] = Idle /\ \A s \in Threads : s # t => threads'[s] = threads[s]
  BY <1>1
<1>3. ThreadsTypeOK'
  BY <1>1 DEF ThreadsTypeOK
<1>4. ASSUME NEW s \in Threads, threads'[s] # Idle
      PROVE  InHand(purchase_orders', invoices', invoice_match_snapshots', gl_entries', threads'[s])
  <2>1. threads'[s] = threads[s]
    BY <1>2, <1>4
  <2>2. /\ threads[s] \in Working
        /\ InHand(purchase_orders, invoices, invoice_match_snapshots, gl_entries, threads[s])
    BY <1>1, <1>4, <2>1 DEF ThreadsInv, HandsAgree
  <2>3. InHand(purchase_orders', invoices', invoice_match_snapshots', gl_entries', threads[s])
    BY <2>2, InHandStays
  <2> QED
    BY <2>1, <2>3
<1> QED
  BY <1>3, <1>4 DEF HandsAgree

(* The effect of the request of key k on the rows that name a request: one *)
(* row more, of its own.                                                   *)
Effects(k, operation, id) ==
    /\ \A p \in PurchaseOrders :
          IF operation = "purchase_order.create" /\ id = p
          THEN /\ purchase_orders[p] = None
               /\ purchase_orders'[p] # None
               /\ purchase_orders'[p].create_idempotency_key = k
          ELSE purchase_orders[p] = None => purchase_orders'[p] = None
    /\ \A i \in Invoices :
          IF operation = "invoice.create" /\ id = i
          THEN invoices[i] = None /\ invoices'[i] # None
          ELSE invoices[i] = None => invoices'[i] = None
    /\ \A j \in Keys :
          /\ goods_receipts'[j] # None <=>
                goods_receipts[j] # None \/ (j = k /\ operation = "purchase_order.receive")
          /\ invoice_match_snapshots'[j] # None <=>
                invoice_match_snapshots[j] # None \/ (j = k /\ operation = "invoice.match")
          /\ \A i \in Invoices :
                /\ (\E e \in gl_entries' : e.posting = j /\ e.invoice_id = i) <=>
                      \/ \E e \in gl_entries : e.posting = j /\ e.invoice_id = i
                      \/ j = k /\ id = i /\ operation = "invoice.approve"
                /\ (credit_checks'[j] # None /\ credit_checks'[j].triggering_invoice_id = i) <=>
                      \/ credit_checks[j] # None /\ credit_checks[j].triggering_invoice_id = i
                      \/ j = k /\ id = i /\ operation \in {"invoice.create", "invoice.approve"}

(* A record is made once, and says what was requested.                     *)
LEMMA RecordedMove ==
    ASSUME TypeOK, NEW k \in Keys, NEW request \in Request,
           NEW id \in PurchaseOrders \cup Invoices \cup Keys, ~Recorded(k), Record(k, request, id)
    PROVE  \A j \in Keys : \A operation, x :
              RecordedAs(j, operation, x)' <=>
                 \/ RecordedAs(j, operation, x)
                 \/ j = k /\ operation = request.operation /\ x = id
<1> DEFINE record == [request |-> request, resource_id |-> id]
<1>1. idempotency_keys'[k] = record /\ \A j \in Keys \ {k} : idempotency_keys'[j] = idempotency_keys[j]
  BY DEF Record, TypeOK
<1>2. record # None
  BY NoneIsNoRow DEF IdempotencyRecord
<1>3. record.request = request /\ record.resource_id = id
  OBVIOUS
<1> HIDE DEF record
<1> QED
  BY <1>1, <1>2, <1>3 DEF RecordedAs, Recorded

(* With its own row, a recorded request keeps every effect recorded.       *)
LEMMA RecordsStep ==
    ASSUME ThreadsInv, TablesGrow, NEW k \in Keys, NEW request \in Request,
           NEW id \in PurchaseOrders \cup Invoices \cup Keys, ~Recorded(k), Record(k, request, id),
           Effects(k, request.operation, id),
           request.operation = "purchase_order.receive" => id \in PurchaseOrders,
           request.operation = "invoice.match" => id = k
    PROVE  OrdersAreRecorded' /\ CreatedOnce' /\ KeysAreRecorded'
<1> DEFINE operation == request.operation
<1>1. \A j \in Keys : \A o, x :
          RecordedAs(j, o, x)' <=> RecordedAs(j, o, x) \/ (j = k /\ o = operation /\ x = id)
  BY RecordedMove DEF ThreadsInv, ThreadsTypeOK
<1>2. \A o, x : ~RecordedAs(k, o, x)
  BY DEF RecordedAs
<1> HIDE DEF operation
<1>3. OrdersAreRecorded'
  <2> SUFFICES ASSUME NEW p \in PurchaseOrders
               PROVE  {j \in Keys : RecordedAs(j, "purchase_order.create", p)'} =
                         IF purchase_orders'[p] = None THEN {}
                         ELSE {purchase_orders'[p].create_idempotency_key}
    BY DEF OrdersAreRecorded
  <2>1. {j \in Keys : RecordedAs(j, "purchase_order.create", p)} =
            IF purchase_orders[p] = None THEN {}
            ELSE {purchase_orders[p].create_idempotency_key}
    BY DEF ThreadsInv, OrdersAreRecorded
  <2>2. CASE operation = "purchase_order.create" /\ id = p
    <3>1. /\ purchase_orders[p] = None
          /\ purchase_orders'[p] # None
          /\ purchase_orders'[p].create_idempotency_key = k
      BY <2>2 DEF Effects, operation
    <3>2. {j \in Keys : RecordedAs(j, "purchase_order.create", p)'} = {k}
      BY <1>1, <2>1, <2>2, <3>1
    <3> QED
      BY <3>1, <3>2
  <2>3. CASE ~(operation = "purchase_order.create" /\ id = p)
    <3>1. purchase_orders[p] = None => purchase_orders'[p] = None
      BY <2>3 DEF Effects, operation
    <3>2. purchase_orders[p] # None =>
             /\ purchase_orders'[p] # None
             /\ purchase_orders'[p].create_idempotency_key = purchase_orders[p].create_idempotency_key
      BY DEF TablesGrow
    <3>3. \A j \in Keys : RecordedAs(j, "purchase_order.create", p)' <=>
                          RecordedAs(j, "purchase_order.create", p)
      BY <1>1, <2>3
    <3>4. {j \in Keys : RecordedAs(j, "purchase_order.create", p)'} =
          {j \in Keys : RecordedAs(j, "purchase_order.create", p)}
      BY <3>3
    <3> QED
      BY <2>1, <3>1, <3>2, <3>4
  <2> QED
    BY <2>2, <2>3
<1>4. CreatedOnce'
  <2> SUFFICES ASSUME NEW i \in Invoices
               PROVE  LET keys == {j \in Keys : RecordedAs(j, "invoice.create", i)'}
                      IN  IF invoices'[i] = None THEN keys = {} ELSE \E j \in Keys : keys = {j}
    BY DEF CreatedOnce
  <2> DEFINE keys == {j \in Keys : RecordedAs(j, "invoice.create", i)}
             keysNow == {j \in Keys : RecordedAs(j, "invoice.create", i)'}
  <2>1. IF invoices[i] = None THEN keys = {} ELSE \E j \in Keys : keys = {j}
    BY DEF ThreadsInv, CreatedOnce
  <2>2. CASE operation = "invoice.create" /\ id = i
    <3>1. invoices[i] = None /\ invoices'[i] # None
      BY <2>2 DEF Effects, operation
    <3>2. keysNow = {k}
      BY <1>1, <2>1, <2>2, <3>1
    <3> QED
      BY <3>1, <3>2
  <2>3. CASE ~(operation = "invoice.create" /\ id = i)
    <3>1. invoices[i] = None <=> invoices'[i] = None
      BY <2>3 DEF Effects, operation, TablesGrow, SameInvoice
    <3>2. \A j \in Keys : RecordedAs(j, "invoice.create", i)' <=> RecordedAs(j, "invoice.create", i)
      BY <1>1, <2>3
    <3>3. keysNow = keys
      BY <3>2
    <3> QED
      BY <2>1, <3>1, <3>3
  <2> QED
    BY <2>2, <2>3
<1>5. KeysAreRecorded'
  <2>1. ASSUME NEW j \in Keys
        PROVE  /\ goods_receipts'[j] # None <=>
                     \E p \in PurchaseOrders : RecordedAs(j, "purchase_order.receive", p)'
               /\ invoice_match_snapshots'[j] # None <=> RecordedAs(j, "invoice.match", j)'
    <3>1. /\ goods_receipts'[j] # None <=>
                goods_receipts[j] # None \/ (j = k /\ operation = "purchase_order.receive")
          /\ invoice_match_snapshots'[j] # None <=>
                invoice_match_snapshots[j] # None \/ (j = k /\ operation = "invoice.match")
      BY DEF Effects, operation
    <3>2. /\ goods_receipts[j] # None <=>
                \E p \in PurchaseOrders : RecordedAs(j, "purchase_order.receive", p)
          /\ invoice_match_snapshots[j] # None <=> RecordedAs(j, "invoice.match", j)
      BY DEF ThreadsInv, KeysAreRecorded
    <3>3. /\ operation = "purchase_order.receive" => id \in PurchaseOrders
          /\ operation = "invoice.match" => id = k
      BY DEF operation
    <3> QED
      BY <1>1, <3>1, <3>2, <3>3
  <2>2. ASSUME NEW j \in Keys, NEW i \in Invoices
        PROVE  /\ (\E e \in gl_entries' : e.posting = j /\ e.invoice_id = i)
                     <=> RecordedAs(j, "invoice.approve", i)'
               /\ (credit_checks'[j] # None /\ credit_checks'[j].triggering_invoice_id = i)
                     <=> \/ RecordedAs(j, "invoice.approve", i)'
                         \/ RecordedAs(j, "invoice.create", i)'
    <3> DEFINE posted == \E e \in gl_entries : e.posting = j /\ e.invoice_id = i
               postedNow == \E e \in gl_entries' : e.posting = j /\ e.invoice_id = i
               checked == credit_checks[j] # None /\ credit_checks[j].triggering_invoice_id = i
               checkedNow == credit_checks'[j] # None /\ credit_checks'[j].triggering_invoice_id = i
    <3>1. /\ postedNow <=> posted \/ (j = k /\ id = i /\ operation = "invoice.approve")
          /\ checkedNow <=> \/ checked
                            \/ j = k /\ id = i /\ operation \in {"invoice.create", "invoice.approve"}
      BY DEF Effects, operation
    <3>2. /\ posted <=> RecordedAs(j, "invoice.approve", i)
          /\ checked <=> \/ RecordedAs(j, "invoice.approve", i)
                         \/ RecordedAs(j, "invoice.create", i)
      BY DEF ThreadsInv, KeysAreRecorded
    <3> HIDE DEF posted, postedNow, checked, checkedNow
    <3>3. /\ postedNow <=> RecordedAs(j, "invoice.approve", i)'
          /\ checkedNow <=> \/ RecordedAs(j, "invoice.approve", i)'
                            \/ RecordedAs(j, "invoice.create", i)'
      BY <1>1, <3>1, <3>2
    <3> QED
      BY <3>3 DEF postedNow, checkedNow
  <2> QED
    BY <2>1, <2>2 DEF KeysAreRecorded
<1> QED
  BY <1>3, <1>4, <1>5

(* A status an invoice gets has the match or the posting it stands for.    *)
LEMMA StagesStep ==
    ASSUME ThreadsInv, TablesGrow, NEW k \in Keys, NEW request \in Request,
           NEW id \in PurchaseOrders \cup Invoices \cup Keys, ~Recorded(k), Record(k, request, id),
           \A i \in Invoices : invoices'[i] # None =>
              \/ invoices[i] # None /\ invoices'[i].status = invoices[i].status
              \/ invoices'[i].status = "PENDING"
              \/ invoices'[i].status = "MATCHED" /\ WasMatched(invoice_match_snapshots', i)
              \/ invoices'[i].status \in {"APPROVED", "PAID"} /\ WasPosted(gl_entries', i),
           \A i \in Invoices : WasPosted(gl_entries', i) =>
              WasPosted(gl_entries, i) \/ WasMatched(invoice_match_snapshots, i),
           request.operation = "invoice.pay" /\ id \in Invoices => WasPosted(gl_entries, id)
    PROVE  StagesFollow'
<1> SUFFICES ASSUME NEW i \in Invoices
             PROVE  /\ (invoices'[i] # None /\ invoices'[i].status # "PENDING") =>
                          WasMatched(invoice_match_snapshots', i)
                    /\ (invoices'[i] # None /\ invoices'[i].status \in {"APPROVED", "PAID"}) =>
                          WasPosted(gl_entries', i)
                    /\ WasPosted(gl_entries', i) => WasMatched(invoice_match_snapshots', i)
                    /\ (\E j \in Keys : RecordedAs(j, "invoice.pay", i)') => WasPosted(gl_entries', i)
  BY DEF StagesFollow
<1>1. /\ (invoices[i] # None /\ invoices[i].status # "PENDING") =>
            WasMatched(invoice_match_snapshots, i)
      /\ (invoices[i] # None /\ invoices[i].status \in {"APPROVED", "PAID"}) =>
            WasPosted(gl_entries, i)
      /\ WasPosted(gl_entries, i) => WasMatched(invoice_match_snapshots, i)
      /\ (\E j \in Keys : RecordedAs(j, "invoice.pay", i)) => WasPosted(gl_entries, i)
  BY DEF ThreadsInv, StagesFollow
<1>2. /\ WasMatched(invoice_match_snapshots, i) => WasMatched(invoice_match_snapshots', i)
      /\ WasPosted(gl_entries, i) => WasPosted(gl_entries', i)
  BY DEF TablesGrow, WasPosted
<1>3. WasPosted(gl_entries', i) => WasMatched(invoice_match_snapshots', i)
  BY <1>1, <1>2
<1>4. \A j \in Keys : RecordedAs(j, "invoice.pay", i)' =>
          RecordedAs(j, "invoice.pay", i) \/ (request.operation = "invoice.pay" /\ i = id)
  BY RecordedMove DEF ThreadsInv, ThreadsTypeOK
<1>5. (\E j \in Keys : RecordedAs(j, "invoice.pay", i)') => WasPosted(gl_entries', i)
  BY <1>1, <1>2, <1>4
<1>6. (invoices'[i] # None /\ invoices'[i].status \in {"APPROVED", "PAID"}) =>
          WasPosted(gl_entries', i)
  BY <1>1, <1>2
<1>7. (invoices'[i] # None /\ invoices'[i].status # "PENDING") =>
          WasMatched(invoice_match_snapshots', i)
  BY <1>1, <1>2, <1>3
<1> QED
  BY <1>3, <1>5, <1>6, <1>7

(* Invoices that keep their identity stay distinct.                        *)
LEMMA DistinctStep ==
    ASSUME InvoicesAreDistinct, TablesGrow,
           \A i \in Invoices : invoices[i] = None => invoices'[i] = None
    PROVE  InvoicesAreDistinct'
<1>1. \A i \in Invoices : invoices'[i] # None => SameInvoice(invoices[i], invoices'[i])
  BY DEF TablesGrow
<1> QED
  BY <1>1 DEF InvoicesAreDistinct, SameInvoice

(* Together: a commit that adds its own rows and follows the stages keeps  *)
(* the invariant.                                                          *)
LEMMA CommitKeepsInv ==
    ASSUME ThreadsInv, NEW t \in Threads, threads[t] # Idle,
           NEW id \in PurchaseOrders \cup Invoices \cup Keys, Finish(t, id),
           TypeOK', TablesGrow, Effects(threads[t].key, Operation(t), id),
           Operation(t) = "purchase_order.receive" => id \in PurchaseOrders,
           Operation(t) = "invoice.match" => id = threads[t].key,
           Operation(t) = "invoice.pay" /\ id \in Invoices => WasPosted(gl_entries, id),
           \A i \in Invoices : invoices'[i] # None =>
              \/ invoices[i] # None /\ invoices'[i].status = invoices[i].status
              \/ invoices'[i].status = "PENDING"
              \/ invoices'[i].status = "MATCHED" /\ WasMatched(invoice_match_snapshots', i)
              \/ invoices'[i].status \in {"APPROVED", "PAID"} /\ WasPosted(gl_entries', i),
           \A i \in Invoices : WasPosted(gl_entries', i) =>
              WasPosted(gl_entries, i) \/ WasMatched(invoice_match_snapshots, i),
           LedgerBalances',
           InvoicesAreDistinct'
    PROVE  ThreadsInv'
<1> DEFINE k == threads[t].key
           request == threads[t].request
<1>1. k \in Keys /\ request \in Request
  BY HeldByThread
<1>2. ~Recorded(k) /\ Record(k, request, id) /\ threads' = [threads EXCEPT ![t] = Idle]
  BY DEF Finish
<1>3. request.operation = Operation(t)
  BY DEF Operation
<1> HIDE DEF k, request
<1>4. ThreadsTypeOK' /\ HandsAgree'
  BY <1>2, CommitFrame
<1>5. OrdersAreRecorded' /\ CreatedOnce' /\ KeysAreRecorded'
  <2>1. Effects(k, request.operation, id)
    BY <1>3 DEF k
  <2>2. /\ request.operation = "purchase_order.receive" => id \in PurchaseOrders
        /\ request.operation = "invoice.match" => id = k
    BY <1>3 DEF k
  <2> QED
    BY <1>1, <1>2, <2>1, <2>2, RecordsStep
<1>6. StagesFollow'
  <2>1. request.operation = "invoice.pay" /\ id \in Invoices => WasPosted(gl_entries, id)
    BY <1>3
  <2> QED
    BY <1>1, <1>2, <2>1, StagesStep
<1> QED
  BY <1>4, <1>5, <1>6 DEF ThreadsInv

(* A commit finds in hand what its operation needs.                        *)
LEMMA HeldAtCommit ==
    ASSUME ThreadsInv, NEW t \in Threads, NEW operations, At(t, "commit", operations)
    PROVE  /\ threads[t] # Idle
           /\ threads[t].step = "commit"
           /\ Operation(t) \in operations
           /\ threads[t].key \in Keys
           /\ threads[t].request \in Request
           /\ OrderInHand(purchase_orders, threads[t])
           /\ InvoiceInHand(purchase_orders, invoices, threads[t])
           /\ StageInHand(purchase_orders, invoice_match_snapshots, gl_entries, threads[t])
           /\ TypeOK
<1>1. threads[t].step = "commit" /\ Operation(t) \in operations
  BY DEF At
<1>2. threads[t] # Idle
  BY <1>1, AtAThreadStep
<1> QED
  BY <1>1, <1>2, HeldByThread DEF ThreadsInv, ThreadsTypeOK

(* The ledger of an unchanged table.                                       *)
LEMMA LedgerUnchanged ==
    ASSUME LedgerBalances, UNCHANGED gl_entries
    PROVE  LedgerBalances'
BY DEF LedgerBalances, PostedFor

(* A new order is its creator's.                                           *)
LEMMA CommitCreateOrderKeepsInv ==
    ASSUME ThreadsInv, NEW t \in Threads, NEW p \in PurchaseOrders, CommitCreateOrder(t, p)
    PROVE  ThreadsInv'
<1> USE DEF history, credit
<1> DEFINE k == threads[t].key
           order == threads[t].order
<1>1. /\ threads[t] # Idle
      /\ Operation(t) = "purchase_order.create"
      /\ k \in Keys
      /\ threads[t].request \in Request
      /\ OrderInHand(purchase_orders, threads[t])
      /\ TypeOK
  BY HeldAtCommit DEF CommitCreateOrder
<1>2. order \in PurchaseOrder /\ order.create_idempotency_key = k
  BY <1>1 DEF OrderInHand, Operation
<1>3. /\ purchase_orders[p] = None
      /\ purchase_orders' = [purchase_orders EXCEPT ![p] = order]
      /\ Finish(t, p)
      /\ UNCHANGED <<invoices, history, credit>>
  BY DEF CommitCreateOrder
<1>4. purchase_orders'[p] = order /\ \A q \in PurchaseOrders : q # p => purchase_orders'[q] = purchase_orders[q]
  BY <1>1, <1>3 DEF TypeOK
<1> HIDE DEF order
<1>5. TypeOK'
  <2>1. idempotency_keys' \in [Keys -> IdempotencyRecord \cup {None}]
    BY <1>1, <1>3, RecordType DEF Finish
  <2> QED
    BY <1>1, <1>2, <1>3, <2>1 DEF TypeOK
<1>6. TablesGrow
  BY <1>1, <1>3, <1>4 DEF TablesGrow, SameInvoice
<1>7. Effects(k, Operation(t), p)
  <2>1. order # None
    BY <1>2, NoneAssumption
  <2> QED
    BY <1>1, <1>2, <1>3, <1>4, <2>1 DEF Effects
<1>8. LedgerBalances' /\ InvoicesAreDistinct'
  BY <1>3, <1>6, LedgerUnchanged, DistinctStep DEF ThreadsInv
<1> QED
  BY <1>1, <1>3, <1>5, <1>6, <1>7, <1>8, CommitKeepsInv

(* A submission or a receipt writes to an order there is.                  *)
LEMMA CommitOrderKeepsInv ==
    ASSUME ThreadsInv, NEW t \in Threads, CommitOrder(t)
    PROVE  ThreadsInv'
<1> USE DEF history, credit
<1> DEFINE k == threads[t].key
           r == threads[t].request
           p == r.purchase_order_id
           order == WrittenOrder(purchase_orders[p], threads[t].row, threads[t].order)
           receipt == [po_id |-> p, line_items |-> r.line_items]
<1>1. /\ threads[t] # Idle
      /\ threads[t].step = "commit"
      /\ Operation(t) \in {"purchase_order.submit", "purchase_order.receive"}
      /\ k \in Keys
      /\ r \in Request
      /\ OrderInHand(purchase_orders, threads[t])
      /\ TypeOK
  BY HeldAtCommit DEF CommitOrder
<1>2. p \in PurchaseOrders
  BY <1>1, RequestNames DEF Operation
<1>3. /\ SameOrigin(threads[t].order, purchase_orders[p])
      /\ SameOrigin(threads[t].row, purchase_orders[p])
      /\ purchase_orders[p] \in PurchaseOrder
      /\ purchase_orders[p] # None
  BY <1>1, <1>2 DEF OrderInHand, Operation, SameOrigin, TypeOK
<1>4. /\ order \in PurchaseOrder
      /\ order.create_idempotency_key = purchase_orders[p].create_idempotency_key
      /\ order # None
  <2>1. /\ order \in PurchaseOrder
        /\ order.create_idempotency_key = purchase_orders[p].create_idempotency_key
    BY <1>3, WrittenPurchaseOrder DEF SameOrigin
  <2> QED
    BY <2>1, NoneAssumption
<1>5. /\ purchase_orders' = [purchase_orders EXCEPT ![p] = order]
      /\ Finish(t, p)
      /\ UNCHANGED <<invoices, invoice_match_snapshots, gl_entries, credit>>
  BY DEF CommitOrder
<1>6. CASE Operation(t) = "purchase_order.receive"
  <2>1. goods_receipts[k] = None /\ goods_receipts' = [goods_receipts EXCEPT ![k] = receipt]
    BY <1>6 DEF CommitOrder
  <2>2. receipt \in GoodsReceipt /\ receipt # None
    <3>1. r.line_items \in LineQuantities
      BY <1>1, <1>6, RequestNames, DeliveriesAssumption DEF Operation
    <3>2. receipt \in GoodsReceipt
      BY <1>2, <3>1 DEF GoodsReceipt
    <3> QED
      BY <3>2, NoneIsNoRow
  <2> HIDE DEF order, receipt, p, k
  <2>3. /\ purchase_orders'[p] = order
        /\ \A q \in PurchaseOrders : q # p => purchase_orders'[q] = purchase_orders[q]
        /\ goods_receipts'[k] = receipt
        /\ \A j \in Keys : j # k => goods_receipts'[j] = goods_receipts[j]
    BY <1>1, <1>2, <1>5, <2>1 DEF TypeOK
  <2>4. TypeOK'
    <3>1. idempotency_keys' \in [Keys -> IdempotencyRecord \cup {None}]
      BY <1>1, <1>2, <1>5, RecordType DEF Finish, k
    <3> QED
      BY <1>1, <1>4, <1>5, <2>1, <2>2, <3>1 DEF TypeOK
  <2>5. TablesGrow
    BY <1>4, <1>5, <2>3 DEF TablesGrow, SameInvoice
  <2>6. Effects(k, Operation(t), p)
    BY <1>1, <1>3, <1>4, <1>5, <1>6, <2>1, <2>2, <2>3 DEF Effects
  <2>7. LedgerBalances' /\ InvoicesAreDistinct'
    BY <1>5, <2>5, LedgerUnchanged, DistinctStep DEF ThreadsInv
  <2> QED
    BY <1>1, <1>2, <1>5, <1>6, <2>4, <2>5, <2>6, <2>7, CommitKeepsInv DEF k
<1>7. CASE Operation(t) = "purchase_order.submit"
  <2>1. UNCHANGED goods_receipts
    BY <1>7 DEF CommitOrder
  <2> HIDE DEF order, p, k
  <2>3. /\ purchase_orders'[p] = order
        /\ \A q \in PurchaseOrders : q # p => purchase_orders'[q] = purchase_orders[q]
    BY <1>1, <1>2, <1>5 DEF TypeOK
  <2>4. TypeOK'
    <3>1. idempotency_keys' \in [Keys -> IdempotencyRecord \cup {None}]
      BY <1>1, <1>2, <1>5, RecordType DEF Finish, k
    <3> QED
      BY <1>1, <1>4, <1>5, <2>1, <3>1 DEF TypeOK
  <2>5. TablesGrow
    BY <1>4, <1>5, <2>3 DEF TablesGrow, SameInvoice
  <2>6. Effects(k, Operation(t), p)
    BY <1>1, <1>3, <1>4, <1>5, <1>7, <2>1, <2>3 DEF Effects
  <2>7. LedgerBalances' /\ InvoicesAreDistinct'
    BY <1>5, <2>5, LedgerUnchanged, DistinctStep DEF ThreadsInv
  <2> QED
    BY <1>1, <1>2, <1>5, <1>7, <2>4, <2>5, <2>6, <2>7, CommitKeepsInv DEF k
<1> QED
  BY <1>1, <1>6, <1>7

(* A new invoice, checked against the table inside its transaction.        *)
LEMMA CommitCreateInvoiceKeepsInv ==
    ASSUME ThreadsInv, NEW t \in Threads, NEW i \in Invoices, NEW channel \in Channels,
           CommitCreateInvoice(t, i, channel)
    PROVE  ThreadsInv'
<1> USE DEF history, credit
<1> DEFINE k == threads[t].key
           inv == threads[t].invoice
           p == inv.purchase_order_id
           linked == [purchase_orders[p] EXCEPT !.invoice_id = i]
           check == [vendor_id |-> inv.vendor_id, triggering_invoice_id |-> i,
                     triggering_action |-> "CREATE", status |-> "PENDING", alert_id |-> None]
<1>1. /\ threads[t] # Idle
      /\ Operation(t) = "invoice.create"
      /\ k \in Keys
      /\ threads[t].request \in Request
      /\ InvoiceInHand(purchase_orders, invoices, threads[t])
      /\ TypeOK
  BY HeldAtCommit DEF CommitCreateInvoice
<1>2. /\ inv \in Invoice
      /\ inv # None
      /\ inv.status = "PENDING"
      /\ p \in PurchaseOrders
      /\ purchase_orders[p] # None
  BY <1>1, NoneAssumption DEF InvoiceInHand, Operation, Invoice
<1>3. purchase_orders[p] \in PurchaseOrder
  BY <1>1, <1>2 DEF TypeOK
<1>4. /\ linked \in PurchaseOrder
      /\ linked # None
      /\ linked.create_idempotency_key = purchase_orders[p].create_idempotency_key
  <2>1. /\ linked \in PurchaseOrder
        /\ linked.create_idempotency_key = purchase_orders[p].create_idempotency_key
    BY <1>3 DEF PurchaseOrder
  <2> QED
    BY <2>1, NoneAssumption
<1>5. /\ ~HasInvoiceNumber(inv.vendor_id, inv.invoice_number)
      /\ ~HasInvoice(p)
      /\ invoices[i] = None
      /\ invoices' = [invoices EXCEPT ![i] = inv]
      /\ purchase_orders' = [purchase_orders EXCEPT ![p] = linked]
      /\ StartCreditCheck(k, inv.vendor_id, i, "CREATE", channel)
      /\ Finish(t, i)
      /\ UNCHANGED history
  BY DEF CommitCreateInvoice
<1>6. check \in CreditCheck /\ check # None /\ check.triggering_invoice_id = i
  <2>1. check \in CreditCheck
    BY <1>2 DEF CreditCheck, Invoice
  <2> QED
    BY <2>1, NoneIsNoRow
<1>7. credit_checks' = [credit_checks EXCEPT ![k] = check]
  BY <1>5 DEF StartCreditCheck
<1>8. TypeOK'
  <2>1. idempotency_keys' \in [Keys -> IdempotencyRecord \cup {None}]
    BY <1>1, <1>5, RecordType DEF Finish
  <2>2. inv.vendor_id \in Vendors
    BY <1>2 DEF Invoice
  <2>3. /\ credit_checks' \in [Keys -> CreditCheck \cup {None}]
        /\ credit_alerts' \in [Vendors -> CreditAlert \cup {None}]
        /\ background_tasks' \in SUBSET Keys
    BY <1>1, <1>5, <2>2, StartCreditCheckType
  <2> HIDE DEF linked
  <2> QED
    BY <1>1, <1>2, <1>4, <1>5, <2>1, <2>3 DEF TypeOK
<1> HIDE DEF k, inv, p, linked, check
<1>9. /\ invoices'[i] = inv
      /\ \A j \in Invoices : j # i => invoices'[j] = invoices[j]
      /\ purchase_orders'[p] = linked
      /\ \A q \in PurchaseOrders : q # p => purchase_orders'[q] = purchase_orders[q]
      /\ credit_checks'[k] = check
      /\ \A j \in Keys : j # k => credit_checks'[j] = credit_checks[j]
  BY <1>1, <1>2, <1>5, <1>7 DEF TypeOK
<1>10. TablesGrow
  BY <1>2, <1>4, <1>5, <1>9 DEF TablesGrow, SameInvoice
<1>11. Effects(k, Operation(t), i)
  <2>1. ~Recorded(k)
    BY <1>5 DEF Finish, k
  <2>2. \A j \in Invoices : ~(credit_checks[k] # None /\ credit_checks[k].triggering_invoice_id = j)
    BY <1>1, <2>1 DEF ThreadsInv, KeysAreRecorded, RecordedAs
  <2>3. \A j \in Keys, x \in Invoices :
           (credit_checks'[j] # None /\ credit_checks'[j].triggering_invoice_id = x) <=>
              \/ credit_checks[j] # None /\ credit_checks[j].triggering_invoice_id = x
              \/ j = k /\ i = x
    BY <1>6, <1>9, <2>2
  <2> QED
    BY <1>1, <1>2, <1>4, <1>5, <1>9, <2>3 DEF Effects
<1>12. InvoicesAreDistinct'
  <2>1. InvoicesAreDistinct
    BY DEF ThreadsInv
  <2>2. \A j \in Invoices : invoices[j] # None =>
           /\ invoices[j].purchase_order_id # inv.purchase_order_id
           /\ invoices[j].vendor_id = inv.vendor_id => invoices[j].invoice_number # inv.invoice_number
    BY <1>5 DEF HasInvoiceNumber, HasInvoice, p
  <2> QED
    BY <1>9, <2>1, <2>2 DEF InvoicesAreDistinct
<1>13. LedgerBalances'
  BY <1>5, LedgerUnchanged DEF ThreadsInv
<1> QED
  BY <1>1, <1>2, <1>5, <1>8, <1>9, <1>10, <1>11, <1>12, <1>13, CommitKeepsInv DEF k

(* The row that an update of an invoice leaves.                            *)
LEMMA CommitWritesInvoice ==
    ASSUME ThreadsInv, NEW t \in Threads,
           At(t, "commit", {"invoice.match", "invoice.approve", "invoice.pay"})
    PROVE  LET i == threads[t].request.invoice_id
               inv == threads[t].invoice
               new == Written(invoices[i], threads[t].row, inv)
           IN  /\ i \in Invoices
               /\ inv \in Invoice
               /\ invoices[i] \in Invoice
               /\ SameInvoice(inv, invoices[i])
               /\ new \in Invoice
               /\ new # None
               /\ SameInvoice(invoices[i], new)
               /\ new.status \in {invoices[i].status, inv.status}
<1> DEFINE i == threads[t].request.invoice_id
           inv == threads[t].invoice
<1>1. /\ Operation(t) \in {"invoice.match", "invoice.approve", "invoice.pay"}
      /\ threads[t].step = "commit"
      /\ threads[t].request \in Request
      /\ InvoiceInHand(purchase_orders, invoices, threads[t])
      /\ TypeOK
  BY HeldAtCommit
<1>2. i \in Invoices
  BY <1>1, RequestNames DEF Operation
<1>3. /\ inv \in Invoice /\ SameInvoice(inv, invoices[i])
      /\ threads[t].row \in Invoice /\ SameInvoice(threads[t].row, invoices[i])
  BY <1>1 DEF InvoiceInHand, Operation
<1>4. invoices[i] \in Invoice
  BY <1>1, <1>2, <1>3 DEF SameInvoice, TypeOK
<1> QED
  BY <1>2, <1>3, <1>4, WrittenInvoice, NoneAssumption

(* What such an update does to the table.                                  *)
LEMMA InvoiceUpdate ==
    ASSUME TypeOK, NEW i \in Invoices, NEW new \in Invoice,
           invoices[i] \in Invoice, SameInvoice(invoices[i], new),
           invoices' = [invoices EXCEPT ![i] = new]
    PROVE  /\ invoices' \in [Invoices -> Invoice \cup {None}]
           /\ invoices'[i] = new
           /\ \A j \in Invoices : j # i => invoices'[j] = invoices[j]
           /\ \A j \in Invoices : invoices[j] # None => SameInvoice(invoices[j], invoices'[j])
           /\ \A j \in Invoices : invoices[j] = None => invoices'[j] = None
<1>1. /\ invoices' \in [Invoices -> Invoice \cup {None}]
      /\ invoices'[i] = new
      /\ \A j \in Invoices : j # i => invoices'[j] = invoices[j]
  BY DEF TypeOK
<1>2. invoices[i] # None
  BY NoneAssumption
<1> QED
  BY <1>1, <1>2 DEF SameInvoice

(* A match records its outcome with the invoice it writes.                 *)
LEMMA CommitMatchKeepsInv ==
    ASSUME ThreadsInv, NEW t \in Threads, CommitMatch(t)
    PROVE  ThreadsInv'
<1> USE DEF credit
<1> DEFINE k == threads[t].key
           i == threads[t].request.invoice_id
           inv == threads[t].invoice
           new == Written(invoices[i], threads[t].row, inv)
           snapshot == [invoice_id |-> i, outcome |-> inv.last_match_outcome,
                        next_action |-> NextAction(inv.invoice_amount, threads[t].order)]
<1>1. /\ threads[t] # Idle
      /\ threads[t].step = "commit"
      /\ Operation(t) = "invoice.match"
      /\ k \in Keys
      /\ threads[t].request \in Request
      /\ StageInHand(purchase_orders, invoice_match_snapshots, gl_entries, threads[t])
      /\ TypeOK
  BY HeldAtCommit DEF CommitMatch
<1>2. /\ i \in Invoices
      /\ inv \in Invoice
      /\ invoices[i] \in Invoice
      /\ new \in Invoice
      /\ new # None
      /\ SameInvoice(invoices[i], new)
      /\ new.status \in {invoices[i].status, inv.status}
  <2>1. At(t, "commit", {"invoice.match", "invoice.approve", "invoice.pay"})
    BY DEF CommitMatch, At
  <2> QED
    BY <2>1, CommitWritesInvoice
<1>3. /\ invoices' = [invoices EXCEPT ![i] = new]
      /\ invoice_match_snapshots' = [invoice_match_snapshots EXCEPT ![k] = snapshot]
      /\ Finish(t, k)
      /\ UNCHANGED <<purchase_orders, goods_receipts, gl_entries, credit>>
  BY DEF CommitMatch
<1>4. /\ snapshot \in MatchSnapshot /\ snapshot # None
      /\ snapshot.invoice_id = i /\ snapshot.outcome = inv.last_match_outcome
  <2>1. snapshot \in MatchSnapshot
    BY <1>2, NextActionType DEF MatchSnapshot, Invoice
  <2> QED
    BY <2>1, NoneIsNoRow
<1>5. /\ inv.status \in {"PENDING", "MATCHED"}
      /\ inv.status = "MATCHED" => \/ WasMatched(invoice_match_snapshots, i)
                                   \/ inv.last_match_outcome # "BLOCKED"
  BY <1>1 DEF StageInHand, Operation
<1>6. invoice_match_snapshots[k] = None
  <2>1. ~Recorded(k)
    BY <1>3 DEF Finish
  <2> QED
    BY <1>1, <2>1 DEF ThreadsInv, KeysAreRecorded, RecordedAs
<1> HIDE DEF k, i, inv, new, snapshot
<1>7. /\ invoices' \in [Invoices -> Invoice \cup {None}]
      /\ invoices'[i] = new
      /\ \A j \in Invoices : j # i => invoices'[j] = invoices[j]
      /\ \A j \in Invoices : invoices[j] # None => SameInvoice(invoices[j], invoices'[j])
      /\ \A j \in Invoices : invoices[j] = None => invoices'[j] = None
  BY <1>1, <1>2, <1>3, InvoiceUpdate
<1>8. /\ invoice_match_snapshots'[k] = snapshot
      /\ \A j \in Keys : j # k => invoice_match_snapshots'[j] = invoice_match_snapshots[j]
  BY <1>1, <1>3 DEF TypeOK
<1>9. TypeOK'
  <2>1. idempotency_keys' \in [Keys -> IdempotencyRecord \cup {None}]
    BY <1>1, <1>3, RecordType DEF Finish, k
  <2> QED
    BY <1>1, <1>3, <1>4, <1>7, <2>1 DEF TypeOK
<1>10. \A j \in Invoices : WasMatched(invoice_match_snapshots, j) =>
          WasMatched(invoice_match_snapshots', j)
  BY <1>6, <1>8 DEF WasMatched
<1>11. TablesGrow
  BY <1>3, <1>7, <1>10 DEF TablesGrow
<1>12. Effects(k, Operation(t), k)
  BY <1>1, <1>3, <1>4, <1>7, <1>8 DEF Effects
<1>13. \A j \in Invoices : invoices'[j] # None =>
          \/ invoices[j] # None /\ invoices'[j].status = invoices[j].status
          \/ invoices'[j].status = "PENDING"
          \/ invoices'[j].status = "MATCHED" /\ WasMatched(invoice_match_snapshots', j)
  <2>1. inv.last_match_outcome # "BLOCKED" => WasMatched(invoice_match_snapshots', i)
    BY <1>1, <1>4, <1>8 DEF WasMatched
  <2>2. inv.status = "PENDING" \/ WasMatched(invoice_match_snapshots', i)
    BY <1>2, <1>5, <1>10, <2>1
  <2>3. invoices[i] # None
    BY <1>2, NoneAssumption
  <2> QED
    BY <1>2, <1>5, <1>7, <2>2, <2>3
<1>14. LedgerBalances' /\ InvoicesAreDistinct'
  BY <1>3, <1>7, <1>11, LedgerUnchanged, DistinctStep DEF ThreadsInv
<1>15. \A j \in Invoices : WasPosted(gl_entries', j) => WasPosted(gl_entries, j)
  BY <1>3
<1> QED
  BY <1>1, <1>3, <1>9, <1>11, <1>12, <1>13, <1>14, <1>15, CommitKeepsInv DEF k

(* One more posting of an invoice that balances leaves a ledger that does. *)
LEMMA LedgerGrows ==
    ASSUME TypeOK, LedgerBalances, NEW k \in Keys, NEW i \in Invoices, NEW amount \in Int,
           ~\E e \in gl_entries : e.posting = k /\ e.invoice_id = i,
           gl_entries' = gl_entries \cup BalancedGLEntries(k, i, amount)
    PROVE  LedgerBalances'
<1> DEFINE pair == BalancedGLEntries(k, i, amount)
<1>1. IsFiniteSet(pair) /\ GLEntriesAreBalanced(pair)
  BY PairIsFinite, PairBalances
<1>2. \A e \in pair : /\ e.posting = k /\ e.invoice_id = i
                      /\ e.debit \in Int /\ e.credit \in Int
  BY DEF BalancedGLEntries
<1>3. \A e \in gl_entries : e.debit \in Int /\ e.credit \in Int
  BY DEF TypeOK, GLEntry
<1>4. IsFiniteSet(gl_entries) /\ \A j \in Invoices : PostedFor(j) # {} => GLEntriesAreBalanced(PostedFor(j))
  BY DEF LedgerBalances
<1> HIDE DEF pair
<1>5. gl_entries' = gl_entries \cup pair
  BY DEF pair
<1>6. IsFiniteSet(gl_entries')
  BY <1>1, <1>4, <1>5, FS_Union
<1>7. ASSUME NEW j \in Invoices, {e \in gl_entries' : e.invoice_id = j} # {}
      PROVE  GLEntriesAreBalanced({e \in gl_entries' : e.invoice_id = j})
  <2>1. CASE j # i
    <3>1. {e \in gl_entries' : e.invoice_id = j} = PostedFor(j)
      BY <1>2, <1>5, <2>1 DEF PostedFor
    <3> QED
      BY <1>4, <1>7, <3>1
  <2>2. CASE j = i
    <3>1. {e \in gl_entries' : e.invoice_id = j} = PostedFor(i) \cup pair
      BY <1>2, <1>5, <2>2 DEF PostedFor
    <3>2. CASE PostedFor(i) = {}
      <4>1. {e \in gl_entries' : e.invoice_id = j} = pair
        BY <3>1, <3>2
      <4> QED
        BY <1>1, <4>1
    <3>3. CASE PostedFor(i) # {}
      <4>1. PostedFor(i) \subseteq gl_entries /\ PostedFor(i) \cap pair = {}
        BY <1>2 DEF PostedFor
      <4>2. IsFiniteSet(PostedFor(i)) /\ GLEntriesAreBalanced(PostedFor(i))
        BY <1>4, <3>3, <4>1, FS_Subset
      <4>3. \A e \in PostedFor(i) \cup pair : e.debit \in Int /\ e.credit \in Int
        BY <1>2, <1>3, <4>1
      <4>4. GLEntriesAreBalanced(PostedFor(i) \cup pair)
        BY <1>1, <4>1, <4>2, <4>3, BalancedTogether
      <4> QED
        BY <3>1, <4>4
    <3> QED
      BY <3>2, <3>3
  <2> QED
    BY <2>1, <2>2
<1> QED
  BY <1>6, <1>7 DEF LedgerBalances, PostedFor

(* Every approval posts a pair of its own, and starts a check.             *)
LEMMA CommitApproveKeepsInv ==
    ASSUME ThreadsInv, NEW t \in Threads, NEW channel \in Channels, CommitApprove(t, channel)
    PROVE  ThreadsInv'
<1> DEFINE k == threads[t].key
           i == threads[t].request.invoice_id
           inv == threads[t].invoice
           new == Written(invoices[i], threads[t].row, inv)
           pair == BalancedGLEntries(k, i, inv.invoice_amount)
           check == [vendor_id |-> inv.vendor_id, triggering_invoice_id |-> i,
                     triggering_action |-> "APPROVE", status |-> "PENDING", alert_id |-> None]
<1>1. /\ threads[t] # Idle
      /\ Operation(t) = "invoice.approve"
      /\ k \in Keys
      /\ threads[t].request \in Request
      /\ StageInHand(purchase_orders, invoice_match_snapshots, gl_entries, threads[t])
      /\ TypeOK
  BY HeldAtCommit DEF CommitApprove
<1>2. /\ i \in Invoices
      /\ inv \in Invoice
      /\ invoices[i] \in Invoice
      /\ new \in Invoice
      /\ new # None
      /\ SameInvoice(invoices[i], new)
      /\ new.status \in {invoices[i].status, inv.status}
  <2>1. At(t, "commit", {"invoice.match", "invoice.approve", "invoice.pay"})
    BY DEF CommitApprove, At
  <2> QED
    BY <2>1, CommitWritesInvoice
<1>3. /\ invoices' = [invoices EXCEPT ![i] = new]
      /\ gl_entries' = gl_entries \cup pair
      /\ StartCreditCheck(k, inv.vendor_id, i, "APPROVE", channel)
      /\ Finish(t, i)
      /\ UNCHANGED <<purchase_orders, goods_receipts, invoice_match_snapshots>>
  BY DEF CommitApprove
<1>4. inv.status = "APPROVED" /\ WasMatched(invoice_match_snapshots, i)
  BY <1>1 DEF StageInHand, Operation
<1>5. check \in CreditCheck /\ check # None /\ check.triggering_invoice_id = i
  <2>1. check \in CreditCheck
    BY <1>2 DEF CreditCheck, Invoice
  <2> QED
    BY <2>1, NoneIsNoRow
<1>6. credit_checks' = [credit_checks EXCEPT ![k] = check]
  BY <1>3 DEF StartCreditCheck
<1>7. inv.vendor_id \in Vendors /\ inv.invoice_amount \in Amounts /\ inv.invoice_amount \in Int
  BY <1>2, AmountsAssumption DEF Invoice
<1>8. /\ pair \subseteq GLEntry
      /\ \E e \in pair : TRUE
      /\ \A e \in pair : e.posting = k /\ e.invoice_id = i
  <2>1. pair \subseteq GLEntry
    BY <1>1, <1>2, <1>7, EntriesType
  <2> QED
    BY <2>1 DEF BalancedGLEntries
<1>9. ~Recorded(k)
  BY <1>3 DEF Finish
<1>10. LedgerBalances'
  <2>1. ~\E e \in gl_entries : e.posting = k /\ e.invoice_id = i
    BY <1>1, <1>2, <1>9 DEF ThreadsInv, KeysAreRecorded, RecordedAs
  <2> QED
    BY <1>1, <1>2, <1>3, <1>7, <2>1, LedgerGrows DEF ThreadsInv
<1> HIDE DEF k, i, inv, new, pair, check
<1>11. /\ invoices' \in [Invoices -> Invoice \cup {None}]
       /\ invoices'[i] = new
       /\ \A j \in Invoices : j # i => invoices'[j] = invoices[j]
       /\ \A j \in Invoices : invoices[j] # None => SameInvoice(invoices[j], invoices'[j])
       /\ \A j \in Invoices : invoices[j] = None => invoices'[j] = None
  BY <1>1, <1>2, <1>3, InvoiceUpdate
<1>12. TypeOK'
  <2>1. idempotency_keys' \in [Keys -> IdempotencyRecord \cup {None}]
    BY <1>1, <1>2, <1>3, RecordType DEF Finish, k
  <2>2. /\ credit_checks' \in [Keys -> CreditCheck \cup {None}]
        /\ credit_alerts' \in [Vendors -> CreditAlert \cup {None}]
        /\ background_tasks' \in SUBSET Keys
    BY <1>1, <1>2, <1>3, <1>7, StartCreditCheckType
  <2>3. gl_entries' \in SUBSET GLEntry
    BY <1>1, <1>3, <1>8 DEF TypeOK
  <2> QED
    BY <1>1, <1>3, <1>11, <2>1, <2>2, <2>3 DEF TypeOK
<1>13. TablesGrow
  BY <1>3, <1>11 DEF TablesGrow
<1>14. Effects(k, Operation(t), i)
  <2>1. \A j \in Keys, x \in Invoices :
           (credit_checks'[j] # None /\ credit_checks'[j].triggering_invoice_id = x) <=>
              \/ credit_checks[j] # None /\ credit_checks[j].triggering_invoice_id = x
              \/ j = k /\ i = x
    <3>1. \A x \in Invoices : ~(credit_checks[k] # None /\ credit_checks[k].triggering_invoice_id = x)
      BY <1>1, <1>9 DEF ThreadsInv, KeysAreRecorded, RecordedAs
    <3>2. /\ credit_checks'[k] = check
          /\ \A j \in Keys : j # k => credit_checks'[j] = credit_checks[j]
      BY <1>1, <1>6 DEF TypeOK
    <3> QED
      BY <1>5, <3>1, <3>2
  <2>2. \A j \in Keys, x \in Invoices :
           (\E e \in gl_entries' : e.posting = j /\ e.invoice_id = x) <=>
              \/ \E e \in gl_entries : e.posting = j /\ e.invoice_id = x
              \/ j = k /\ i = x
    BY <1>3, <1>8
  <2>3. UNCHANGED <<purchase_orders, goods_receipts, invoice_match_snapshots>>
    BY <1>3
  <2> QED
    BY <1>1, <1>11, <2>1, <2>2, <2>3 DEF Effects
<1>15. \A j \in Invoices : WasPosted(gl_entries', j) =>
          WasPosted(gl_entries, j) \/ WasMatched(invoice_match_snapshots, j)
  BY <1>3, <1>4, <1>8 DEF WasPosted
<1>16. \A j \in Invoices : invoices'[j] # None =>
          \/ invoices[j] # None /\ invoices'[j].status = invoices[j].status
          \/ invoices'[j].status \in {"APPROVED", "PAID"} /\ WasPosted(gl_entries', j)
  <2>1. WasPosted(gl_entries', i)
    BY <1>3, <1>8 DEF WasPosted
  <2>2. invoices[i] # None
    BY <1>2, NoneAssumption
  <2> QED
    BY <1>2, <1>4, <1>11, <2>1, <2>2
<1>17. InvoicesAreDistinct'
  BY <1>11, <1>13, DistinctStep DEF ThreadsInv
<1> QED
  BY <1>1, <1>2, <1>3, <1>10, <1>12, <1>13, <1>14, <1>15, <1>16, <1>17, CommitKeepsInv DEF k

(* A payment writes the order its first read found, closed.                *)
LEMMA CommitPayKeepsInv ==
    ASSUME ThreadsInv, NEW t \in Threads, CommitPay(t)
    PROVE  ThreadsInv'
<1> USE DEF history, credit
<1> DEFINE k == threads[t].key
           i == threads[t].request.invoice_id
           inv == threads[t].invoice
           new == Written(invoices[i], threads[t].row, inv)
           p == inv.purchase_order_id
           order == threads[t].order
<1>1. /\ threads[t] # Idle
      /\ threads[t].step = "commit"
      /\ Operation(t) = "invoice.pay"
      /\ k \in Keys
      /\ threads[t].request \in Request
      /\ StageInHand(purchase_orders, invoice_match_snapshots, gl_entries, threads[t])
      /\ TypeOK
  BY HeldAtCommit DEF CommitPay
<1>2. /\ i \in Invoices
      /\ inv \in Invoice
      /\ invoices[i] \in Invoice
      /\ new \in Invoice
      /\ new # None
      /\ SameInvoice(invoices[i], new)
      /\ new.status \in {invoices[i].status, inv.status}
  <2>1. At(t, "commit", {"invoice.match", "invoice.approve", "invoice.pay"})
    BY DEF CommitPay, At
  <2> QED
    BY <2>1, CommitWritesInvoice
<1>3. /\ invoices' = [invoices EXCEPT ![i] = new]
      /\ purchase_orders' = [purchase_orders EXCEPT ![p] = order]
      /\ Finish(t, i)
      /\ UNCHANGED <<history, credit>>
  BY DEF CommitPay
<1>4. /\ WasPosted(gl_entries, i)
      /\ inv.status = "PAID"
      /\ SameOrigin(order, purchase_orders[p])
  BY <1>1 DEF StageInHand, Operation
<1>5. p \in PurchaseOrders /\ order \in PurchaseOrder /\ order # None
  BY <1>2, <1>4, NoneAssumption DEF Invoice, SameOrigin
<1> HIDE DEF k, i, inv, new, p, order
<1>6. /\ invoices' \in [Invoices -> Invoice \cup {None}]
      /\ invoices'[i] = new
      /\ \A j \in Invoices : j # i => invoices'[j] = invoices[j]
      /\ \A j \in Invoices : invoices[j] # None => SameInvoice(invoices[j], invoices'[j])
      /\ \A j \in Invoices : invoices[j] = None => invoices'[j] = None
  BY <1>1, <1>2, <1>3, InvoiceUpdate
<1>7. purchase_orders'[p] = order /\ \A q \in PurchaseOrders : q # p => purchase_orders'[q] = purchase_orders[q]
  BY <1>1, <1>3, <1>5 DEF TypeOK
<1>8. TypeOK'
  <2>1. idempotency_keys' \in [Keys -> IdempotencyRecord \cup {None}]
    BY <1>1, <1>2, <1>3, RecordType DEF Finish, k
  <2> QED
    BY <1>1, <1>3, <1>5, <1>6, <2>1 DEF TypeOK
<1>9. TablesGrow
  <2>1. \A q \in PurchaseOrders : purchase_orders[q] # None =>
           /\ purchase_orders'[q] # None
           /\ purchase_orders'[q].create_idempotency_key = purchase_orders[q].create_idempotency_key
    BY <1>4, <1>5, <1>7 DEF SameOrigin
  <2> QED
    BY <1>3, <1>6, <2>1 DEF TablesGrow
<1>10. Effects(k, Operation(t), i)
  <2>1. \A q \in PurchaseOrders : purchase_orders[q] = None => purchase_orders'[q] = None
    BY <1>4, <1>7 DEF SameOrigin
  <2> QED
    BY <1>1, <1>3, <1>6, <2>1 DEF Effects
<1>11. \A j \in Invoices : invoices'[j] # None =>
          \/ invoices[j] # None /\ invoices'[j].status = invoices[j].status
          \/ invoices'[j].status \in {"APPROVED", "PAID"} /\ WasPosted(gl_entries', j)
  <2>1. WasPosted(gl_entries', i)
    BY <1>3, <1>4
  <2>2. invoices[i] # None
    BY <1>2, NoneAssumption
  <2> QED
    BY <1>2, <1>4, <1>6, <2>1, <2>2
<1>12. LedgerBalances' /\ InvoicesAreDistinct'
  BY <1>3, <1>6, <1>9, LedgerUnchanged, DistinctStep DEF ThreadsInv
<1>13. \A j \in Invoices : WasPosted(gl_entries', j) => WasPosted(gl_entries, j)
  BY <1>3
<1> QED
  BY <1>1, <1>2, <1>3, <1>4, <1>8, <1>9, <1>10, <1>11, <1>12, <1>13, CommitKeepsInv DEF k

-----------------------------------------------------------------------------
(* The invariant holds, and what follows from it                           *)

LEMMA ThreadsInvStarts == ThreadsInit => ThreadsInv
<1> SUFFICES ASSUME ThreadsInit
             PROVE  ThreadsInv
  OBVIOUS
<1> USE DEF ThreadsInit
<1>1. ThreadsTypeOK
  BY DEF ThreadsTypeOK, Init, TypeOK
<1>2. HandsAgree
  BY DEF HandsAgree
<1>3. \A k \in Keys : \A operation, id : ~RecordedAs(k, operation, id)
  BY DEF Init, RecordedAs, Recorded
<1>4. OrdersAreRecorded /\ CreatedOnce /\ KeysAreRecorded
  BY <1>3 DEF Init, OrdersAreRecorded, CreatedOnce, KeysAreRecorded
<1>5. StagesFollow
  BY <1>3 DEF Init, StagesFollow, WasPosted
<1>6. LedgerBalances
  BY FS_EmptySet DEF Init, LedgerBalances, PostedFor
<1>7. InvoicesAreDistinct
  BY DEF Init, InvoicesAreDistinct
<1> QED
  BY <1>1, <1>2, <1>4, <1>5, <1>6, <1>7 DEF ThreadsInv

LEMMA ThreadsInvStep == ThreadsInv /\ [ThreadsNext]_allvars => ThreadsInv'
<1> SUFFICES ASSUME ThreadsInv, [ThreadsNext]_allvars
             PROVE  ThreadsInv'
  OBVIOUS
<1>1. ASSUME NEW t \in Threads, CommitStep(t)
      PROVE  ThreadsInv'
  BY <1>1, CommitCreateOrderKeepsInv, CommitOrderKeepsInv, CommitCreateInvoiceKeepsInv,
     CommitMatchKeepsInv, CommitApproveKeepsInv, CommitPayKeepsInv DEF CommitStep
<1>2. CASE ThreadsNext
  BY <1>1, <1>2, StartKeepsInv, FindKeepsInv, LoadKeepsInv, RereadKeepsInv, RollBackKeepsInv DEF ThreadsNext
<1>3. CASE UNCHANGED allvars
  <2> USE DEF allvars, vars, documents, history, credit
  <2>1. ThreadsTypeOK'
    BY <1>3 DEF ThreadsInv, ThreadsTypeOK, TypeOK
  <2>2. HandsAgree'
    BY <1>3 DEF ThreadsInv, HandsAgree
  <2>3. OrdersAreRecorded' /\ CreatedOnce' /\ KeysAreRecorded'
    BY <1>3 DEF ThreadsInv, OrdersAreRecorded, CreatedOnce, KeysAreRecorded, RecordedAs, Recorded
  <2>4. StagesFollow' /\ LedgerBalances' /\ InvoicesAreDistinct'
    BY <1>3 DEF ThreadsInv, StagesFollow, LedgerBalances, InvoicesAreDistinct, PostedFor,
                RecordedAs, Recorded
  <2> QED
    BY <2>1, <2>2, <2>3, <2>4 DEF ThreadsInv
<1> QED
  BY <1>2, <1>3

(* The tables and what every thread has in hand fit together, whatever the *)
(* number of threads and the order of their reads and transactions.        *)
THEOREM ThreadsInvariant == ThreadsSpec => []ThreadsInv
<1> QED
  BY ThreadsInvStarts, ThreadsInvStep, PTL DEF ThreadsSpec

(* No interleaving writes a row that is not of its table.                  *)
THEOREM ThreadsTypesAreCorrect == ThreadsSpec => []ThreadsTypeOK
<1>1. ThreadsInv => ThreadsTypeOK
  BY DEF ThreadsInv
<1> QED
  BY <1>1, ThreadsInvariant, PTL

(* Two concurrent creations never bill one order twice, nor use an invoice *)
(* number of a vendor twice: the transaction checks both again.            *)
THEOREM RacesKeepInvoicesDistinct == ThreadsSpec => []InvoicesAreDistinct
<1>1. ThreadsInv => InvoicesAreDistinct
  BY DEF ThreadsInv
<1> QED
  BY <1>1, ThreadsInvariant, PTL

(* Exactly once: each row is the effect of one recorded request, whatever  *)
(* was sent again meanwhile, because the key is the primary key of a row   *)
(* of the same transaction.                                                *)
THEOREM RacesKeepEffectsRecorded == ThreadsSpec => []EffectsAreRecorded
<1>1. ThreadsInv => EffectsAreRecorded
  <2> SUFFICES ASSUME ThreadsInv
               PROVE  EffectsAreRecorded
    OBVIOUS
  <2>1. ASSUME NEW i \in Invoices
        PROVE  Cardinality({k \in Keys : RecordedAs(k, "invoice.create", i)}) =
                   IF invoices[i] = None THEN 0 ELSE 1
    <3> DEFINE keys == {k \in Keys : RecordedAs(k, "invoice.create", i)}
    <3>1. IF invoices[i] = None THEN keys = {} ELSE \E k \in Keys : keys = {k}
      BY DEF ThreadsInv, CreatedOnce
    <3> HIDE DEF keys
    <3>2. Cardinality(keys) = IF invoices[i] = None THEN 0 ELSE 1
      BY <3>1, FS_EmptySet, FS_Singleton
    <3> QED
      BY <3>2 DEF keys
  <2> QED
    BY <2>1 DEF ThreadsInv, OrdersAreRecorded, KeysAreRecorded, EffectsAreRecorded
<1> QED
  BY <1>1, ThreadsInvariant, PTL

(* Requests that act on rows read before another request changed them      *)
(* never pay what no one approved, post what no match let through, or      *)
(* leave a ledger out of balance.                                          *)
THEOREM RacesSkipNoStage == ThreadsSpec => []NoStageSkipped
<1>1. ThreadsInv => NoStageSkipped
  <2>1. \A i \in Invoices : PostedFor(i) # {} <=> WasPosted(gl_entries, i)
    BY DEF PostedFor, WasPosted
  <2> QED
    BY <2>1 DEF ThreadsInv, StagesFollow, LedgerBalances, WasMatched, NoStageSkipped
<1> QED
  BY <1>1, ThreadsInvariant, PTL
=============================================================================
