------------------------- MODULE P2PClientsProofs -------------------------
(***************************************************************************)
(* Proofs about P2PClients: which invariants of the service hold of a      *)
(* database that starts with the demo rows, and what clients may rely on.  *)
(***************************************************************************)
EXTENDS P2PClients, P2PTotalsProofs, SequenceTheorems

-----------------------------------------------------------------------------
(* The demo rows                                                           *)

(* The quantities of a demo row are quantities.                            *)
LEMMA FirstLineQuantities ==
    \A n \in Nat : OnFirstLine(n) \in LineQuantities
BY DEF OnFirstLine, LineQuantities

(* The demo orders, one by one.                                            *)
LEMMA DemoOrderRows ==
    ASSUME NEW p \in DOMAIN DemoPurchaseOrders
    PROVE  \/ /\ p = "PO-200"
              /\ DemoPurchaseOrders[p] = DemoOrder("V-100", "SUBMITTED", 100, 60, 1000, None)
           \/ /\ p = "PO-1001"
              /\ DemoPurchaseOrders[p] = DemoOrder("V-100", "SUBMITTED", 1, 0, 125000, "INV-1001")
           \/ /\ p = "PO-1002"
              /\ DemoPurchaseOrders[p] = DemoOrder("V-100", "RECEIVED", 1, 1, 50000, "INV-1002")
           \/ /\ p = "PO-1003"
              /\ DemoPurchaseOrders[p] = DemoOrder("V-100", "CLOSED", 1, 1, 9999, "INV-1003")
           \/ /\ p = "PO-2001"
              /\ DemoPurchaseOrders[p] = DemoOrder("V-300", "RECEIVED", 1, 1, 30000, "INV-2001")
BY DEF DemoPurchaseOrders

(* Every demo invoice is of an order that names it.                        *)
LEMMA DemoInvoiceRows ==
    ASSUME NEW i \in DOMAIN DemoInvoices
    PROVE  \/ /\ i = "INV-1001"
              /\ DemoInvoices[i] = DemoInvoice("V-100", "PO-1001", "A1001", 125000, "PENDING", "NONE", None)
           \/ /\ i = "INV-1002"
              /\ DemoInvoices[i] = DemoInvoice("V-100", "PO-1002", "A1002", 50000, "APPROVED", "MATCHED", SeededAt)
           \/ /\ i = "INV-1003"
              /\ DemoInvoices[i] = DemoInvoice("V-100", "PO-1003", "A1003", 9999, "PAID", "MATCHED", SeededAt)
           \/ /\ i = "INV-2001"
              /\ DemoInvoices[i] = DemoInvoice("V-300", "PO-2001", "D2001", 30000, "MATCHED", "MATCHED", SeededAt)
BY DEF DemoInvoices

(* They are rows of orders: open ones have goods to come, the others none. *)
LEMMA DemoOrdersFit ==
    ASSUME NEW p \in DOMAIN DemoPurchaseOrders
    PROVE  LET po == DemoPurchaseOrders[p]
           IN  /\ po \in PurchaseOrder
               /\ \A l \in Lines : po.qty_received[l] <= po.qty_ordered[l]
               /\ po.status \in {"RECEIVED", "CLOSED"} => FullyReceived(po)
               /\ po.status = "SUBMITTED" => ~FullyReceived(po)
               /\ po.status # "DRAFT" /\ po.submit_idempotency_key = None
<1>1. {"V-100", "V-300"} \subseteq Vendors
  BY DemoFits DEF DemoVendors
<1>2. {None, "INV-1001", "INV-1002", "INV-1003", "INV-2001"} \subseteq Invoices \cup {None}
  BY DemoFits DEF DemoInvoices
<1>3. FirstLine \in Lines
  BY DemoFits
<1> DEFINE Fits(po) ==
        /\ po \in PurchaseOrder
        /\ \A l \in Lines : po.qty_received[l] <= po.qty_ordered[l]
        /\ po.status \in {"RECEIVED", "CLOSED"} => FullyReceived(po)
        /\ po.status = "SUBMITTED" => ~FullyReceived(po)
        /\ po.status # "DRAFT" /\ po.submit_idempotency_key = None
<1>4. ASSUME NEW v \in {"V-100", "V-300"}, NEW status \in PurchaseOrderStatuses,
             NEW ordered \in Nat, NEW received \in Nat, NEW cost \in Nat,
             NEW i \in {None, "INV-1001", "INV-1002", "INV-1003", "INV-2001"},
             received <= ordered, status # "DRAFT",
             status \in {"RECEIVED", "CLOSED"} <=> received = ordered
      PROVE  Fits(DemoOrder(v, status, ordered, received, cost, i))
  <2> DEFINE po == DemoOrder(v, status, ordered, received, cost, i)
  <2>1. po \in PurchaseOrder
    BY <1>1, <1>2, FirstLineQuantities DEF DemoOrder, PurchaseOrder
  <2>2. /\ po.status = status /\ po.submit_idempotency_key = None
        /\ \A l \in Lines : po.qty_received[l] = IF l = FirstLine THEN received ELSE 0
        /\ \A l \in Lines : po.qty_ordered[l] = IF l = FirstLine THEN ordered ELSE 0
    BY DEF DemoOrder, OnFirstLine
  <2> SUFFICES Fits(po)
    OBVIOUS
  <2> HIDE DEF po
  <2>3. FullyReceived(po) <=> received = ordered
    BY <1>3, <2>2 DEF FullyReceived
  <2> QED
    BY <1>4, <2>1, <2>2, <2>3
<1> HIDE DEF Fits
<1>5. Fits(DemoPurchaseOrders[p])
  BY <1>4, DemoOrderRows DEF PurchaseOrderStatuses
<1> QED
  BY <1>5 DEF Fits

(* A rounded amount is as near as it can be.                               *)
LEMMA RoundingIsNear ==
    ASSUME NEW x \in Int
    PROVE  WithinHalfACent(Cents(x), x)
BY DEF WithinHalfACent, Cents

(* The demo invoices are rows of invoices, each with an order that names   *)
(* it, at the same stage, and one past PENDING is for the price of the one *)
(* piece that came.                                                        *)
LEMMA DemoInvoicesFit ==
    ASSUME NEW i \in DOMAIN DemoInvoices
    PROVE  LET inv == DemoInvoices[i]
               po == DemoPurchaseOrders[inv.purchase_order_id]
           IN  /\ inv \in Invoice
               /\ inv.purchase_order_id \in DOMAIN DemoPurchaseOrders
               /\ inv.invoice_amount > 0
               /\ inv.approved_at = None /\ inv.paid_at = None
               /\ po.invoice_id = i /\ po.vendor_id = inv.vendor_id
               /\ inv.status = "PAID" <=> po.status = "CLOSED"
               /\ inv.status # "PENDING" =>
                     /\ inv.last_match_outcome = "MATCHED"
                     /\ po.qty_received = OnFirstLine(1)
                     /\ po.unit_cost = OnFirstLine(inv.invoice_amount)
<1> DEFINE inv == DemoInvoices[i]
<1>1. inv \in Invoice
  <2>1. inv.invoice_number \in InvoiceNumbers /\ inv.invoice_amount \in Amounts
    BY DemoFits
  <2>2. {"V-100", "V-300"} \subseteq Vendors /\ SeededAt \in Keys
    BY DemoFits DEF DemoVendors, DemoKeys
  <2>3. {"PO-1001", "PO-1002", "PO-1003", "PO-2001"} \subseteq PurchaseOrders
    BY DemoFits DEF DemoPurchaseOrders
  <2>4. {"PENDING", "MATCHED", "APPROVED", "PAID"} \subseteq InvoiceStatuses
        /\ {"NONE", "MATCHED"} \subseteq MatchOutcomes
    BY DEF InvoiceStatuses, MatchOutcomes
  <2> QED
    BY <2>1, <2>2, <2>3, <2>4, DemoInvoiceRows
    DEF DemoInvoice, Invoice
<1>2. /\ inv.invoice_amount > 0
      /\ inv.approved_at = None /\ inv.paid_at = None
      /\ inv.status # "PENDING" => inv.last_match_outcome = "MATCHED"
  BY DemoInvoiceRows DEF DemoInvoice
<1>3. {"PO-1001", "PO-1002", "PO-1003", "PO-2001"} \subseteq DOMAIN DemoPurchaseOrders
  BY DEF DemoPurchaseOrders
<1>4. /\ inv.purchase_order_id \in DOMAIN DemoPurchaseOrders
      /\ \E p \in {"PO-1001", "PO-1002", "PO-1003", "PO-2001"} : p = inv.purchase_order_id
  BY <1>3, DemoInvoiceRows DEF DemoInvoice
<1> DEFINE po == DemoPurchaseOrders[inv.purchase_order_id]
<1>5. /\ po.invoice_id = i /\ po.vendor_id = inv.vendor_id
      /\ inv.status = "PAID" <=> po.status = "CLOSED"
      /\ inv.status # "PENDING" =>
            /\ po.qty_received = OnFirstLine(1)
            /\ po.unit_cost = OnFirstLine(inv.invoice_amount)
  BY <1>4, DemoInvoiceRows, DemoOrderRows DEF DemoInvoice, DemoOrder
<1> QED
  BY <1>1, <1>2, <1>4, <1>5

(* An order that names an invoice names one of the demo, which is its own. *)
LEMMA DemoOrdersLinked ==
    /\ \A p \in DOMAIN DemoPurchaseOrders : DemoPurchaseOrders[p].invoice_id # None =>
          /\ DemoPurchaseOrders[p].invoice_id \in DOMAIN DemoInvoices
          /\ DemoInvoices[DemoPurchaseOrders[p].invoice_id].purchase_order_id = p
    /\ \A i, j \in DOMAIN DemoInvoices :
          DemoInvoices[i].invoice_number = DemoInvoices[j].invoice_number => i = j
<1>1. DOMAIN DemoInvoices = {"INV-1001", "INV-1002", "INV-1003", "INV-2001"}
  BY DEF DemoInvoices
<1>2. ASSUME NEW p \in DOMAIN DemoPurchaseOrders, DemoPurchaseOrders[p].invoice_id # None
      PROVE  /\ DemoPurchaseOrders[p].invoice_id \in DOMAIN DemoInvoices
             /\ DemoInvoices[DemoPurchaseOrders[p].invoice_id].purchase_order_id = p
  BY <1>1, <1>2, DemoOrderRows, DemoInvoiceRows DEF DemoInvoice, DemoOrder
<1>3. ASSUME NEW i \in DOMAIN DemoInvoices, NEW j \in DOMAIN DemoInvoices,
             DemoInvoices[i].invoice_number = DemoInvoices[j].invoice_number
      PROVE  i = j
  BY <1>1, <1>3, DemoInvoiceRows DEF DemoInvoice
<1> QED
  BY <1>2, <1>3

(* The one line of a demo row is worth what its price times its quantity   *)
(* is.                                                                     *)
LEMMA FirstLineValue ==
    ASSUME NEW n \in Nat, NEW cost \in Nat
    PROVE  LineValue(OnFirstLine(n), OnFirstLine(cost)) = n * cost
<1> DEFINE f == Products(OnFirstLine(n), OnFirstLine(cost))
           others == Lines \ {FirstLine}
<1>1. \A l \in Lines : f[l] = IF l = FirstLine THEN n * cost ELSE 0
  BY DEF Products, OnFirstLine
<1>2. n * cost \in Nat
  OBVIOUS
<1> HIDE DEF f
<1>3. FirstLine \in Lines /\ IsFiniteSet(others)
  BY DemoFits, LinesAssumption, FS_Subset
<1>4. SumOver(f, Lines) = f[FirstLine] + SumOver(f, others)
  BY <1>1, <1>2, <1>3, LinesAssumption, SumTakes
<1>5. SumOver(f, others) = 0
  BY <1>1, <1>3, SumOfNothing
<1> QED
  BY <1>1, <1>2, <1>3, <1>4, <1>5, LineValueSum DEF f

(* What a database with the demo rows alone satisfies.                     *)
LEMMA DemoStarts ==
    ASSUME DemoInit
    PROVE  /\ TypeOK /\ TasksHaveChecks /\ InvoiceLinks
           /\ NeverOverReceived /\ PaidMeansClosed /\ Covered
<1> USE DEF Rows
<1>1. \A p \in PurchaseOrders : purchase_orders[p] # None =>
         p \in DOMAIN DemoPurchaseOrders /\ purchase_orders[p] = DemoPurchaseOrders[p]
  BY DEF DemoInit
<1>2. \A i \in Invoices : invoices[i] # None =>
         i \in DOMAIN DemoInvoices /\ invoices[i] = DemoInvoices[i]
  BY DEF DemoInit
<1>3. /\ \A p \in DOMAIN DemoPurchaseOrders :
            /\ p \in PurchaseOrders
            /\ purchase_orders[p] = DemoPurchaseOrders[p]
            /\ purchase_orders[p] \in PurchaseOrder
            /\ purchase_orders[p] # None
      /\ \A i \in DOMAIN DemoInvoices :
            /\ i \in Invoices
            /\ invoices[i] = DemoInvoices[i]
            /\ invoices[i] \in Invoice
            /\ invoices[i] # None
  BY DemoFits, DemoOrdersFit, DemoInvoicesFit, NoneAssumption DEF DemoInit
<1>4. TypeOK /\ TasksHaveChecks
  <2>1. \A k \in DOMAIN DemoReceipts : DemoReceipts[k] \in GoodsReceipt
    BY DemoFits, FirstLineQuantities
    DEF DemoReceipts, DemoReceipt, GoodsReceipt, DemoPurchaseOrders
  <2>2. /\ purchase_orders \in [PurchaseOrders -> PurchaseOrder \cup {None}]
        /\ invoices \in [Invoices -> Invoice \cup {None}]
        /\ goods_receipts \in [Keys -> GoodsReceipt \cup {None}]
    BY <2>1, DemoOrdersFit, DemoInvoicesFit DEF DemoInit
  <2> QED
    BY <2>2 DEF DemoInit, TypeOK, TasksHaveChecks
<1>5. InvoiceLinks
  BY <1>1, <1>2, <1>3, DemoInvoicesFit, DemoOrdersLinked DEF InvoiceLinks
<1>6. NeverOverReceived
  BY <1>1, DemoOrdersFit DEF NeverOverReceived
<1>7. PaidMeansClosed
  BY <1>2, <1>3, DemoInvoicesFit DEF PaidMeansClosed
<1>8. Covered
  <2> SUFFICES ASSUME NEW i \in Invoices, invoices[i] # None, invoices[i].status # "PENDING"
               PROVE  /\ invoices[i].last_match_outcome \in {"MATCHED_WITH_WARNING", "MATCHED"}
                      /\ invoices[i].invoice_amount
                           <= ReceivedValue(purchase_orders[invoices[i].purchase_order_id])
    BY DEF Covered
  <2> DEFINE amount == invoices[i].invoice_amount
             po == purchase_orders[invoices[i].purchase_order_id]
  <2>1. /\ invoices[i] \in Invoice /\ amount > 0
        /\ invoices[i].last_match_outcome = "MATCHED"
        /\ po.qty_received = OnFirstLine(1) /\ po.unit_cost = OnFirstLine(amount)
    BY <1>2, <1>3, DemoInvoicesFit
  <2>2. amount \in Nat
    <3>1. amount \in Int /\ amount > 0
      BY <2>1, AmountsAssumption DEF Invoice
    <3> HIDE DEF amount
    <3> QED
      BY <3>1
  <2>3. ReceivedValue(po) = amount
    BY <2>1, <2>2, FirstLineValue DEF ReceivedValue
  <2> QED
    BY <2>1, <2>2, <2>3
<1> QED
  BY <1>4, <1>5, <1>6, <1>7, <1>8

-----------------------------------------------------------------------------
(* What records say stays true                                             *)

(* The terms of an order, which are agreed when it is created.             *)
SameTerms(old, new) ==
    /\ old # None /\ new # None
    /\ new.vendor_id = old.vendor_id
    /\ new.qty_ordered = old.qty_ordered
    /\ new.unit_cost = old.unit_cost

(* The five ways in which a step may touch an order. *)
IsDrafted(old, new) ==
    /\ old = None
    /\ new.status = "DRAFT" /\ new.invoice_id = None /\ new.submit_idempotency_key = None
    /\ ~FullyReceived(new)

IsSubmitted(old, new) ==
    /\ SameTerms(old, new) /\ new.qty_received = old.qty_received
    /\ old.status = "DRAFT" /\ new.status = "SUBMITTED"
    /\ new.invoice_id = old.invoice_id

IsReceived(old, new) ==
    /\ SameTerms(old, new)
    /\ old.status = "SUBMITTED" /\ new.status \in {"SUBMITTED", "RECEIVED"}
    /\ new.status = "SUBMITTED" => ~FullyReceived(new)
    /\ new.submit_idempotency_key = old.submit_idempotency_key
    /\ new.invoice_id = old.invoice_id

IsInvoiced(old, new) ==
    /\ SameTerms(old, new) /\ new.qty_received = old.qty_received
    /\ old.status \in {"SUBMITTED", "RECEIVED"} /\ new.status = old.status
    /\ new.submit_idempotency_key = old.submit_idempotency_key

IsClosed(old, new) ==
    /\ SameTerms(old, new) /\ new.qty_received = old.qty_received
    /\ old.status = "RECEIVED" /\ new.status = "CLOSED"
    /\ new.submit_idempotency_key = old.submit_idempotency_key
    /\ new.invoice_id = old.invoice_id

(* A new order is drafted, with goods to come ...                          *)
LEMMA DraftMove ==
    ASSUME TypeOK, NEW k \in Keys, NEW p \in PurchaseOrders, NEW v \in VendorIds,
           NEW order \in Orders, CreatePurchaseOrder(k, v, order, p)
    PROVE  IsDrafted(purchase_orders[p], purchase_orders'[p])
<1> DEFINE new == DraftPurchaseOrder(v, order, k)
<1>1. purchase_orders[p] = None /\ purchase_orders'[p] = new
  BY DEF CreatePurchaseOrder, TypeOK
<1>2. /\ new.status = "DRAFT" /\ new.invoice_id = None /\ new.submit_idempotency_key = None
      /\ new.qty_ordered = order.qty_ordered
      /\ new.qty_received = [l \in Lines |-> 0]
  BY DEF DraftPurchaseOrder
<1>3. PICK l \in Lines : order.qty_ordered[l] # 0
  BY DEF CreatePurchaseOrder, OrderRefusal
<1>4. ~FullyReceived(new)
  BY <1>2, <1>3 DEF FullyReceived
<1> QED
  BY <1>1, <1>2, <1>4 DEF IsDrafted

(* ... a draft is submitted, ...                                           *)
LEMMA SubmitMove ==
    ASSUME TypeOK, NEW k \in Keys, NEW p \in PurchaseOrders, SubmitPurchaseOrder(k, p)
    PROVE  /\ IsSubmitted(purchase_orders[p], purchase_orders'[p])
           /\ purchase_orders'[p].submit_idempotency_key = k
<1> DEFINE po == purchase_orders[p]
           new == Submitted(po, k)
<1>1. po # None /\ po \in PurchaseOrder /\ po.status = "DRAFT" /\ purchase_orders'[p] = new
  BY DEF SubmitPurchaseOrder, SubmitRefusal, TypeOK
<1>2. new \in PurchaseOrder /\ new # None
  BY <1>1, OrderRulesReturnRows, NoneAssumption
<1>3. /\ new.vendor_id = po.vendor_id /\ new.qty_ordered = po.qty_ordered
      /\ new.unit_cost = po.unit_cost /\ new.qty_received = po.qty_received
      /\ new.invoice_id = po.invoice_id
      /\ new.status = "SUBMITTED" /\ new.submit_idempotency_key = k
  BY <1>1 DEF Submitted, PurchaseOrder
<1> HIDE DEF new
<1> QED
  BY <1>1, <1>2, <1>3 DEF IsSubmitted, SameTerms

(* ... a submitted order receives goods, and is RECEIVED with the last, ... *)
LEMMA ReceiveMove ==
    ASSUME TypeOK, NEW k \in Keys, NEW p \in PurchaseOrders, NEW delivery \in Deliveries,
           ReceiveGoods(k, p, delivery)
    PROVE  IsReceived(purchase_orders[p], purchase_orders'[p])
<1> DEFINE po == purchase_orders[p]
           received == [l \in Lines |-> po.qty_received[l] + delivery[l]]
           new == Received(po, delivery)
<1>1. /\ po # None /\ po \in PurchaseOrder /\ po.status = "SUBMITTED"
      /\ purchase_orders'[p] = new
  BY DEF ReceiveGoods, ReceiptRefusal, TypeOK
<1>2. new \in PurchaseOrder /\ new # None
  BY <1>1, OrderRulesReturnRows, NoneAssumption
<1>3. /\ new.vendor_id = po.vendor_id /\ new.qty_ordered = po.qty_ordered
      /\ new.unit_cost = po.unit_cost /\ new.invoice_id = po.invoice_id
      /\ new.submit_idempotency_key = po.submit_idempotency_key
      /\ new.qty_received = received
      /\ new.status = IF \A l \in Lines : received[l] = po.qty_ordered[l]
                      THEN "RECEIVED" ELSE "SUBMITTED"
  BY <1>1 DEF Received, PurchaseOrder
<1> HIDE DEF new, received
<1>4. new.status = "SUBMITTED" => ~FullyReceived(new)
  BY <1>3 DEF FullyReceived
<1> QED
  BY <1>1, <1>2, <1>3, <1>4 DEF IsReceived, SameTerms

(* ... an order without an invoice is linked to a new one, ...             *)
LEMMA LinkMove ==
    ASSUME TypeOK, NEW k \in Keys, NEW i \in Invoices, NEW v \in VendorIds,
           NEW p \in PurchaseOrders, NEW number \in InvoiceNumbers, NEW amount \in Amounts,
           NEW channel \in Channels, CreateInvoice(k, v, p, number, amount, i, channel)
    PROVE  IsInvoiced(purchase_orders[p], purchase_orders'[p])
<1> DEFINE po == purchase_orders[p]
           new == [po EXCEPT !.invoice_id = i]
<1>1. /\ po # None /\ po \in PurchaseOrder /\ po.status \in {"SUBMITTED", "RECEIVED"}
      /\ purchase_orders'[p] = new
  BY DEF CreateInvoice, InvoiceRefusal, TypeOK
<1>2. new \in PurchaseOrder /\ new # None
  BY <1>1, NoneAssumption DEF PurchaseOrder
<1>3. /\ new.vendor_id = po.vendor_id /\ new.qty_ordered = po.qty_ordered
      /\ new.unit_cost = po.unit_cost /\ new.qty_received = po.qty_received
      /\ new.submit_idempotency_key = po.submit_idempotency_key
      /\ new.status = po.status
  BY <1>1 DEF PurchaseOrder
<1> HIDE DEF new
<1> QED
  BY <1>1, <1>2, <1>3 DEF IsInvoiced, SameTerms

(* ... and a received order is closed.                                     *)
LEMMA CloseMove ==
    ASSUME TypeOK, InvoiceLinks, NEW k \in Keys, NEW i \in Invoices, PayInvoice(k, i)
    PROVE  LET p == invoices[i].purchase_order_id
           IN  p \in PurchaseOrders /\ IsClosed(purchase_orders[p], purchase_orders'[p])
<1> DEFINE p == invoices[i].purchase_order_id
           po == purchase_orders[p]
           new == Closed(po)
<1>1. p \in PurchaseOrders /\ po \in PurchaseOrder /\ po # None
  BY LinkedOrder DEF PayInvoice
<1>2. po.status = "RECEIVED"
  BY DEF PayInvoice, PaymentRefusal
<1>3. purchase_orders'[p] = new
  BY <1>1 DEF PayInvoice, TypeOK
<1>4. new \in PurchaseOrder /\ new # None
  BY <1>1, OrderRulesReturnRows, NoneAssumption
<1>5. /\ new.vendor_id = po.vendor_id /\ new.qty_ordered = po.qty_ordered
      /\ new.unit_cost = po.unit_cost /\ new.qty_received = po.qty_received
      /\ new.submit_idempotency_key = po.submit_idempotency_key
      /\ new.invoice_id = po.invoice_id /\ new.status = "CLOSED"
  BY <1>1 DEF Closed, PurchaseOrder
<1> HIDE DEF new
<1>6. IsClosed(po, new)
  BY <1>1, <1>2, <1>4, <1>5 DEF IsClosed, SameTerms
<1> QED
  BY <1>1, <1>3, <1>6

(* There is no sixth.                                                      *)
LEMMA OrderMoves ==
    ASSUME TypeOK, InvoiceLinks, [Next]_vars, NEW q \in PurchaseOrders
    PROVE  LET old == purchase_orders[q]
               new == purchase_orders'[q]
           IN  \/ new = old
               \/ IsDrafted(old, new)
               \/ IsSubmitted(old, new) /\ \E k \in Keys : SubmitPurchaseOrder(k, q)
               \/ IsReceived(old, new)
               \/ IsInvoiced(old, new)
               \/ IsClosed(old, new)
<1>1. ASSUME NEW k \in Keys, NEW p \in PurchaseOrders, p # q,
             \/ \E v \in VendorIds, order \in Orders : CreatePurchaseOrder(k, v, order, p)
             \/ SubmitPurchaseOrder(k, p)
             \/ \E delivery \in Deliveries : ReceiveGoods(k, p, delivery)
             \/ \E i \in Invoices, v \in VendorIds, number \in InvoiceNumbers,
                   amount \in Amounts, channel \in Channels :
                   CreateInvoice(k, v, p, number, amount, i, channel)
      PROVE  purchase_orders'[q] = purchase_orders[q]
  BY <1>1 DEF CreatePurchaseOrder, SubmitPurchaseOrder, ReceiveGoods, CreateInvoice, TypeOK
<1>2. ASSUME NEW k \in Keys, NEW i \in Invoices,
             MatchInvoice(k, i) \/ \E channel \in Channels : ApproveInvoice(k, i, channel)
      PROVE  purchase_orders'[q] = purchase_orders[q]
  BY <1>2 DEF MatchInvoice, ApproveInvoice
<1>3. ASSUME NEW k \in Keys, NEW i \in Invoices, PayInvoice(k, i),
             invoices[i].purchase_order_id # q
      PROVE  purchase_orders'[q] = purchase_orders[q]
  BY <1>3 DEF PayInvoice, TypeOK
<1> QED
  BY <1>1, <1>2, <1>3, DraftMove, SubmitMove, ReceiveMove, LinkMove, CloseMove, StepCases

(* Once it is submitted an order has its key, it has no invoice before,    *)
(* and it is not complete as long as it is open.                           *)
OrdersAreOpen ==
    \A p \in PurchaseOrders : purchase_orders[p] # None =>
        LET po == purchase_orders[p]
        IN  /\ po.status = "DRAFT" => po.invoice_id = None /\ po.submit_idempotency_key = None
            /\ po.status \in {"DRAFT", "SUBMITTED"} => ~FullyReceived(po)

(* Every step leaves open orders open.                                     *)
LEMMA OrdersAreOpenStep ==
    ASSUME TypeOK, InvoiceLinks, OrdersAreOpen, [Next]_vars
    PROVE  OrdersAreOpen'
<1> SUFFICES ASSUME NEW p \in PurchaseOrders, purchase_orders'[p] # None
             PROVE  LET new == purchase_orders'[p]
                    IN  /\ new.status = "DRAFT" =>
                              new.invoice_id = None /\ new.submit_idempotency_key = None
                        /\ new.status \in {"DRAFT", "SUBMITTED"} => ~FullyReceived(new)
  BY DEF OrdersAreOpen, FullyReceived
<1> DEFINE old == purchase_orders[p]
           new == purchase_orders'[p]
<1>1. old # None =>
         /\ old.status = "DRAFT" => old.invoice_id = None /\ old.submit_idempotency_key = None
         /\ old.status \in {"DRAFT", "SUBMITTED"} => ~FullyReceived(old)
  BY DEF OrdersAreOpen
<1>2. old # None /\ new.qty_ordered = old.qty_ordered /\ new.qty_received = old.qty_received
        => (FullyReceived(new) <=> FullyReceived(old))
  BY DEF FullyReceived
<1> HIDE DEF old, new
<1>3. \/ new = old
      \/ IsDrafted(old, new)
      \/ IsSubmitted(old, new)
      \/ IsReceived(old, new)
      \/ IsInvoiced(old, new)
      \/ IsClosed(old, new)
  BY OrderMoves DEF old, new
<1>4. /\ new.status = "DRAFT" => new.invoice_id = None /\ new.submit_idempotency_key = None
      /\ new.status \in {"DRAFT", "SUBMITTED"} => ~FullyReceived(new)
  <2>1. new # None
    BY DEF new
  <2>2. CASE new = old
    BY <1>1, <2>1, <2>2
  <2>3. CASE IsDrafted(old, new)
    BY <2>3 DEF IsDrafted
  <2>4. CASE IsSubmitted(old, new)
    BY <1>1, <1>2, <2>4 DEF IsSubmitted, SameTerms
  <2>5. CASE IsReceived(old, new)
    BY <2>5 DEF IsReceived
  <2>6. CASE IsInvoiced(old, new)
    BY <1>1, <1>2, <2>6 DEF IsInvoiced, SameTerms
  <2>7. CASE IsClosed(old, new)
    BY <2>7 DEF IsClosed
  <2> QED
    BY <1>3, <2>2, <2>3, <2>4, <2>5, <2>6, <2>7
<1> QED
  BY <1>4 DEF new

(* What a step does to one invoice.                                        *)
LEMMA InvoiceChanges ==
    ASSUME TypeOK, [Next]_vars, NEW j \in Invoices
    PROVE  \/ invoices'[j] = invoices[j]
           \/ /\ invoices'[j] # None
              /\ \E k \in Keys : \/ IsCreated(invoices[j], invoices'[j])
                                 \/ IsMatched(invoices[j], invoices'[j])
                                 \/ IsApproved(k, j, invoices[j], invoices'[j])
                                 \/ IsPaid(k, invoices[j], invoices'[j])
<1>1. ASSUME NEW k \in Keys, NEW i \in Invoices, NEW new \in Invoice,
             invoices' = [invoices EXCEPT ![i] = new],
             \/ IsCreated(invoices[i], new)
             \/ IsMatched(invoices[i], new)
             \/ IsApproved(k, i, invoices[i], new)
             \/ IsPaid(k, invoices[i], new), i = j
      PROVE  /\ invoices'[j] # None
             /\ \/ IsCreated(invoices[j], invoices'[j])
                \/ IsMatched(invoices[j], invoices'[j])
                \/ IsApproved(k, j, invoices[j], invoices'[j])
                \/ IsPaid(k, invoices[j], invoices'[j])
  BY <1>1, NoneAssumption DEF TypeOK
<1>2. ASSUME NEW i \in Invoices, NEW new \in Invoice,
             invoices' = [invoices EXCEPT ![i] = new], i # j
      PROVE  invoices'[j] = invoices[j]
  BY <1>2 DEF TypeOK
<1> QED
  BY <1>1, <1>2, InvoiceMoves

(* Every step stamps an invoice with the stage it takes it to.             *)
LEMMA StampsFollowStep ==
    ASSUME TypeOK, StampsFollow, [Next]_vars
    PROVE  StampsFollow'
<1> SUFFICES ASSUME NEW i \in Invoices, invoices'[i] # None
             PROVE  LET new == invoices'[i]
                    IN  /\ new.approved_at # None => new.status \in {"APPROVED", "PAID"}
                        /\ new.paid_at # None => new.status = "PAID"
  BY DEF StampsFollow
<1> QED
  BY InvoiceChanges DEF StampsFollow, IsCreated, IsMatched, IsApproved, IsPaid, SameInvoice

(* Only a match writes a snapshot, ...                                     *)
LEMMA SnapshotMoves ==
    ASSUME [Next]_vars
    PROVE  \/ UNCHANGED invoice_match_snapshots
           \/ \E k \in Keys, i \in Invoices : MatchInvoice(k, i)
<1> USE DEF history
<1>1. ASSUME NEW k \in Keys, OrderStep(k)
      PROVE  UNCHANGED invoice_match_snapshots
  BY <1>1 DEF OrderStep, CreatePurchaseOrder, SubmitPurchaseOrder, ReceiveGoods
<1>2. ASSUME NEW k \in Keys, InvoiceStep(k)
      PROVE  UNCHANGED invoice_match_snapshots \/ \E i \in Invoices : MatchInvoice(k, i)
  BY <1>2 DEF InvoiceStep, CreateInvoice, ApproveInvoice, PayInvoice
<1>3. ASSUME NEW k \in Keys, DispatchCreditCheck(k) \/ CreditCheckFails(k)
      PROVE  UNCHANGED invoice_match_snapshots
  BY <1>3 DEF DispatchCreditCheck, CreditCheckFails
<1>4. Restart \/ UNCHANGED vars => UNCHANGED invoice_match_snapshots
  BY DEF Restart, vars
<1> QED
  BY <1>1, <1>2, <1>3, <1>4 DEF Next

(* ... and only a request is recorded.                                     *)
LEMMA RecordMoves ==
    ASSUME [Next]_vars
    PROVE  \/ UNCHANGED idempotency_keys
           \/ \E k \in Keys : OrderStep(k) \/ InvoiceStep(k)
<1>1. ASSUME NEW k \in Keys, DispatchCreditCheck(k) \/ CreditCheckFails(k)
      PROVE  UNCHANGED idempotency_keys
  BY <1>1 DEF DispatchCreditCheck, CreditCheckFails
<1>2. Restart \/ UNCHANGED vars => UNCHANGED idempotency_keys
  BY DEF Restart, vars
<1> QED
  BY <1>1, <1>2 DEF Next

(* A record is kept for good.                                              *)
LEMMA RecordsStay ==
    ASSUME TypeOK, [Next]_vars, NEW k \in Keys, Recorded(k)
    PROVE  /\ idempotency_keys'[k] = idempotency_keys[k]
           /\ ~OrderStep(k) /\ ~InvoiceStep(k)
<1>1. ~OrderStep(k) /\ ~InvoiceStep(k)
  BY RequestStartsOwnCheck
<1>2. ASSUME NEW j \in Keys, OrderStep(j) \/ InvoiceStep(j), j # k
      PROVE  idempotency_keys'[k] = idempotency_keys[k]
  <2>1. ASSUME NEW request, NEW id, Record(j, request, id)
        PROVE  idempotency_keys'[k] = idempotency_keys[k]
    BY <1>2, <2>1 DEF Record, TypeOK
  <2>2. ASSUME NEW p \in PurchaseOrders,
               \/ \E v \in VendorIds, order \in Orders : CreatePurchaseOrder(j, v, order, p)
               \/ SubmitPurchaseOrder(j, p)
               \/ \E delivery \in Deliveries : ReceiveGoods(j, p, delivery)
        PROVE  \E request, id : Record(j, request, id)
    BY <2>2 DEF CreatePurchaseOrder, SubmitPurchaseOrder, ReceiveGoods
  <2>3. ASSUME NEW i \in Invoices,
               \/ \E v \in VendorIds, p \in PurchaseOrders, number \in InvoiceNumbers,
                     amount \in Amounts, channel \in Channels :
                     CreateInvoice(j, v, p, number, amount, i, channel)
               \/ MatchInvoice(j, i)
               \/ \E channel \in Channels : ApproveInvoice(j, i, channel)
               \/ PayInvoice(j, i)
        PROVE  \E request, id : Record(j, request, id)
    BY <2>3 DEF CreateInvoice, MatchInvoice, ApproveInvoice, PayInvoice
  <2> QED
    BY <1>2, <2>1, <2>2, <2>3 DEF OrderStep, InvoiceStep
<1> QED
  BY <1>1, <1>2, RecordMoves

(* What no step changes of an order ...                                    *)
LEMMA OrdersKeep ==
    ASSUME TypeOK, InvoiceLinks, OrdersAreOpen, [Next]_vars, NEW p \in PurchaseOrders,
           purchase_orders[p] # None
    PROVE  LET old == purchase_orders[p]
               new == purchase_orders'[p]
           IN  /\ SameTerms(old, new)
               /\ old.submit_idempotency_key # None =>
                     new.submit_idempotency_key = old.submit_idempotency_key
<1> DEFINE old == purchase_orders[p]
           new == purchase_orders'[p]
<1>1. old.status = "DRAFT" => old.submit_idempotency_key = None
  BY DEF OrdersAreOpen
<1> QED
  BY <1>1, OrderMoves
  DEF SameTerms, IsDrafted, IsSubmitted, IsReceived, IsInvoiced, IsClosed

(* ... and of an invoice.                                                  *)
LEMMA InvoicesKeep ==
    ASSUME TypeOK, StampsFollow, [Next]_vars, NEW i \in Invoices, invoices[i] # None
    PROVE  LET old == invoices[i]
               new == invoices'[i]
           IN  /\ SameInvoice(old, new)
               /\ old.approved_at # None => new.approved_at = old.approved_at
               /\ old.paid_at # None => new.paid_at = old.paid_at
BY InvoiceChanges
DEF StampsFollow, SameInvoice, IsCreated, IsMatched, IsApproved, IsPaid

(* What was asked under k has its effect in the tables. *)
RecordDone(k, request, id) ==
    /\ request.operation = "purchase_order.create" =>
          /\ id \in PurchaseOrders /\ purchase_orders[id] # None
          /\ purchase_orders[id].vendor_id = request.vendor_id
          /\ purchase_orders[id].qty_ordered = request.line_items.qty_ordered
          /\ purchase_orders[id].unit_cost = request.line_items.unit_cost
    /\ request.operation = "purchase_order.submit" =>
          LET p == request.purchase_order_id
          IN  /\ p \in PurchaseOrders /\ purchase_orders[p] # None
              /\ purchase_orders[p].submit_idempotency_key = k
    /\ request.operation = "purchase_order.receive" =>
          /\ goods_receipts[k] # None
          /\ goods_receipts[k].po_id = request.purchase_order_id
          /\ goods_receipts[k].line_items = request.line_items
    /\ request.operation = "invoice.create" =>
          /\ id \in Invoices /\ invoices[id] # None
          /\ invoices[id].purchase_order_id = request.purchase_order_id
          /\ invoices[id].invoice_number = request.invoice_number
          /\ invoices[id].invoice_amount = request.invoice_amount
    /\ request.operation = "invoice.match" =>
          /\ invoice_match_snapshots[k] # None
          /\ invoice_match_snapshots[k].invoice_id = request.invoice_id
    /\ request.operation = "invoice.approve" =>
          LET i == request.invoice_id
          IN  i \in Invoices /\ invoices[i] # None /\ invoices[i].approved_at = k
    /\ request.operation = "invoice.pay" =>
          LET i == request.invoice_id
          IN  i \in Invoices /\ invoices[i] # None /\ invoices[i].paid_at = k

RecordsAreDone ==
    \A k \in Keys : Recorded(k) =>
        RecordDone(k, idempotency_keys[k].request, idempotency_keys[k].resource_id)

(* The receipt and the snapshot of a recorded request stay as they are.    *)
LEMMA HistoryKept ==
    ASSUME TypeOK, [Next]_vars, NEW k \in Keys
    PROVE  /\ goods_receipts[k] # None => goods_receipts'[k] = goods_receipts[k]
           /\ Recorded(k) => invoice_match_snapshots'[k] = invoice_match_snapshots[k]
<1>1. ASSUME NEW j \in Keys, NEW p \in PurchaseOrders, NEW delivery \in Deliveries,
             ReceiveGoods(j, p, delivery), goods_receipts[k] # None
      PROVE  goods_receipts'[k] = goods_receipts[k]
  BY <1>1 DEF ReceiveGoods, TypeOK
<1>2. ASSUME NEW j \in Keys, NEW i \in Invoices, MatchInvoice(j, i), Recorded(k)
      PROVE  invoice_match_snapshots'[k] = invoice_match_snapshots[k]
  <2>1. j # k
    BY <1>2 DEF MatchInvoice
  <2> QED
    BY <1>2, <2>1 DEF MatchInvoice, TypeOK
<1> QED
  BY <1>1, <1>2, ReceiptMoves, SnapshotMoves

(* What is done is not undone.                                             *)
LEMMA DoneStays ==
    ASSUME TypeOK, InvoiceLinks, OrdersAreOpen, StampsFollow, [Next]_vars,
           NEW k \in Keys, Recorded(k), NEW request, NEW id, RecordDone(k, request, id)
    PROVE  RecordDone(k, request, id)'
<1>1. k # None
  BY NoneAssumption
<1>2. CASE request.operation = "purchase_order.create"
  BY <1>2, OrdersKeep DEF RecordDone, SameTerms
<1>3. CASE request.operation = "purchase_order.submit"
  BY <1>1, <1>3, OrdersKeep DEF RecordDone, SameTerms
<1>4. CASE request.operation = "purchase_order.receive"
  BY <1>4, HistoryKept DEF RecordDone
<1>5. CASE request.operation = "invoice.create"
  BY <1>5, InvoicesKeep DEF RecordDone, SameInvoice
<1>6. CASE request.operation = "invoice.match"
  BY <1>6, HistoryKept DEF RecordDone
<1>7. CASE request.operation = "invoice.approve"
  BY <1>1, <1>7, InvoicesKeep DEF RecordDone, SameInvoice
<1>8. CASE request.operation = "invoice.pay"
  BY <1>1, <1>8, InvoicesKeep DEF RecordDone, SameInvoice
<1>9. CASE request.operation \notin
             {"purchase_order.create", "purchase_order.submit", "purchase_order.receive",
              "invoice.create", "invoice.match", "invoice.approve", "invoice.pay"}
  BY <1>9 DEF RecordDone
<1> QED
  BY <1>2, <1>3, <1>4, <1>5, <1>6, <1>7, <1>8, <1>9

(* A request of an order does what it records, ...                         *)
LEMMA OrderRequestIsDone ==
    ASSUME TypeOK, TypeOK', NEW k \in Keys, OrderStep(k)
    PROVE  \E request, id : Record(k, request, id) /\ RecordDone(k, request, id)'
<1>1. PICK p \in PurchaseOrders :
        \/ \E v \in VendorIds, order \in Orders : CreatePurchaseOrder(k, v, order, p)
        \/ SubmitPurchaseOrder(k, p)
        \/ \E delivery \in Deliveries : ReceiveGoods(k, p, delivery)
  BY DEF OrderStep
<1>2. ASSUME NEW v \in VendorIds, NEW order \in Orders, CreatePurchaseOrder(k, v, order, p)
      PROVE  \E request, id : Record(k, request, id) /\ RecordDone(k, request, id)'
  <2> DEFINE request == CreateOrderRequest(v, order)
             new == DraftPurchaseOrder(v, order, k)
  <2>1. purchase_orders'[p] = new /\ Record(k, request, p)
    BY <1>2 DEF CreatePurchaseOrder, TypeOK
  <2>2. new # None
    BY <1>2, OrderRulesReturnRows, NoneAssumption DEF CreatePurchaseOrder
  <2>3. /\ new.vendor_id = request.vendor_id
        /\ new.qty_ordered = request.line_items.qty_ordered
        /\ new.unit_cost = request.line_items.unit_cost
        /\ request.operation = "purchase_order.create"
    BY DEF DraftPurchaseOrder, CreateOrderRequest
  <2> HIDE DEF request, new
  <2>4. RecordDone(k, request, p)'
    BY <2>1, <2>2, <2>3 DEF RecordDone
  <2> QED
    BY <2>1, <2>4
<1>3. CASE SubmitPurchaseOrder(k, p)
  <2> DEFINE request == [operation |-> "purchase_order.submit", purchase_order_id |-> p]
  <2>1. Record(k, request, p)
    BY <1>3 DEF SubmitPurchaseOrder
  <2>2. purchase_orders'[p] # None /\ purchase_orders'[p].submit_idempotency_key = k
    BY <1>3, SubmitMove DEF IsSubmitted, SameTerms
  <2>3. request.operation = "purchase_order.submit" /\ request.purchase_order_id = p
    OBVIOUS
  <2> HIDE DEF request
  <2>4. RecordDone(k, request, p)'
    BY <2>2, <2>3 DEF RecordDone
  <2> QED
    BY <2>1, <2>4
<1>4. ASSUME NEW delivery \in Deliveries, ReceiveGoods(k, p, delivery)
      PROVE  \E request, id : Record(k, request, id) /\ RecordDone(k, request, id)'
  <2> DEFINE request == ReceiveRequest(p, delivery)
             receipt == [po_id |-> p, line_items |-> delivery]
  <2>1. goods_receipts'[k] = receipt /\ Record(k, request, p)
    BY <1>4 DEF ReceiveGoods, TypeOK
  <2>2. receipt # None
    BY DeliveriesAssumption, NoneIsNoRow DEF GoodsReceipt
  <2>3. /\ receipt.po_id = request.purchase_order_id
        /\ receipt.line_items = request.line_items
        /\ request.operation = "purchase_order.receive"
    BY DEF ReceiveRequest
  <2> HIDE DEF request, receipt
  <2>4. RecordDone(k, request, p)'
    BY <2>1, <2>2, <2>3 DEF RecordDone
  <2> QED
    BY <2>1, <2>4
<1> QED
  BY <1>1, <1>2, <1>3, <1>4

(* ... and so does a request of an invoice.                                *)
LEMMA InvoiceRequestIsDone ==
    ASSUME TypeOK, TypeOK', NEW k \in Keys, InvoiceStep(k)
    PROVE  \E request, id : Record(k, request, id) /\ RecordDone(k, request, id)'
<1>1. PICK i \in Invoices :
        \/ \E v \in VendorIds, p \in PurchaseOrders, number \in InvoiceNumbers,
              amount \in Amounts, channel \in Channels :
              CreateInvoice(k, v, p, number, amount, i, channel)
        \/ MatchInvoice(k, i)
        \/ \E channel \in Channels : ApproveInvoice(k, i, channel)
        \/ PayInvoice(k, i)
  BY DEF InvoiceStep
<1>2. ASSUME NEW v \in VendorIds, NEW p \in PurchaseOrders, NEW number \in InvoiceNumbers,
             NEW amount \in Amounts, NEW channel \in Channels,
             CreateInvoice(k, v, p, number, amount, i, channel)
      PROVE  \E request, id : Record(k, request, id) /\ RecordDone(k, request, id)'
  <2> DEFINE request == CreateInvoiceRequest(v, p, number, amount)
             new == PendingInvoice(v, p, number, amount)
  <2>1. invoices'[i] = new /\ Record(k, request, i)
    BY <1>2 DEF CreateInvoice, TypeOK
  <2>2. new # None
    BY <1>2, InvoiceRulesReturnRows, NoneAssumption DEF CreateInvoice, InvoiceRefusal
  <2>3. /\ new.purchase_order_id = request.purchase_order_id
        /\ new.invoice_number = request.invoice_number
        /\ new.invoice_amount = request.invoice_amount
        /\ request.operation = "invoice.create"
    BY DEF PendingInvoice, CreateInvoiceRequest
  <2> HIDE DEF request, new
  <2>4. RecordDone(k, request, i)'
    BY <2>1, <2>2, <2>3 DEF RecordDone
  <2> QED
    BY <2>1, <2>4
<1>3. CASE MatchInvoice(k, i)
  <2> DEFINE request == [operation |-> "invoice.match", invoice_id |-> i]
             outcome == MatchOutcome(invoices[i].invoice_amount,
                                     purchase_orders[invoices[i].purchase_order_id])
             next == NextAction(invoices[i].invoice_amount,
                                purchase_orders[invoices[i].purchase_order_id])
             snapshot == [invoice_id |-> i, outcome |-> outcome, next_action |-> next]
  <2>1. invoice_match_snapshots'[k] = snapshot /\ Record(k, request, k)
    BY <1>3 DEF MatchInvoice, TypeOK
  <2>2. snapshot # None
    <3>1. outcome \in MatchOutcomes
      BY MatchOutcomeType DEF MatchOutcomes
    <3>2. next \in {"PROCEED_TO_APPROVAL", "WAIT_FOR_RECEIPT", "CORRECT_INVOICE"}
      BY NextActionType
    <3> HIDE DEF outcome, next
    <3> QED
      BY <3>1, <3>2, NoneIsNoRow DEF MatchSnapshot
  <2>3. request.operation = "invoice.match" /\ snapshot.invoice_id = request.invoice_id
    OBVIOUS
  <2> HIDE DEF request, snapshot
  <2>4. RecordDone(k, request, k)'
    BY <2>1, <2>2, <2>3 DEF RecordDone
  <2> QED
    BY <2>1, <2>4
<1>4. ASSUME NEW channel \in Channels, ApproveInvoice(k, i, channel)
      PROVE  \E request, id : Record(k, request, id) /\ RecordDone(k, request, id)'
  <2> DEFINE request == [operation |-> "invoice.approve", invoice_id |-> i]
  <2>1. Record(k, request, i)
    BY <1>4 DEF ApproveInvoice
  <2>2. invoices'[i] # None /\ invoices'[i].approved_at = k
    BY <1>4, ApproveMove DEF TypeOK, IsApproved, SameInvoice
  <2>3. request.operation = "invoice.approve" /\ request.invoice_id = i
    OBVIOUS
  <2> HIDE DEF request
  <2>4. RecordDone(k, request, i)'
    BY <2>2, <2>3 DEF RecordDone
  <2> QED
    BY <2>1, <2>4
<1>5. CASE PayInvoice(k, i)
  <2> DEFINE request == [operation |-> "invoice.pay", invoice_id |-> i]
  <2>1. Record(k, request, i)
    BY <1>5 DEF PayInvoice
  <2>2. invoices'[i] # None /\ invoices'[i].paid_at = k
    BY <1>5, PayMove DEF TypeOK, IsPaid, SameInvoice
  <2>3. request.operation = "invoice.pay" /\ request.invoice_id = i
    OBVIOUS
  <2> HIDE DEF request
  <2>4. RecordDone(k, request, i)'
    BY <2>2, <2>3 DEF RecordDone
  <2> QED
    BY <2>1, <2>4
<1> QED
  BY <1>1, <1>2, <1>3, <1>4, <1>5

(* What is recorded is done, and stays done.                               *)
LEMMA RecordsAreDoneStep ==
    ASSUME TypeOK, TypeOK', InvoiceLinks, OrdersAreOpen, StampsFollow, RecordsAreDone, [Next]_vars
    PROVE  RecordsAreDone'
<1> SUFFICES ASSUME NEW j \in Keys, Recorded(j)'
             PROVE  RecordDone(j, idempotency_keys[j].request, idempotency_keys[j].resource_id)'
  BY DEF RecordsAreDone
<1> DEFINE record == idempotency_keys[j]
<1>1. CASE Recorded(j)
  <2>1. record' = record
    BY <1>1, RecordsStay
  <2>2. PICK request, id : /\ request = record.request /\ id = record.resource_id
                           /\ RecordDone(j, request, id)
    BY <1>1 DEF RecordsAreDone
  <2>3. RecordDone(j, request, id)'
    BY <1>1, <2>2, DoneStays
  <2> QED
    BY <2>1, <2>2, <2>3 DEF RecordDone
<1>2. CASE ~Recorded(j)
  <2>1. OrderStep(j) \/ InvoiceStep(j)
    <3>1. ASSUME NEW k \in Keys, OrderStep(k) \/ InvoiceStep(k)
          PROVE  k = j
      BY <1>2, <3>1, RequestStartsOwnCheck
    <3>2. ~UNCHANGED idempotency_keys
      BY <1>2 DEF Recorded
    <3> QED
      BY <3>1, <3>2, RecordMoves
  <2>2. PICK request, id : Record(j, request, id) /\ RecordDone(j, request, id)'
    BY <2>1, OrderRequestIsDone, InvoiceRequestIsDone
  <2>3. record'.request = request /\ record'.resource_id = id
    BY <2>2 DEF Record, TypeOK
  <2> QED
    BY <2>2, <2>3 DEF RecordDone
<1> QED
  BY <1>1, <1>2

(* A receipt was brought by a request, the demo's own excepted.            *)
ReceiptsAreKnown ==
    \A k \in Keys : goods_receipts[k] # None => Recorded(k) \/ k \in DOMAIN DemoReceipts

(* A new receipt is recorded with its request.                             *)
LEMMA ReceiptsAreKnownStep ==
    ASSUME TypeOK, ReceiptsAreKnown, [Next]_vars
    PROVE  ReceiptsAreKnown'
<1> SUFFICES ASSUME NEW j \in Keys, goods_receipts'[j] # None
             PROVE  Recorded(j)' \/ j \in DOMAIN DemoReceipts
  BY DEF ReceiptsAreKnown, Recorded
<1>1. Recorded(j) => Recorded(j)'
  BY RecordsStay DEF Recorded
<1>2. ASSUME NEW p \in PurchaseOrders, NEW delivery \in Deliveries, ReceiveGoods(j, p, delivery)
      PROVE  Recorded(j)'
  <2>1. OrderStep(j)
    BY <1>2 DEF OrderStep
  <2> QED
    BY <2>1, RequestStartsOwnCheck
<1>3. ASSUME NEW k \in Keys, NEW p \in PurchaseOrders, NEW delivery \in Deliveries,
             ReceiveGoods(k, p, delivery), k # j
      PROVE  goods_receipts'[j] = goods_receipts[j]
  BY <1>3 DEF ReceiveGoods, TypeOK
<1> QED
  BY <1>1, <1>2, <1>3, ReceiptMoves DEF ReceiptsAreKnown

(* So was the submission of an order: its key was recorded with it.        *)
SubmissionsAreKnown ==
    \A p \in PurchaseOrders, k \in Keys : SubmittedUnder(purchase_orders[p], k) => Recorded(k)

(* An order that is submitted is recorded with the request.                *)
LEMMA SubmissionsAreKnownStep ==
    ASSUME TypeOK, InvoiceLinks, SubmissionsAreKnown, [Next]_vars
    PROVE  SubmissionsAreKnown'
<1> SUFFICES ASSUME NEW p \in PurchaseOrders, NEW k \in Keys,
                    purchase_orders'[p] # None,
                    purchase_orders'[p].submit_idempotency_key = k
             PROVE  Recorded(k)'
  BY DEF SubmissionsAreKnown, SubmittedUnder, Recorded
<1> DEFINE old == purchase_orders[p]
           new == purchase_orders'[p]
<1>1. ASSUME old # None, old.submit_idempotency_key = k
      PROVE  Recorded(k)'
  <2>1. Recorded(k)
    BY <1>1 DEF SubmissionsAreKnown, SubmittedUnder
  <2> QED
    BY <2>1, RecordsStay DEF Recorded
<1>2. ASSUME NEW j \in Keys, SubmitPurchaseOrder(j, p)
      PROVE  Recorded(k)'
  <2>1. OrderStep(j)
    BY <1>2 DEF OrderStep
  <2> QED
    BY <1>2, <2>1, SubmitMove, RequestStartsOwnCheck
<1>3. ~IsDrafted(old, new)
  BY NoneAssumption DEF IsDrafted
<1> QED
  BY <1>1, <1>2, <1>3, OrderMoves DEF IsReceived, IsInvoiced, IsClosed, SameTerms

(* What a snapshot advised is still true of its invoice: cleared for       *)
(* approval, it has left PENDING; to wait, it is within its order; to be   *)
(* corrected, it is above.                                                 *)
Advises(snapshot) ==
    LET i == snapshot.invoice_id
        po == purchase_orders[invoices[i].purchase_order_id]
    IN  /\ i \in Invoices /\ invoices[i] # None
        /\ snapshot.next_action = "PROCEED_TO_APPROVAL" => invoices[i].status # "PENDING"
        /\ snapshot.next_action = "WAIT_FOR_RECEIPT" =>
              invoices[i].invoice_amount <= OrderedValue(po)
        /\ snapshot.next_action = "CORRECT_INVOICE" =>
              OrderedValue(po) < invoices[i].invoice_amount

SnapshotsAdvise ==
    \A k \in Keys : invoice_match_snapshots[k] # None => Advises(invoice_match_snapshots[k])

(* An invoice that left PENDING does not return, and the terms of an order *)
(* and the amount of an invoice do not change.                             *)
LEMMA AdviceStays ==
    ASSUME TypeOK, InvoiceLinks, OrdersAreOpen, StampsFollow, [Next]_vars,
           NEW snapshot, Advises(snapshot)
    PROVE  Advises(snapshot)'
<1> DEFINE i == snapshot.invoice_id
           p == invoices[i].purchase_order_id
<1>1. i \in Invoices /\ invoices[i] # None
  BY DEF Advises
<1>2. p \in PurchaseOrders /\ purchase_orders[p] # None
  BY <1>1, LinkedOrder
<1>3. /\ invoices'[i] # None /\ invoices'[i].purchase_order_id = p
      /\ invoices'[i].invoice_amount = invoices[i].invoice_amount
  BY <1>1, InvoicesKeep DEF SameInvoice
<1>4. invoices[i].status # "PENDING" => invoices'[i].status # "PENDING"
  BY <1>1, InvoiceChanges DEF IsCreated, IsMatched, IsApproved, IsPaid
<1>5. OrderedValue(purchase_orders'[p]) = OrderedValue(purchase_orders[p])
  BY <1>2, OrdersKeep DEF SameTerms, OrderedValue
<1> QED
  BY <1>1, <1>3, <1>4, <1>5 DEF Advises, OrderedValue

(* The advice of a new match is true when it is given.                     *)
LEMMA MatchAdvises ==
    ASSUME TypeOK, InvoiceLinks, NEW k \in Keys, NEW i \in Invoices, MatchInvoice(k, i)
    PROVE  Advises(invoice_match_snapshots[k])'
<1> DEFINE inv == invoices[i]
           po == purchase_orders[inv.purchase_order_id]
           outcome == MatchOutcome(inv.invoice_amount, po)
           next == NextAction(inv.invoice_amount, po)
<1>1. inv # None /\ inv \in Invoice /\ po \in PurchaseOrder /\ inv.invoice_amount \in Int
  BY LinkedOrder, AmountsAssumption DEF MatchInvoice, Invoice
<1>2. OrderedValue(po) \in Int
  BY <1>1, LineValueType DEF OrderedValue, PurchaseOrder
<1>3. /\ invoice_match_snapshots'[k].invoice_id = i
      /\ invoice_match_snapshots'[k].next_action = next
      /\ UNCHANGED purchase_orders
  BY DEF MatchInvoice, TypeOK
<1>4. invoices'[i] = Matched(inv, outcome, k)
  BY DEF MatchInvoice, TypeOK
<1>5. /\ next = "PROCEED_TO_APPROVAL" => outcome # "BLOCKED"
      /\ next = "WAIT_FOR_RECEIPT" => inv.invoice_amount <= OrderedValue(po)
      /\ next = "CORRECT_INVOICE" => OrderedValue(po) < inv.invoice_amount
  BY <1>1, <1>2 DEF NextAction
<1>6. outcome \in MatchOutcomes
  BY MatchOutcomeType DEF MatchOutcomes
<1> HIDE DEF outcome, next
<1>7. /\ invoices'[i] # None
      /\ invoices'[i].purchase_order_id = inv.purchase_order_id
      /\ invoices'[i].invoice_amount = inv.invoice_amount
  BY <1>1, <1>4, <1>6, InvoiceRulesKeepIdentity DEF SameInvoice
<1>8. outcome # "BLOCKED" => invoices'[i].status # "PENDING"
  BY <1>1, <1>4 DEF Matched, Invoice
<1> QED
  BY <1>3, <1>5, <1>7, <1>8 DEF Advises, OrderedValue

(* Old advice and new is sound after every step.                           *)
LEMMA SnapshotsAdviseStep ==
    ASSUME TypeOK, InvoiceLinks, OrdersAreOpen, StampsFollow, SnapshotsAdvise, [Next]_vars
    PROVE  SnapshotsAdvise'
<1> SUFFICES ASSUME NEW j \in Keys, invoice_match_snapshots'[j] # None
             PROVE  Advises(invoice_match_snapshots[j])'
  BY DEF SnapshotsAdvise
<1>1. CASE invoice_match_snapshots'[j] = invoice_match_snapshots[j]
  <2>1. PICK snapshot : snapshot = invoice_match_snapshots[j] /\ Advises(snapshot)
    BY <1>1 DEF SnapshotsAdvise
  <2>2. Advises(snapshot)'
    BY <2>1, AdviceStays
  <2> QED
    BY <1>1, <2>1, <2>2 DEF Advises
<1>2. ASSUME NEW i \in Invoices, MatchInvoice(j, i)
      PROVE  Advises(invoice_match_snapshots[j])'
  BY <1>2, MatchAdvises
<1>3. ASSUME NEW k \in Keys, NEW i \in Invoices, MatchInvoice(k, i), k # j
      PROVE  invoice_match_snapshots'[j] = invoice_match_snapshots[j]
  BY <1>3 DEF MatchInvoice, TypeOK
<1> QED
  BY <1>1, <1>2, <1>3, SnapshotMoves

(* An entry of the ledger is for the amount of its invoice.                *)
EntriesAreInvoices ==
    \A e \in gl_entries : /\ invoices[e.invoice_id] # None
                          /\ e.debit + e.credit = invoices[e.invoice_id].invoice_amount

(* An approval posts the amount of its invoice, which does not change.     *)
LEMMA EntriesAreInvoicesStep ==
    ASSUME TypeOK, StampsFollow, EntriesAreInvoices, [Next]_vars
    PROVE  EntriesAreInvoices'
<1> SUFFICES ASSUME NEW e \in gl_entries'
             PROVE  /\ invoices'[e.invoice_id] # None
                    /\ e.debit + e.credit = invoices'[e.invoice_id].invoice_amount
  BY DEF EntriesAreInvoices
<1>1. CASE e \in gl_entries
  <2>1. e.invoice_id \in Invoices
    BY <1>1 DEF TypeOK, GLEntry
  <2>2. invoices[e.invoice_id] # None
    BY <1>1 DEF EntriesAreInvoices
  <2> QED
    BY <1>1, <2>1, <2>2, InvoicesKeep DEF EntriesAreInvoices, SameInvoice
<1>2. ASSUME NEW k \in Keys, NEW i \in Invoices, NEW new \in Invoice,
             invoices' = [invoices EXCEPT ![i] = new], IsApproved(k, i, invoices[i], new),
             e \in BalancedGLEntries(k, i, invoices[i].invoice_amount)
      PROVE  /\ invoices'[e.invoice_id] # None
             /\ e.debit + e.credit = invoices'[e.invoice_id].invoice_amount
  <2>1. /\ invoices'[i] = new /\ new # None
        /\ new.invoice_amount = invoices[i].invoice_amount
        /\ new.invoice_amount \in Int
    BY <1>2, AmountsAssumption DEF TypeOK, IsApproved, SameInvoice, Invoice
  <2>2. e.invoice_id = i
    BY <1>2 DEF BalancedGLEntries
  <2>3. e.debit + e.credit = invoices[i].invoice_amount
    BY <1>2, <2>1 DEF BalancedGLEntries
  <2> QED
    BY <2>1, <2>2, <2>3
<1> QED
  BY <1>1, <1>2, InvoiceMoves DEF IsCreated, IsMatched, IsApproved, IsPaid

-----------------------------------------------------------------------------
(* The books of the service                                                *)

(* What holds of a database that started with the demo rows. *)
Books ==
    /\ TypeOK /\ TasksHaveChecks
    /\ InvoiceLinks /\ NeverOverReceived /\ PaidMeansClosed /\ Covered
    /\ OrdersAreOpen /\ StampsFollow
    /\ RecordsAreDone /\ ReceiptsAreKnown /\ SubmissionsAreKnown
    /\ SnapshotsAdvise /\ EntriesAreInvoices

(* The demo rows satisfy it, ...                                           *)
LEMMA DemoBooks == DemoInit => Books
<1> SUFFICES ASSUME DemoInit PROVE Books
  OBVIOUS
<1>1. OrdersAreOpen
  <2>1. ASSUME NEW p \in PurchaseOrders, purchase_orders[p] # None
        PROVE  /\ purchase_orders[p].status # "DRAFT"
               /\ purchase_orders[p].status = "SUBMITTED" => ~FullyReceived(purchase_orders[p])
    <3>1. p \in DOMAIN DemoPurchaseOrders /\ purchase_orders[p] = DemoPurchaseOrders[p]
      BY <2>1 DEF DemoInit, Rows
    <3> QED
      BY <3>1, DemoOrdersFit
  <2> QED
    BY <2>1 DEF OrdersAreOpen
<1>2. StampsFollow
  <2>1. ASSUME NEW i \in Invoices, invoices[i] # None
        PROVE  invoices[i].approved_at = None /\ invoices[i].paid_at = None
    <3>1. i \in DOMAIN DemoInvoices /\ invoices[i] = DemoInvoices[i]
      BY <2>1 DEF DemoInit, Rows
    <3> QED
      BY <3>1, DemoInvoicesFit
  <2> QED
    BY <2>1 DEF StampsFollow
<1>3. RecordsAreDone /\ SnapshotsAdvise /\ EntriesAreInvoices
  BY DEF DemoInit, RecordsAreDone, SnapshotsAdvise, EntriesAreInvoices, Recorded
<1>4. ReceiptsAreKnown
  BY DEF DemoInit, ReceiptsAreKnown, Rows
<1>5. SubmissionsAreKnown
  <2>1. ASSUME NEW p \in PurchaseOrders, NEW k \in Keys, SubmittedUnder(purchase_orders[p], k)
        PROVE  FALSE
    <3>1. p \in DOMAIN DemoPurchaseOrders /\ purchase_orders[p] = DemoPurchaseOrders[p]
      BY <2>1 DEF DemoInit, Rows, SubmittedUnder
    <3> QED
      BY <2>1, <3>1, DemoOrdersFit, NoneAssumption DEF SubmittedUnder
  <2> QED
    BY <2>1 DEF SubmissionsAreKnown
<1> QED
  BY <1>1, <1>2, <1>3, <1>4, <1>5, DemoStarts DEF Books

(* ... and every step of the service keeps it.                             *)
LEMMA BooksKept ==
    ASSUME Books, [Next]_vars
    PROVE  Books'
<1>1. TypeOK' /\ TasksHaveChecks'
  BY TypeStep, TasksHaveChecksStep DEF Books
<1>2. InvoiceLinks' /\ NeverOverReceived' /\ PaidMeansClosed' /\ Covered'
  BY <1>1, InvoiceLinksStep, NeverOverReceivedStep, PaidMeansClosedStep, CoveredStep DEF Books
<1>3. OrdersAreOpen' /\ StampsFollow'
  BY OrdersAreOpenStep, StampsFollowStep DEF Books
<1>4. RecordsAreDone' /\ ReceiptsAreKnown'
  BY <1>1, RecordsAreDoneStep, ReceiptsAreKnownStep DEF Books
<1>5. SubmissionsAreKnown'
  BY SubmissionsAreKnownStep DEF Books
<1>6. SnapshotsAdvise' /\ EntriesAreInvoices'
  BY SnapshotsAdviseStep, EntriesAreInvoicesStep DEF Books
<1> QED
  BY <1>1, <1>2, <1>3, <1>4, <1>5, <1>6 DEF Books

-----------------------------------------------------------------------------
(* Calls                                                                   *)

(* The call by a name, and what it can be.                                 *)
LEMMA CallShape ==
    ASSUME NEW c \in Names
    PROVE  LET m == Calls[c]
           IN  /\ LinesFit(m)
               /\ m.key \in Keys /\ m.channel \in Channels /\ m.resends \in BOOLEAN
               /\ m.operation \in OrderActions \cup InvoiceActions
                                    \cup {"purchase_order.create", "invoice.create"}
               /\ m.operation = "purchase_order.create" =>
                     m.key \in PurchaseOrders /\ m.vendor_id \in VendorIds
               /\ m.operation \in OrderActions => m.purchase_order_id \in PurchaseOrders
               /\ m.operation = "invoice.create" =>
                     /\ m.key \in Invoices /\ m.vendor_id \in VendorIds
                     /\ m.purchase_order_id \in PurchaseOrders
                     /\ m.invoice_number \in InvoiceNumbers
                     /\ m.invoice_amount \in Int /\ Cents(m.invoice_amount) \in Amounts
               /\ m.operation \in InvoiceActions => m.invoice_id \in Invoices
<1> DEFINE m == Calls[c]
<1>1. IsCall(m) /\ LinesFit(m)
  BY CallsAssumption
<1> HIDE DEF m
<1>2. /\ m.operation = "purchase_order.create" => m.operation \notin InvoiceActions
      /\ m.operation = "invoice.create" => m.operation \notin InvoiceActions
      /\ m.operation \in OrderActions => m.operation \notin InvoiceActions
      /\ m.operation \in OrderActions <=>
            m.operation \in {"purchase_order.submit", "purchase_order.receive"}
  BY DEF OrderActions, InvoiceActions
<1> QED
  BY <1>1, <1>2 DEF IsCall, m

(* The entries of an order or a receipt have numbers.                      *)
LEMMA EntryShape ==
    ASSUME NEW c \in Names
    PROVE  LET m == Calls[c]
           IN  /\ m.operation = "purchase_order.create" =>
                     /\ DOMAIN m.lines \subseteq Lines
                     /\ \A i \in DOMAIN m.lines :
                           m.lines[i].qty \in Int /\ m.lines[i].unit_cost \in Int
               /\ m.operation = "purchase_order.receive" =>
                     \A i \in DOMAIN m.lines : m.lines[i].line \in Lines /\ m.lines[i].qty \in Int
<1> PICK m : m = Calls[c]
  OBVIOUS
<1>1. IsCall(m)
  BY CallsAssumption
<1>2. ASSUME NEW S, NEW s \in Seq(S), NEW i \in DOMAIN s
      PROVE  s[i] \in S
  BY ElementOfSeq, LenProperties
<1>3. CASE m.operation = "purchase_order.create"
  <2>1. m.lines \in Seq(OrderItem) /\ DOMAIN m.lines \subseteq Lines
    BY <1>1, <1>3 DEF IsCall, InvoiceActions
  <2>2. \A i \in DOMAIN m.lines : m.lines[i] \in OrderItem
    BY <1>2, <2>1
  <2> QED
    BY <1>3, <2>1, <2>2 DEF OrderItem
<1>4. CASE m.operation = "purchase_order.receive"
  <2>1. m.lines \in Seq(ReceiptEntry)
    BY <1>1, <1>4 DEF IsCall, InvoiceActions
  <2>2. \A i \in DOMAIN m.lines : m.lines[i] \in ReceiptEntry
    BY <1>2, <2>1
  <2> QED
    BY <1>4, <2>2 DEF ReceiptEntry
<1> QED
  BY <1>3, <1>4

(* What the service makes of a call that is not refused is a request of    *)
(* P2P, recorded under its key; a document it creates takes that key.      *)
LEMMA EffectIsRequest ==
    ASSUME NEW c \in Names, Refusal(Calls[c]) = "OK", Effect(Calls[c])
    PROVE  LET m == Calls[c]
           IN  /\ OrderStep(m.key) \/ InvoiceStep(m.key)
               /\ \E id : /\ Record(m.key, Fingerprint(m), id)
                          /\ m.operation \in {"purchase_order.create", "invoice.create"}
                                => id = m.key
<1> PICK m : m = Calls[c]
  OBVIOUS
<1>1. /\ m.key \in Keys /\ m.channel \in Channels /\ LinesFit(m)
      /\ Refusal(m) = "OK" /\ Effect(m)
  BY CallShape
<1> SUFFICES /\ OrderStep(m.key) \/ InvoiceStep(m.key)
             /\ \E id : /\ Record(m.key, Fingerprint(m), id)
                        /\ m.operation \in {"purchase_order.create", "invoice.create"}
                              => id = m.key
  OBVIOUS
<1>2. CASE m.operation = "purchase_order.create"
  <2>1. AllPositive(m.lines)
    BY <1>1, <1>2, EntryShape DEF Refusal, NewOrderRefusal, AllPositive, InvoiceActions
  <2>2. Ordered(m) \in Orders /\ m.key \in PurchaseOrders /\ m.vendor_id \in VendorIds
    BY <1>1, <1>2, <2>1, CallShape DEF LinesFit
  <2>3. CreatePurchaseOrder(m.key, m.vendor_id, Ordered(m), m.key)
    BY <1>1, <1>2 DEF Effect
  <2>4. OrderStep(m.key)
    BY <2>2, <2>3 DEF OrderStep
  <2>5. Fingerprint(m) = CreateOrderRequest(m.vendor_id, Ordered(m))
    BY <1>2 DEF Fingerprint, InvoiceActions
  <2> QED
    BY <2>3, <2>4, <2>5 DEF CreatePurchaseOrder
<1>3. CASE m.operation = "purchase_order.submit"
  <2>1. m.purchase_order_id \in PurchaseOrders
    BY <1>3, CallShape DEF OrderActions
  <2>2. SubmitPurchaseOrder(m.key, m.purchase_order_id)
    BY <1>1, <1>3 DEF Effect
  <2>3. OrderStep(m.key)
    BY <2>1, <2>2 DEF OrderStep
  <2>4. Fingerprint(m) = [operation |-> "purchase_order.submit",
                          purchase_order_id |-> m.purchase_order_id]
    BY <1>3 DEF Fingerprint, InvoiceActions
  <2> QED
    BY <1>3, <2>2, <2>3, <2>4 DEF SubmitPurchaseOrder
<1>4. CASE m.operation = "purchase_order.receive"
  <2>1. AllPositive(m.lines)
    BY <1>1, <1>4, EntryShape DEF Refusal, DeliveryRefusal, AllPositive, InvoiceActions
  <2>2. Delivered(m) \in Deliveries /\ m.purchase_order_id \in PurchaseOrders
    BY <1>1, <1>4, <2>1, CallShape DEF LinesFit, OrderActions
  <2>3. ReceiveGoods(m.key, m.purchase_order_id, Delivered(m))
    BY <1>1, <1>4 DEF Effect
  <2>4. OrderStep(m.key)
    BY <2>2, <2>3 DEF OrderStep
  <2>5. Fingerprint(m) = ReceiveRequest(m.purchase_order_id, Delivered(m))
    BY <1>4 DEF Fingerprint, InvoiceActions
  <2> QED
    BY <1>4, <2>3, <2>4, <2>5 DEF ReceiveGoods
<1>5. CASE m.operation = "invoice.create"
  <2>1. /\ m.key \in Invoices /\ m.vendor_id \in VendorIds
        /\ m.purchase_order_id \in PurchaseOrders
        /\ m.invoice_number \in InvoiceNumbers
        /\ Cents(m.invoice_amount) \in Amounts
    BY <1>5, CallShape
  <2>2. CreateInvoice(m.key, m.vendor_id, m.purchase_order_id, m.invoice_number,
                      Cents(m.invoice_amount), m.key, m.channel)
    BY <1>1, <1>5 DEF Effect
  <2>3. InvoiceStep(m.key)
    BY <1>1, <2>1, <2>2 DEF InvoiceStep
  <2>4. Fingerprint(m) = CreateInvoiceRequest(m.vendor_id, m.purchase_order_id,
                            m.invoice_number, Cents(m.invoice_amount))
    BY <1>5 DEF Fingerprint, InvoiceActions
  <2> QED
    BY <2>2, <2>3, <2>4 DEF CreateInvoice
<1>6. CASE m.operation \in InvoiceActions
  <2>1. m.invoice_id \in Invoices
    BY <1>6, CallShape
  <2>2. \/ m.operation = "invoice.match" /\ MatchInvoice(m.key, m.invoice_id)
        \/ m.operation = "invoice.approve" /\ ApproveInvoice(m.key, m.invoice_id, m.channel)
        \/ m.operation = "invoice.pay" /\ PayInvoice(m.key, m.invoice_id)
    BY <1>1, <1>6 DEF Effect, InvoiceActions
  <2>3. InvoiceStep(m.key)
    BY <1>1, <2>1, <2>2 DEF InvoiceStep
  <2>4. Fingerprint(m) = [operation |-> m.operation, invoice_id |-> m.invoice_id]
    BY <1>6 DEF Fingerprint, InvoiceActions
  <2>5. \E id : Record(m.key, Fingerprint(m), id)
    BY <2>2, <2>4 DEF MatchInvoice, ApproveInvoice, PayInvoice
  <2> QED
    BY <1>6, <2>3, <2>5 DEF InvoiceActions
<1> QED
  BY <1>2, <1>3, <1>4, <1>5, <1>6, CallShape DEF OrderActions

(* A replay ends with one of the codes.                                    *)
LEMMA ReplayCode ==
    ASSUME TypeOK, NEW k \in Keys, Recorded(k)
    PROVE  Replay(k) \in {"OK", "DEPENDENCY_TEMPORARILY_UNAVAILABLE", "GL_ENTRIES_MISSING",
                          "GL_ENTRIES_UNBALANCED", "PURCHASE_ORDER_NOT_FOUND"}
<1>1. idempotency_keys[k].request.operation \in
        {"purchase_order.create", "purchase_order.submit", "purchase_order.receive",
         "invoice.create", "invoice.match", "invoice.approve", "invoice.pay"}
  <2>1. idempotency_keys[k] \in IdempotencyRecord
    BY DEF TypeOK, Recorded
  <2>2. \A r \in Request :
          r.operation \in {"purchase_order.create", "purchase_order.submit",
                           "purchase_order.receive", "invoice.create", "invoice.match",
                           "invoice.approve", "invoice.pay"}
    BY DEF Request
  <2> QED
    BY <2>1, <2>2 DEF IdempotencyRecord
<1> QED
  BY <1>1 DEF Replay, FindsRow, ReplayApproval, ReplayPayment

(* The refusals of a call, with the document a refusal for a status is     *)
(* about.                                                                  *)
LEMMA RefusalCode ==
    ASSUME TypeOK, NEW c \in Names
    PROVE  LET m == Calls[c]
           IN  /\ Refusal(m) \in Codes
               /\ Refusal(m) = "PURCHASE_ORDER_INVALID_STATE" =>
                     /\ OrderNamed(m) \in PurchaseOrders
                     /\ purchase_orders[OrderNamed(m)] # None
               /\ Refusal(m) = "INVOICE_INVALID_STATE" =>
                     m.invoice_id \in Invoices /\ invoices[m.invoice_id] # None
<1> PICK m : m = Calls[c]
  OBVIOUS
<1> SUFFICES /\ Refusal(m) \in Codes
             /\ Refusal(m) = "PURCHASE_ORDER_INVALID_STATE" =>
                   /\ OrderNamed(m) \in PurchaseOrders
                   /\ purchase_orders[OrderNamed(m)] # None
             /\ Refusal(m) = "INVOICE_INVALID_STATE" =>
                   m.invoice_id \in Invoices /\ invoices[m.invoice_id] # None
  OBVIOUS
<1> USE DEF Codes
<1>1. CASE m.operation = "purchase_order.create"
  <2>1. Refusal(m) = NewOrderRefusal(m)
    BY <1>1 DEF Refusal, InvoiceActions
  <2>2. NewOrderRefusal(m) \in {"OK", "VENDOR_NOT_FOUND", "VENDOR_INACTIVE",
                                "PURCHASE_ORDER_LINE_INVALID"}
    BY DEF NewOrderRefusal, OrderRefusal
  <2> QED
    BY <2>1, <2>2
<1>2. CASE m.operation = "purchase_order.submit"
  <2>1. Refusal(m) = SubmitRefusal(purchase_orders[m.purchase_order_id])
    BY <1>2 DEF Refusal, InvoiceActions
  <2>2. OrderNamed(m) = m.purchase_order_id /\ m.purchase_order_id \in PurchaseOrders
    BY <1>2, CallShape DEF OrderNamed, OrderActions, InvoiceActions
  <2> QED
    BY <2>1, <2>2 DEF SubmitRefusal
<1>3. CASE m.operation = "purchase_order.receive"
  <2>1. Refusal(m) = DeliveryRefusal(m)
    BY <1>3 DEF Refusal, InvoiceActions
  <2>2. OrderNamed(m) = m.purchase_order_id /\ m.purchase_order_id \in PurchaseOrders
    BY <1>3, CallShape DEF OrderNamed, OrderActions, InvoiceActions
  <2> QED
    BY <2>1, <2>2 DEF DeliveryRefusal, ReceiptRefusal
<1>4. CASE m.operation = "invoice.create"
  <2>1. Refusal(m) = InvoiceRefusal(m.vendor_id, purchase_orders[m.purchase_order_id],
                                    HasInvoiceNumber(m.vendor_id, m.invoice_number))
    BY <1>4 DEF Refusal, InvoiceActions
  <2>2. OrderNamed(m) = m.purchase_order_id /\ m.purchase_order_id \in PurchaseOrders
    BY <1>4, CallShape DEF OrderNamed, OrderActions, InvoiceActions
  <2> QED
    BY <2>1, <2>2 DEF InvoiceRefusal
<1>5. CASE m.operation \in InvoiceActions
  <2> DEFINE inv == invoices[m.invoice_id]
             po == purchase_orders[inv.purchase_order_id]
  <2>1. Refusal(m) \in {MatchRefusal(inv, po), ApprovalRefusal(inv), PaymentRefusal(inv, po)}
    BY <1>5 DEF Refusal, InvoiceActions
  <2>2. m.invoice_id \in Invoices /\ OrderNamed(m) = inv.purchase_order_id
    BY <1>5, CallShape DEF OrderNamed, OrderActions, InvoiceActions
  <2>3. inv # None => inv.purchase_order_id \in PurchaseOrders
    BY <2>2, InvoiceRowFound
  <2> QED
    BY <2>1, <2>2, <2>3 DEF MatchRefusal, ApprovalRefusal, PaymentRefusal
<1> QED
  BY <1>1, <1>2, <1>3, <1>4, <1>5, CallShape DEF OrderActions

(* An answer has a code, and what takes effect is answered with OK.        *)
LEMMA AnswerCode ==
    ASSUME TypeOK, NEW c \in Names
    PROVE  LET m == Calls[c]
           IN  /\ Code(m) \in Codes
               /\ Code(m) \in {"PURCHASE_ORDER_INVALID_STATE", "INVOICE_INVALID_STATE"} =>
                     Refusal(m) = Code(m)
               /\ TakesEffect(m) => Code(m) = "OK"
               /\ Recorded(m.key) => ~TakesEffect(m)
               /\ ~WellFormed(m) => ~TakesEffect(m)
<1> PICK m : m = Calls[c]
  OBVIOUS
<1>1. Recorded(m.key) => Replay(m.key) \in {"OK", "DEPENDENCY_TEMPORARILY_UNAVAILABLE",
         "GL_ENTRIES_MISSING", "GL_ENTRIES_UNBALANCED", "PURCHASE_ORDER_NOT_FOUND"}
  BY CallShape, ReplayCode
<1>2. EarlyAnswer(m) = None \/ EarlyAnswer(m) \in
         Codes \ {"PURCHASE_ORDER_INVALID_STATE", "INVOICE_INVALID_STATE"}
  BY <1>1 DEF EarlyAnswer, Codes
<1>3. (Recorded(m.key) \/ ~WellFormed(m)) => EarlyAnswer(m) # None
  BY <1>1, NoneIsNoAnswer DEF EarlyAnswer, Codes
<1>4. Refusal(m) \in Codes
  BY RefusalCode
<1>5. Unavailable.code = "DEPENDENCY_TEMPORARILY_UNAVAILABLE"
  BY DEF Unavailable
<1>6. Unavailable.code \in Codes
  BY <1>5 DEF Codes
<1> QED
  BY <1>2, <1>3, <1>4, <1>5, <1>6, NoneIsNoAnswer DEF Code, TakesEffect

-----------------------------------------------------------------------------
(* Steps of the clients                                                    *)

(* What a step of the API does to the tables: one call in flight takes     *)
(* effect, or nothing.                                                     *)
LEMMA ServiceMoves ==
    ASSUME [ClientsNext]_all_vars
    PROVE  \/ UNCHANGED vars
           \/ \E c \in network : TakesEffect(Calls[c]) /\ Effect(Calls[c])
<1>1. (\E c \in desk : Make(c)) \/ NextOfWorkflow => UNCHANGED vars
  BY DEF Make, NextOfWorkflow, Send
<1>2. ASSUME NEW c \in network,
             \/ Answer(c) \/ AnswerLost(c) \/ TransactionFails(c)
             \/ ReadBackFails(c) \/ TimesOut(c)
      PROVE  UNCHANGED vars \/ (TakesEffect(Calls[c]) /\ Effect(Calls[c]))
  <2>1. Handle(c) \/ UNCHANGED vars
    BY <1>2 DEF Answer, AnswerLost, TransactionFails, ReadBackFails, TimesOut
  <2> QED
    BY <2>1 DEF Handle
<1> QED
  BY <1>1, <1>2 DEF ClientsNext, all_vars

(* To the tables it is a step of P2P.                                      *)
LEMMA ServiceStep ==
    ASSUME network \subseteq Names, [ClientsNext]_all_vars
    PROVE  [Next]_vars
<1>1. ASSUME NEW c \in network, TakesEffect(Calls[c]), Effect(Calls[c])
      PROVE  [Next]_vars
  <2>1. c \in Names /\ Calls[c].key \in Keys /\ Refusal(Calls[c]) = "OK"
    BY <1>1, CallShape DEF TakesEffect
  <2>2. OrderStep(Calls[c].key) \/ InvoiceStep(Calls[c].key)
    BY <1>1, <2>1, EffectIsRequest
  <2> QED
    BY <2>1, <2>2 DEF Next
<1> QED
  BY <1>1, ServiceMoves

(* A client hears the reply of its call, just handled, or that there is    *)
(* none.                                                                   *)
Heard(c) ==
    \/ told'[c] \in {Silence, Unavailable}
    \/ /\ told'[c] = Reply(Calls[c])
       /\ IF TakesEffect(Calls[c]) THEN Effect(Calls[c]) ELSE UNCHANGED vars

(* What a step does to what the clients hold: one that waits hears.        *)
LEMMA ToldMoves ==
    ASSUME DOMAIN told = Names, network \subseteq Names, [ClientsNext]_all_vars
    PROVE  \/ UNCHANGED told
           \/ \E c \in network : /\ told[c] = None
                                 /\ told' = [told EXCEPT ![c] = told'[c]]
                                 /\ Heard(c)
<1>1. (\E c \in desk : Make(c)) \/ NextOfWorkflow => UNCHANGED told
  BY DEF Make, NextOfWorkflow, Send
<1>2. ASSUME NEW c \in network, NEW reply, Hears(c, reply)
      PROVE  told'[c] = reply /\ told' = [told EXCEPT ![c] = told'[c]]
  BY <1>2 DEF Hears
<1>3. ASSUME NEW c \in network, Answer(c)
      PROVE  told[c] = None /\ told' = [told EXCEPT ![c] = told'[c]] /\ Heard(c)
  BY <1>2, <1>3 DEF Answer, Handle, Heard
<1>4. ASSUME NEW c \in network, AnswerLost(c), told' # told
      PROVE  told[c] = None /\ told' = [told EXCEPT ![c] = told'[c]] /\ Heard(c)
  BY <1>2, <1>4 DEF AnswerLost, Heard
<1>5. ASSUME NEW c \in network, TransactionFails(c) \/ ReadBackFails(c) \/ TimesOut(c)
      PROVE  told[c] = None /\ told' = [told EXCEPT ![c] = told'[c]] /\ Heard(c)
  BY <1>2, <1>5 DEF TransactionFails, ReadBackFails, TimesOut, Heard
<1> QED
  BY <1>1, <1>3, <1>4, <1>5 DEF ClientsNext, all_vars

(* What it does to the calls in flight: one of the desk is sent, for which *)
(* its documents are there or the script has got so far, or none.          *)
LEMMA NetworkMoves ==
    ASSUME [ClientsNext]_all_vars
    PROVE  /\ UNCHANGED desk
           /\ \/ network' \subseteq network
              \/ \E c \in desk :
                    /\ network' = network \cup {c} /\ UNCHANGED vars
                    /\ \/ Exists(Calls[c])
                       \/ \E n \in DOMAIN Workflow :
                             /\ c = Workflow[n]
                             /\ \A j \in 1..(n - 1) : Told(Workflow[j], "OK")
<1>1. ASSUME NEW c \in desk, Make(c)
      PROVE  network' = network \cup {c} /\ UNCHANGED <<vars, desk>> /\ Exists(Calls[c])
  BY <1>1 DEF Make, Send
<1>2. ASSUME NEW n \in DOMAIN Workflow, Send(Workflow[n]),
             \A j \in 1..(n - 1) : told[Workflow[j]] # None /\ told[Workflow[j]].code = "OK"
      PROVE  \E c \in desk : /\ network' = network \cup {c} /\ UNCHANGED <<vars, desk>>
                             /\ c = Workflow[n]
                             /\ \A j \in 1..(n - 1) : Told(Workflow[j], "OK")
  BY <1>2 DEF Send, Told
<1>3. ASSUME NEW c \in network,
             \/ Answer(c) \/ AnswerLost(c) \/ TransactionFails(c)
             \/ ReadBackFails(c) \/ TimesOut(c)
      PROVE  UNCHANGED desk /\ network' \subseteq network
  <2>1. Arrives(c) \/ (UNCHANGED desk /\ UNCHANGED network)
    BY <1>3 DEF Answer, AnswerLost, TransactionFails, ReadBackFails, TimesOut, Handle
  <2> QED
    BY <2>1 DEF Arrives
<1> QED
  BY <1>1, <1>2, <1>3 DEF ClientsNext, NextOfWorkflow, all_vars

-----------------------------------------------------------------------------
(* What the clients hold                                                   *)

(* A success of call m, with the next_action in detail, is on record: the  *)
(* request m makes under its key, with the document named by that key if   *)
(* it created one, and the advice as it was given.                         *)
OnRecord(m, request, detail) ==
    /\ Recorded(m.key)
    /\ idempotency_keys[m.key].request = request
    /\ m.operation = "invoice.match" => detail = invoice_match_snapshots[m.key].next_action
    /\ m.operation = "invoice.approve" => detail = "MARK_PAID"
    /\ m.operation = "invoice.pay" => detail = "COMPLETE"

(* The receipt under the key of a demo row. *)
Excepted(m) == m.operation = "purchase_order.receive" /\ m.key \in DOMAIN DemoReceipts

Acknowledged ==
    \A c \in Names : Told(c, "OK") =>
        OnRecord(Calls[c], Fingerprint(Calls[c]), told[c].detail) \/ Excepted(Calls[c])

(* The operation of a call is that of its request.                         *)
LEMMA FingerprintOperation ==
    ASSUME NEW c \in Names
    PROVE  Fingerprint(Calls[c]).operation = Calls[c].operation
<1> PICK m : m = Calls[c]
  OBVIOUS
<1>1. /\ m.operation \notin InvoiceActions \/ m.operation \notin OrderActions
      /\ "purchase_order.create" \notin InvoiceActions /\ "invoice.create" \notin InvoiceActions
      /\ OrderActions = {"purchase_order.submit", "purchase_order.receive"}
  BY DEF OrderActions, InvoiceActions
<1> QED
  BY <1>1, CallShape DEF Fingerprint, CreateOrderRequest, ReceiveRequest, CreateInvoiceRequest

(* A success that is answered to an early duplicate is on record.          *)
LEMMA EarlySuccess ==
    ASSUME Books, NEW c \in Names, Code(Calls[c]) = "OK", ~TakesEffect(Calls[c])
    PROVE  LET m == Calls[c]
           IN  OnRecord(m, Fingerprint(m), Guidance(m)) \/ Excepted(m)
<1> PICK m : m = Calls[c]
  OBVIOUS
<1> SUFFICES OnRecord(m, Fingerprint(m), Guidance(m)) \/ Excepted(m)
  OBVIOUS
<1>1. m.key \in Keys /\ Code(m) = "OK" /\ ~TakesEffect(m)
  BY CallShape
<1>2. EarlyAnswer(m) = "OK"
  BY <1>1 DEF Code, TakesEffect, Unavailable
<1>3. CASE Recorded(m.key)
  <2>1. SameRequest(m)
    BY <1>2, <1>3 DEF EarlyAnswer
  <2>2. Guidance(m) = CASE m.operation = "invoice.create" -> "REQUEST_MATCH"
                        [] m.operation = "invoice.match" ->
                             invoice_match_snapshots[m.key].next_action
                        [] m.operation = "invoice.approve" -> "MARK_PAID"
                        [] m.operation = "invoice.pay" -> "COMPLETE"
                        [] OTHER -> None
    BY <1>3 DEF Guidance
  <2> QED
    BY <1>3, <2>1, <2>2 DEF SameRequest, OnRecord
<1>4. CASE ~Recorded(m.key)
  <2>0. ~(/\ m.operation = "purchase_order.submit"
          /\ SubmittedUnder(purchase_orders[m.purchase_order_id], m.key))
    BY <1>1, <1>4, CallShape DEF Books, SubmissionsAreKnown, OrderActions
  <2>1. m.operation = "purchase_order.receive" /\ goods_receipts[m.key] # None
    BY <1>2, <1>4, <2>0, NoneIsNoAnswer DEF EarlyAnswer, Codes
  <2> QED
    BY <1>1, <1>4, <2>1 DEF Books, ReceiptsAreKnown, Excepted
<1> QED
  BY <1>3, <1>4

(* What takes effect goes on record.                                       *)
LEMMA EffectSuccess ==
    ASSUME Books, NEW c \in Names, TakesEffect(Calls[c]), Effect(Calls[c])
    PROVE  \E detail : /\ detail = Guidance(Calls[c])
                        /\ OnRecord(Calls[c], Fingerprint(Calls[c]), detail)'
<1> PICK m, f, detail : m = Calls[c] /\ f = Fingerprint(m) /\ detail = Guidance(m)
  OBVIOUS
<1>1. m.key \in Keys /\ TypeOK
  BY CallShape DEF Books
<1>2. PICK id : Record(m.key, f, id)
  BY EffectIsRequest DEF TakesEffect
<1>3. Recorded(m.key)' /\ idempotency_keys'[m.key].request = f
  <2>1. idempotency_keys'[m.key] = [request |-> f, resource_id |-> id]
    BY <1>1, <1>2 DEF Record, TypeOK
  <2>2. OrderStep(m.key) \/ InvoiceStep(m.key)
    BY EffectIsRequest DEF TakesEffect
  <2> QED
    BY <1>1, <2>1, <2>2, RequestStartsOwnCheck
<1>4. ~Recorded(m.key) /\ Effect(m)
  BY <1>1, AnswerCode
<1>5. m.operation = "invoice.match" => detail = invoice_match_snapshots'[m.key].next_action
  <2> SUFFICES ASSUME m.operation = "invoice.match"
               PROVE  detail = invoice_match_snapshots'[m.key].next_action
    OBVIOUS
  <2>1. /\ detail = NextAction(invoices[m.invoice_id].invoice_amount,
                              purchase_orders[OrderNamed(m)])
        /\ OrderNamed(m) = invoices[m.invoice_id].purchase_order_id
    BY <1>4 DEF Guidance, OrderNamed, OrderActions, InvoiceActions
  <2>2. MatchInvoice(m.key, m.invoice_id)
    BY <1>4 DEF Effect
  <2> QED
    BY <1>1, <2>1, <2>2 DEF MatchInvoice, TypeOK
<1>6. /\ m.operation = "invoice.approve" => detail = "MARK_PAID"
      /\ m.operation = "invoice.pay" => detail = "COMPLETE"
  BY DEF Guidance
<1>7. OnRecord(m, f, detail)'
  BY <1>3, <1>5, <1>6 DEF OnRecord
<1> QED
  BY <1>7

(* What is on record stays there.                                          *)
LEMMA OnRecordStays ==
    ASSUME Books, [Next]_vars, NEW c \in Names, NEW request, NEW detail,
           OnRecord(Calls[c], request, detail)
    PROVE  OnRecord(Calls[c], request, detail)'
<1> PICK m : m = Calls[c]
  OBVIOUS
<1>1. m.key \in Keys /\ TypeOK
  BY CallShape DEF Books
<1>2. Recorded(m.key) /\ OnRecord(m, request, detail)
  BY DEF OnRecord
<1>3. /\ idempotency_keys'[m.key] = idempotency_keys[m.key]
      /\ invoice_match_snapshots'[m.key] = invoice_match_snapshots[m.key]
  BY <1>1, <1>2, RecordsStay, HistoryKept
<1>4. Recorded(m.key)'
  BY <1>2, <1>3 DEF Recorded
<1>5. OnRecord(m, request, detail)'
  BY <1>2, <1>3, <1>4 DEF OnRecord
<1> QED
  BY <1>5

(* Whoever is told of a success can rely on the record of it.              *)
LEMMA AcknowledgedStep ==
    ASSUME Books, Acknowledged, told \in [Names -> Answers \cup {None}], network \subseteq Names,
           [ClientsNext]_all_vars
    PROVE  Acknowledged'
<1> SUFFICES ASSUME NEW c \in Names, Told(c, "OK")'
             PROVE  \/ OnRecord(Calls[c], Fingerprint(Calls[c]), told[c].detail)'
                    \/ Excepted(Calls[c])
  BY DEF Acknowledged, Excepted
<1>1. [Next]_vars
  BY ServiceStep
<1>2. CASE told'[c] = told[c]
  <2>1. PICK f, detail : f = Fingerprint(Calls[c]) /\ detail = told[c].detail
    OBVIOUS
  <2>2. Told(c, "OK")
    BY <1>2 DEF Told
  <2>3. OnRecord(Calls[c], f, detail) => OnRecord(Calls[c], f, detail)'
    BY <1>1, OnRecordStays
  <2> QED
    BY <1>2, <2>1, <2>2, <2>3 DEF Acknowledged, OnRecord
<1>3. CASE told'[c] # told[c]
  <2>1. c \in network /\ Heard(c)
    BY <1>3, ToldMoves
  <2>2. told'[c].code = "OK"
    BY DEF Told
  <2>3. /\ told'[c] = Reply(Calls[c])
        /\ TakesEffect(Calls[c]) => Effect(Calls[c])
    BY <2>1, <2>2 DEF Heard, Silence, Unavailable
  <2>4. Code(Calls[c]) = "OK" /\ told'[c].detail = Guidance(Calls[c])
    BY <2>2, <2>3 DEF Reply
  <2>5. PICK f, detail : f = Fingerprint(Calls[c]) /\ detail = Guidance(Calls[c])
    OBVIOUS
  <2>6. CASE TakesEffect(Calls[c])
    <3>1. Effect(Calls[c])
      BY <2>3, <2>6
    <3>2. OnRecord(Calls[c], f, detail)'
      BY <2>5, <2>6, <3>1, EffectSuccess
    <3> QED
      BY <2>4, <2>5, <3>2 DEF OnRecord
  <2>7. CASE ~TakesEffect(Calls[c])
    <3>1. OnRecord(Calls[c], f, detail) \/ Excepted(Calls[c])
      BY <2>4, <2>5, <2>7, EarlySuccess
    <3>2. OnRecord(Calls[c], f, detail) => OnRecord(Calls[c], f, detail)'
      BY <1>1, OnRecordStays
    <3> QED
      BY <2>4, <2>5, <3>1, <3>2 DEF OnRecord
  <2> QED
    BY <2>6, <2>7
<1> QED
  BY <1>2, <1>3

(* Every reply is one of the answers.                                      *)
LEMMA ReplyType ==
    ASSUME Books, NEW c \in Names
    PROVE  Reply(Calls[c]) \in Answers
<1> PICK m : m = Calls[c]
  OBVIOUS
<1> DEFINE details == Advice \cup PurchaseOrderStatuses \cup InvoiceStatuses \cup {None}
<1>1. TypeOK /\ Code(m) \in Codes
  BY AnswerCode DEF Books
<1>2. CASE Code(m) = "OK"
  <2>1. Guidance(m) \in details
    <3>1. CASE m.operation = "invoice.match" /\ Recorded(m.key)
      <4>1. OnRecord(m, Fingerprint(m), Guidance(m))
        BY <1>1, <1>2, <3>1, AnswerCode, EarlySuccess DEF Excepted
      <4>2. m.key \in Keys /\ idempotency_keys[m.key].request.operation = "invoice.match"
        BY <3>1, <4>1, CallShape, FingerprintOperation DEF OnRecord
      <4>3. invoice_match_snapshots[m.key] \in MatchSnapshot
        BY <1>1, <3>1, <4>2 DEF Books, RecordsAreDone, RecordDone, TypeOK
      <4>4. invoice_match_snapshots[m.key].next_action \in Advice
        BY <4>3 DEF MatchSnapshot, Advice
      <4> QED
        BY <3>1, <4>1, <4>4 DEF OnRecord
    <3>2. CASE m.operation = "invoice.match" /\ ~Recorded(m.key)
      <4>1. Guidance(m) = NextAction(invoices[m.invoice_id].invoice_amount,
                                     purchase_orders[OrderNamed(m)])
        BY <3>2 DEF Guidance
      <4> QED
        BY <4>1, NextActionType DEF Advice
    <3>3. CASE m.operation # "invoice.match"
      BY <3>3 DEF Guidance, Advice
    <3> QED
      BY <3>1, <3>2, <3>3
  <2> QED
    BY <1>1, <1>2, <2>1 DEF Reply, Answers
<1>3. CASE Code(m) = "PURCHASE_ORDER_INVALID_STATE"
  <2>1. purchase_orders[OrderNamed(m)] \in PurchaseOrder
    BY <1>1, <1>3, AnswerCode, RefusalCode DEF TypeOK
  <2> QED
    BY <1>1, <1>3, <2>1 DEF Reply, Answers, PurchaseOrder
<1>4. CASE Code(m) = "INVOICE_INVALID_STATE"
  <2>1. invoices[m.invoice_id] \in Invoice
    BY <1>1, <1>4, AnswerCode, RefusalCode DEF TypeOK
  <2> QED
    BY <1>1, <1>4, <2>1 DEF Reply, Answers, Invoice
<1>5. CASE Code(m) \notin {"OK", "PURCHASE_ORDER_INVALID_STATE", "INVOICE_INVALID_STATE"}
  BY <1>1, <1>5 DEF Reply, Answers
<1> QED
  BY <1>2, <1>3, <1>4, <1>5

(* What the clients hold has the type of an answer.                        *)
ClientsTypeOK ==
    /\ desk \subseteq Names
    /\ network \subseteq Names
    /\ told \in [Names -> Answers \cup {None}]

(* Every step keeps the types.                                             *)
LEMMA ClientsTypeStep ==
    ASSUME Books, ClientsTypeOK, [ClientsNext]_all_vars
    PROVE  ClientsTypeOK'
<1> USE DEF ClientsTypeOK
<1>1. desk' \subseteq Names /\ network' \subseteq Names
  BY NetworkMoves
<1>2. Silence \in Answers /\ Unavailable \in Answers
  BY DEF Silence, Unavailable, Answers, Codes
<1>3. ASSUME NEW c \in network, Heard(c)
      PROVE  told'[c] \in Answers
  BY <1>2, <1>3, ReplyType DEF Heard
<1>4. told' \in [Names -> Answers \cup {None}]
  BY <1>3, ToldMoves
<1> QED
  BY <1>1, <1>4

(* A document is named by the key of the call that created it.             *)
NamedByKey ==
    \A k \in Keys :
        (/\ Recorded(k)
         /\ idempotency_keys[k].request.operation \in {"purchase_order.create", "invoice.create"})
        => idempotency_keys[k].resource_id = k

(* Every call that takes effect names what it creates by its key.          *)
LEMMA NamedByKeyStep ==
    ASSUME Books, NamedByKey, network \subseteq Names, [ClientsNext]_all_vars
    PROVE  NamedByKey'
<1> SUFFICES ASSUME NEW k \in Keys, Recorded(k)',
                    idempotency_keys'[k].request.operation
                       \in {"purchase_order.create", "invoice.create"}
             PROVE  idempotency_keys'[k].resource_id = k
  BY DEF NamedByKey, Recorded
<1>1. TypeOK
  BY DEF Books
<1>2. CASE idempotency_keys'[k] = idempotency_keys[k]
  BY <1>2 DEF NamedByKey, Recorded
<1>3. CASE idempotency_keys'[k] # idempotency_keys[k]
  <2>1. PICK c \in network : TakesEffect(Calls[c]) /\ Effect(Calls[c])
    BY <1>3, ServiceMoves DEF vars
  <2>2. PICK m, f : m = Calls[c] /\ f = Fingerprint(m)
    OBVIOUS
  <2>3. PICK id : /\ Record(m.key, f, id)
                  /\ m.operation \in {"purchase_order.create", "invoice.create"} => id = m.key
    BY <2>1, <2>2, EffectIsRequest DEF TakesEffect
  <2>4. idempotency_keys'[k] = [request |-> f, resource_id |-> id] /\ k = m.key
    BY <1>1, <1>3, <2>3 DEF Record, TypeOK
  <2>5. f.operation = m.operation
    BY <2>1, <2>2, FingerprintOperation
  <2> QED
    BY <2>3, <2>4, <2>5
<1> QED
  BY <1>2, <1>3

(* A document that is there stays there.                                   *)
LEMMA ExistsStays ==
    ASSUME Books, [Next]_vars, NEW c \in Names, Exists(Calls[c])
    PROVE  Exists(Calls[c])'
<1> PICK m : m = Calls[c]
  OBVIOUS
<1>1. CASE m.operation = "purchase_order.create"
  <2>1. Exists(m)'
    BY <1>1 DEF Exists, OrderActions, InvoiceActions
  <2> QED
    BY <2>1
<1>2. CASE m.operation \in OrderActions \cup {"invoice.create"}
  <2>1. m.purchase_order_id \in PurchaseOrders
    BY <1>2, CallShape
  <2>2. purchase_orders[m.purchase_order_id] # None
    BY <1>2 DEF Exists, OrderActions, InvoiceActions
  <2>3. purchase_orders'[m.purchase_order_id] # None
    BY <2>1, <2>2, OrdersKeep DEF Books, SameTerms
  <2>4. Exists(m)'
    BY <1>2, <2>3 DEF Exists, OrderActions, InvoiceActions
  <2> QED
    BY <2>4
<1>3. CASE m.operation \in InvoiceActions
  <2>1. m.invoice_id \in Invoices
    BY <1>3, CallShape
  <2>2. invoices[m.invoice_id] # None
    BY <1>3 DEF Exists, OrderActions, InvoiceActions
  <2>3. invoices'[m.invoice_id] # None
    BY <2>1, <2>2, InvoicesKeep DEF Books, SameInvoice
  <2>4. Exists(m)'
    BY <1>3, <2>3 DEF Exists, OrderActions, InvoiceActions
  <2> QED
    BY <2>4
<1> QED
  BY <1>1, <1>2, <1>3, CallShape

(* Who was told that a document is created finds it under the call's key.  *)
LEMMA CreatedExists ==
    ASSUME Books, Acknowledged, NamedByKey, NEW c \in Names, Told(c, "OK")
    PROVE  LET m == Calls[c]
           IN  /\ m.operation = "purchase_order.create" => purchase_orders[m.key] # None
               /\ m.operation = "invoice.create" => invoices[m.key] # None
<1> PICK m : m = Calls[c]
  OBVIOUS
<1>1. CASE m.operation \in {"purchase_order.create", "invoice.create"}
  <2>1. OnRecord(m, Fingerprint(m), told[c].detail) /\ m.key \in Keys
    BY <1>1, CallShape DEF Acknowledged, Excepted
  <2>2. idempotency_keys[m.key].request.operation = m.operation
    BY <2>1, FingerprintOperation DEF OnRecord
  <2>3. idempotency_keys[m.key].resource_id = m.key
    BY <1>1, <2>1, <2>2 DEF NamedByKey, OnRecord
  <2> QED
    BY <2>1, <2>2, <2>3 DEF OnRecord, Books, RecordsAreDone, RecordDone
<1> QED
  BY <1>1

(* A call in flight names a document that is there.                        *)
InFlightExist == \A c \in network : Exists(Calls[c])

(* A client names a document it knows of, and the script one of its own.   *)
LEMMA InFlightExistStep ==
    ASSUME Books, ClientsTypeOK, Acknowledged, NamedByKey, InFlightExist,
           [ClientsNext]_all_vars
    PROVE  InFlightExist'
<1>1. [Next]_vars
  BY ServiceStep DEF ClientsTypeOK
<1>2. ASSUME NEW n \in DOMAIN Workflow, Workflow[n] \in Names,
             \A j \in 1..(n - 1) : Told(Workflow[j], "OK")
      PROVE  Exists(Calls[Workflow[n]])
  <2> PICK m : m = Calls[Workflow[n]]
    OBVIOUS
  <2>1. ASSUME NEW j \in 1..(n - 1)
        PROVE  Workflow[j] \in Names /\ Told(Workflow[j], "OK")
    <3>1. Workflow \in Seq(Names)
      BY CallsAssumption
    <3>2. DOMAIN Workflow = 1..Len(Workflow) /\ Len(Workflow) \in Nat
      BY <3>1, LenProperties
    <3>3. j \in 1..Len(Workflow)
      BY <3>2
    <3> QED
      BY <1>2, <3>1, <3>3, ElementOfSeq
  <2>2. CASE m.operation = "purchase_order.create"
    BY <2>2 DEF Exists, OrderActions, InvoiceActions
  <2>3. CASE m.operation \in OrderActions \cup {"invoice.create"}
    <3>1. PICK j \in 1..(n - 1) : /\ Calls[Workflow[j]].operation = "purchase_order.create"
                                  /\ Calls[Workflow[j]].key = m.purchase_order_id
      BY <2>3, WorkflowAssumption
    <3>2. purchase_orders[m.purchase_order_id] # None
      BY <2>1, <3>1, CreatedExists
    <3> QED
      BY <2>3, <3>2 DEF Exists, OrderActions, InvoiceActions
  <2>4. CASE m.operation \in InvoiceActions
    <3>1. PICK j \in 1..(n - 1) : /\ Calls[Workflow[j]].operation = "invoice.create"
                                  /\ Calls[Workflow[j]].key = m.invoice_id
      BY <2>4, WorkflowAssumption
    <3>2. invoices[m.invoice_id] # None
      BY <2>1, <3>1, CreatedExists
    <3> QED
      BY <2>4, <3>2 DEF Exists, OrderActions, InvoiceActions
  <2> QED
    BY <1>2, <2>2, <2>3, <2>4, CallShape
<1>3. ASSUME NEW c \in network
      PROVE  Exists(Calls[c]) /\ Exists(Calls[c])'
  BY <1>1, <1>3, ExistsStays DEF InFlightExist, ClientsTypeOK
<1>4. ASSUME NEW c \in desk, network' = network \cup {c}, UNCHANGED vars,
             \/ Exists(Calls[c])
             \/ \E n \in DOMAIN Workflow : /\ c = Workflow[n]
                                         /\ \A j \in 1..(n - 1) : Told(Workflow[j], "OK")
      PROVE  Exists(Calls[c])'
  <2>1. c \in Names /\ Exists(Calls[c])
    BY <1>2, <1>4 DEF ClientsTypeOK
  <2> QED
    BY <1>1, <2>1, ExistsStays
<1>5. CASE network' \subseteq network
  BY <1>3, <1>5 DEF InFlightExist
<1>6. ASSUME NEW c \in desk, network' = network \cup {c}, Exists(Calls[c])'
      PROVE  InFlightExist'
  <2>1. \A d \in network' : d = c \/ d \in network
    BY <1>6
  <2> QED
    BY <1>3, <1>6, <2>1 DEF InFlightExist
<1> QED
  BY <1>4, <1>5, <1>6, NetworkMoves

-----------------------------------------------------------------------------
(* Refusals                                                                *)

(* An order does not fall behind what it was refused for, ...              *)
LEMMA OrderForward ==
    ASSUME Books, [Next]_vars, NEW p \in PurchaseOrders, purchase_orders[p] # None
    PROVE  LET old == purchase_orders[p]
               new == purchase_orders'[p]
           IN  /\ new # None
               /\ new.vendor_id = old.vendor_id /\ new.qty_ordered = old.qty_ordered
               /\ \A l \in Lines : old.qty_received[l] <= new.qty_received[l]
               /\ old.status # "DRAFT" => new.status # "DRAFT"
               /\ old.status \in {"RECEIVED", "CLOSED"} => new.status \in {"RECEIVED", "CLOSED"}
               /\ old.status = "CLOSED" => new.status = "CLOSED"
               /\ old.invoice_id # None => new.invoice_id # None
<1> DEFINE old == purchase_orders[p]
           new == purchase_orders'[p]
<1>1. SameTerms(old, new)
  BY OrdersKeep DEF Books
<1>2. OrderAdvances(p)
  BY OrdersAdvance DEF Books
<1>3. /\ \A l \in Lines : old.qty_received[l] <= new.qty_received[l]
      /\ old.invoice_id # None => new.invoice_id # None
  BY <1>2 DEF OrderAdvances
<1>4. /\ old.status # "DRAFT" => new.status # "DRAFT"
      /\ old.status \in {"RECEIVED", "CLOSED"} => new.status \in {"RECEIVED", "CLOSED"}
      /\ old.status = "CLOSED" => new.status = "CLOSED"
  BY OrderMoves DEF Books, IsDrafted, IsSubmitted, IsReceived, IsInvoiced, IsClosed
<1> QED
  BY <1>1, <1>3, <1>4 DEF SameTerms

(* ... and neither does an invoice.                                        *)
LEMMA InvoiceForward ==
    ASSUME Books, [Next]_vars, NEW i \in Invoices, invoices[i] # None
    PROVE  /\ invoices'[i] # None
           /\ invoices[i].status \in {"APPROVED", "PAID"} =>
                 invoices'[i].status \in {"APPROVED", "PAID"}
           /\ invoices[i].status = "PAID" => invoices'[i].status = "PAID"
BY InvoiceChanges DEF Books, IsCreated, IsMatched, IsApproved, IsPaid, SameInvoice

(* What will never be delivered to an order. *)
Undeliverable(m, po) ==
    \/ \E i \in DOMAIN m.lines : m.lines[i].qty <= 0
    \/ \A l \in Lines : Delivered(m)[l] = 0
    \/ \E l \in Lines : /\ po.qty_ordered[l] > 0
                        /\ po.qty_received[l] + Delivered(m)[l] > po.qty_ordered[l]
    \/ \E l \in Lines : po.qty_ordered[l] = 0 /\ Delivered(m)[l] > 0

(* What will never be billed for an order. *)
Unbillable(m, po) ==
    \/ m.vendor_id \notin Vendors
    \/ po.vendor_id # m.vendor_id
    \/ po.status = "CLOSED"
    \/ po.invoice_id # None

(* The refusals that no later step takes back. *)
FinallyRefused(m) ==
    \/ ~WellFormed(m)
    \/ Recorded(m.key)
    \/ m.operation = "purchase_order.create" /\ NewOrderRefusal(m) # "OK"
    \/ /\ m.operation = "purchase_order.submit"
       /\ purchase_orders[m.purchase_order_id].status # "DRAFT"
    \/ /\ m.operation = "purchase_order.receive"
       /\ \/ purchase_orders[m.purchase_order_id].status \in {"RECEIVED", "CLOSED"}
          \/ Undeliverable(m, purchase_orders[m.purchase_order_id])
    \/ /\ m.operation = "invoice.create"
       /\ \/ Unbillable(m, purchase_orders[m.purchase_order_id])
          \/ HasInvoiceNumber(m.vendor_id, m.invoice_number)
    \/ /\ m.operation \in {"invoice.match", "invoice.approve"}
       /\ invoices[m.invoice_id].status \in {"APPROVED", "PAID"}
    \/ /\ m.operation = "invoice.pay"
       /\ invoices[m.invoice_id].status = "PAID"

(* A call so refused takes no effect, ...                                  *)
LEMMA FinalBlocks ==
    ASSUME Books, NEW c \in Names, FinallyRefused(Calls[c])
    PROVE  ~TakesEffect(Calls[c])
<1> PICK m : m = Calls[c]
  OBVIOUS
<1> SUFFICES ASSUME TakesEffect(m)
             PROVE  FALSE
  OBVIOUS
<1>1. WellFormed(m) /\ ~Recorded(m.key) /\ Refusal(m) = "OK" /\ FinallyRefused(m)
  BY AnswerCode DEF Books, TakesEffect
<1>2. CASE m.operation = "purchase_order.create"
  BY <1>1, <1>2 DEF FinallyRefused, Refusal, InvoiceActions
<1>3. CASE m.operation = "purchase_order.submit"
  <2>1. SubmitRefusal(purchase_orders[m.purchase_order_id]) = "OK"
    BY <1>1, <1>3 DEF Refusal, InvoiceActions
  <2> QED
    BY <1>1, <1>3, <2>1 DEF FinallyRefused, SubmitRefusal
<1>4. CASE m.operation = "purchase_order.receive"
  <2>1. DeliveryRefusal(m) = "OK"
    BY <1>1, <1>4 DEF Refusal, InvoiceActions
  <2>2. /\ ReceiptRefusal(purchase_orders[m.purchase_order_id], Delivered(m)) = "OK"
        /\ ~\E i \in DOMAIN m.lines : m.lines[i].qty <= 0
    BY <2>1 DEF DeliveryRefusal
  <2>3. \/ purchase_orders[m.purchase_order_id].status \in {"RECEIVED", "CLOSED"}
        \/ Undeliverable(m, purchase_orders[m.purchase_order_id])
    BY <1>1, <1>4 DEF FinallyRefused
  <2> QED
    BY <2>2, <2>3 DEF Undeliverable, ReceiptRefusal
<1>5. CASE m.operation = "invoice.create"
  <2>1. InvoiceRefusal(m.vendor_id, purchase_orders[m.purchase_order_id],
                       HasInvoiceNumber(m.vendor_id, m.invoice_number)) = "OK"
    BY <1>1, <1>5 DEF Refusal, InvoiceActions
  <2>2. \/ Unbillable(m, purchase_orders[m.purchase_order_id])
        \/ HasInvoiceNumber(m.vendor_id, m.invoice_number)
    BY <1>1, <1>5 DEF FinallyRefused
  <2> QED
    BY <2>1, <2>2 DEF Unbillable, InvoiceRefusal
<1>6. CASE m.operation \in InvoiceActions
  <2> DEFINE inv == invoices[m.invoice_id]
             po == purchase_orders[inv.purchase_order_id]
  <2>1. /\ m.operation = "invoice.match" => MatchRefusal(inv, po) = "OK"
        /\ m.operation = "invoice.approve" => ApprovalRefusal(inv) = "OK"
        /\ m.operation = "invoice.pay" => PaymentRefusal(inv, po) = "OK"
    BY <1>1, <1>6 DEF Refusal, InvoiceActions
  <2> QED
    BY <1>1, <1>6, <2>1
    DEF FinallyRefused, MatchRefusal, ApprovalRefusal, PaymentRefusal, InvoiceActions
<1> QED
  BY <1>2, <1>3, <1>4, <1>5, <1>6, CallShape DEF OrderActions

(* ... whatever happens meanwhile.                                         *)
LEMMA FinalStays ==
    ASSUME Books, [Next]_vars, NEW c \in Names, Exists(Calls[c]), FinallyRefused(Calls[c])
    PROVE  FinallyRefused(Calls[c])'
<1> PICK m : m = Calls[c]
  OBVIOUS
<1> SUFFICES FinallyRefused(m)'
  OBVIOUS
<1>1. FinallyRefused(m) /\ Exists(m) /\ m.key \in Keys /\ TypeOK
  BY CallShape DEF Books
<1>2. CASE ~WellFormed(m)
  BY <1>2 DEF FinallyRefused, WellFormed
<1>3. CASE Recorded(m.key)
  BY <1>1, <1>3, RecordsStay DEF FinallyRefused, Recorded
<1>4. CASE m.operation = "purchase_order.create" /\ NewOrderRefusal(m) # "OK"
  BY <1>4 DEF FinallyRefused
<1> DEFINE p == m.purchase_order_id
           i == m.invoice_id
<1>5. CASE /\ m.operation \in {"purchase_order.submit", "purchase_order.receive", "invoice.create"}
           /\ ~Recorded(m.key)
  <2>1. p \in PurchaseOrders /\ purchase_orders[p] # None
    BY <1>1, <1>5, CallShape DEF Exists, OrderActions, InvoiceActions
  <2> DEFINE old == purchase_orders[p]
             new == purchase_orders'[p]
  <2>2. /\ new.vendor_id = old.vendor_id /\ new.qty_ordered = old.qty_ordered
        /\ \A l \in Lines : old.qty_received[l] <= new.qty_received[l]
        /\ old.status # "DRAFT" => new.status # "DRAFT"
        /\ old.status \in {"RECEIVED", "CLOSED"} => new.status \in {"RECEIVED", "CLOSED"}
        /\ old.status = "CLOSED" => new.status = "CLOSED"
        /\ old.invoice_id # None => new.invoice_id # None
    BY <2>1, OrderForward
  <2>3. old \in PurchaseOrder /\ new \in PurchaseOrder
    <3>1. TypeOK' /\ new # None
      BY <2>1, BooksKept, OrderForward DEF Books
    <3> QED
      BY <1>1, <2>1, <3>1 DEF TypeOK
  <2>4. CASE m.operation = "purchase_order.submit" /\ WellFormed(m)
    <3>1. old.status # "DRAFT"
      BY <1>1, <1>5, <2>4 DEF FinallyRefused
    <3> QED
      BY <2>2, <2>4, <3>1 DEF FinallyRefused
  <2>5. ASSUME Undeliverable(m, old), m.operation = "purchase_order.receive"
        PROVE  Undeliverable(m, new)
    <3>1. CASE \E j \in DOMAIN m.lines : m.lines[j].qty <= 0
      BY <3>1 DEF Undeliverable
    <3>2. CASE ~\E j \in DOMAIN m.lines : m.lines[j].qty <= 0
      <4>1. AllPositive(m.lines)
        BY <2>5, <3>2, EntryShape DEF AllPositive
      <4>2. Delivered(m) \in LineQuantities
        BY <2>5, <4>1, CallShape, DeliveriesAssumption DEF LinesFit
      <4>3. \A l \in Lines : /\ Delivered(m)[l] \in Nat
                             /\ old.qty_received[l] \in Nat /\ new.qty_received[l] \in Nat
                             /\ old.qty_ordered[l] \in Nat
        BY <2>3, <4>2 DEF PurchaseOrder, LineQuantities
      <4> HIDE DEF old, new
      <4> QED
        BY <2>2, <2>5, <4>3 DEF Undeliverable
    <3> QED
      BY <3>1, <3>2
  <2>6. CASE m.operation = "purchase_order.receive" /\ WellFormed(m)
    <3>1. old.status \in {"RECEIVED", "CLOSED"} \/ Undeliverable(m, old)
      BY <1>1, <1>5, <2>6 DEF FinallyRefused
    <3>2. new.status \in {"RECEIVED", "CLOSED"} \/ Undeliverable(m, new)
      BY <2>2, <2>5, <2>6, <3>1
    <3> QED
      BY <2>6, <3>2 DEF FinallyRefused, Undeliverable
  <2>7. CASE m.operation = "invoice.create" /\ WellFormed(m)
    <3>1. Unbillable(m, old) \/ HasInvoiceNumber(m.vendor_id, m.invoice_number)
      BY <1>1, <1>5, <2>7 DEF FinallyRefused
    <3>2. HasInvoiceNumber(m.vendor_id, m.invoice_number)
             => HasInvoiceNumber(m.vendor_id, m.invoice_number)'
      BY InvoicesKeep DEF Books, SameInvoice, HasInvoiceNumber
    <3>3. Unbillable(m, new) \/ HasInvoiceNumber(m.vendor_id, m.invoice_number)'
      BY <2>2, <3>1, <3>2 DEF Unbillable
    <3> QED
      BY <2>7, <3>3 DEF FinallyRefused, Unbillable
  <2> QED
    BY <1>2, <1>5, <2>4, <2>6, <2>7
<1>6. CASE m.operation \in InvoiceActions /\ WellFormed(m) /\ ~Recorded(m.key)
  <2>1. i \in Invoices /\ invoices[i] # None
    BY <1>1, <1>6, CallShape DEF Exists, OrderActions, InvoiceActions
  <2>2. /\ invoices[i].status \in {"APPROVED", "PAID"} =>
              invoices'[i].status \in {"APPROVED", "PAID"}
        /\ invoices[i].status = "PAID" => invoices'[i].status = "PAID"
    BY <2>1, InvoiceForward
  <2>3. \/ /\ m.operation \in {"invoice.match", "invoice.approve"}
           /\ invoices[i].status \in {"APPROVED", "PAID"}
        \/ m.operation = "invoice.pay" /\ invoices[i].status = "PAID"
    BY <1>1, <1>6 DEF FinallyRefused, InvoiceActions
  <2> QED
    BY <2>2, <2>3 DEF FinallyRefused
<1> QED
  BY <1>1, <1>2, <1>3, <1>4, <1>5, <1>6, CallShape DEF FinallyRefused, OrderActions

(* A refusal of an order's call that is not for an early stage is final, ... *)
LEMMA OrderRefusalIsFinal ==
    ASSUME Books, NEW m, m.operation \in OrderActions \cup {"invoice.create"},
           m.purchase_order_id \in PurchaseOrders, purchase_orders[m.purchase_order_id] # None,
           Refusal(m) # "OK",
           Refusal(m) = "PURCHASE_ORDER_INVALID_STATE" =>
              <<m.operation, purchase_orders[m.purchase_order_id].status>> \notin TooEarly
    PROVE  FinallyRefused(m)
<1> DEFINE po == purchase_orders[m.purchase_order_id]
<1>1. po # None /\ po.status \in PurchaseOrderStatuses
  BY DEF Books, TypeOK, PurchaseOrder
<1>2. CASE m.operation = "purchase_order.submit"
  <2>1. Refusal(m) = SubmitRefusal(po)
    BY <1>2 DEF Refusal, InvoiceActions
  <2> QED
    BY <1>1, <1>2, <2>1 DEF SubmitRefusal, FinallyRefused
<1>3. CASE m.operation = "purchase_order.receive"
  <2>1. Refusal(m) = DeliveryRefusal(m)
    BY <1>3 DEF Refusal, InvoiceActions
  <2>2. CASE po.status # "SUBMITTED"
    <3>1. Refusal(m) = "PURCHASE_ORDER_INVALID_STATE"
      BY <1>1, <2>1, <2>2 DEF DeliveryRefusal, ReceiptRefusal
    <3>2. po.status # "DRAFT"
      BY <1>3, <3>1 DEF TooEarly
    <3> QED
      BY <1>1, <1>3, <2>2, <3>2 DEF FinallyRefused, PurchaseOrderStatuses
  <2>3. CASE po.status = "SUBMITTED"
    BY <1>1, <1>3, <2>1, <2>3 DEF DeliveryRefusal, ReceiptRefusal, FinallyRefused, Undeliverable
  <2> QED
    BY <2>2, <2>3
<1>4. CASE m.operation = "invoice.create"
  <2>1. Refusal(m) = InvoiceRefusal(m.vendor_id, po, HasInvoiceNumber(m.vendor_id, m.invoice_number))
    BY <1>4 DEF Refusal, InvoiceActions
  <2>2. po.status = "DRAFT" => Refusal(m) # "PURCHASE_ORDER_INVALID_STATE"
    BY <1>4 DEF TooEarly
  <2> QED
    BY <1>1, <1>4, <2>1, <2>2
    DEF InvoiceRefusal, FinallyRefused, Unbillable, PurchaseOrderStatuses
<1> QED
  BY <1>2, <1>3, <1>4 DEF OrderActions

(* ... and so is that of an invoice's.                                     *)
LEMMA InvoiceRefusalIsFinal ==
    ASSUME Books, NEW m, m.operation \in InvoiceActions,
           m.invoice_id \in Invoices, invoices[m.invoice_id] # None,
           Refusal(m) # "OK",
           Refusal(m) = "INVOICE_INVALID_STATE" =>
              <<m.operation, invoices[m.invoice_id].status>> \notin TooEarly,
           Refusal(m) = "PURCHASE_ORDER_INVALID_STATE" =>
              <<m.operation, purchase_orders[invoices[m.invoice_id].purchase_order_id].status>>
                 \notin TooEarly
    PROVE  FinallyRefused(m)
<1> DEFINE inv == invoices[m.invoice_id]
           po == purchase_orders[inv.purchase_order_id]
<1>1. /\ inv # None /\ inv.status \in InvoiceStatuses
      /\ inv.purchase_order_id \in PurchaseOrders
      /\ po # None /\ po.invoice_id = m.invoice_id /\ po.status \in PurchaseOrderStatuses
  BY LinkedOrder DEF Books, InvoiceLinks, Invoice, PurchaseOrder
<1>2. CASE m.operation = "invoice.match"
  <2>1. Refusal(m) = MatchRefusal(inv, po)
    BY <1>2 DEF Refusal, InvoiceActions
  <2> QED
    BY <1>1, <1>2, <2>1 DEF MatchRefusal, FinallyRefused, InvoiceStatuses
<1>3. CASE m.operation = "invoice.approve"
  <2>1. Refusal(m) = ApprovalRefusal(inv)
    BY <1>3 DEF Refusal, InvoiceActions
  <2>2. inv.status # "MATCHED" /\ inv.status # "PENDING"
    BY <1>1, <1>3, <2>1 DEF ApprovalRefusal, TooEarly
  <2> QED
    BY <1>1, <1>3, <2>2 DEF FinallyRefused, InvoiceStatuses
<1>4. CASE m.operation = "invoice.pay"
  <2>1. Refusal(m) = PaymentRefusal(inv, po)
    BY <1>4 DEF Refusal, InvoiceActions
  <2>2. CASE inv.status # "APPROVED"
    <3>1. inv.status # "PENDING" /\ inv.status # "MATCHED"
      BY <1>1, <1>4, <2>1, <2>2 DEF PaymentRefusal, TooEarly
    <3> QED
      BY <1>1, <1>4, <2>2, <3>1 DEF FinallyRefused, InvoiceStatuses
  <2>3. CASE inv.status = "APPROVED"
    <3>1. po.status # "RECEIVED" /\ Refusal(m) = "PURCHASE_ORDER_INVALID_STATE"
      BY <1>1, <2>1, <2>3 DEF PaymentRefusal
    <3>2. po.status # "SUBMITTED"
      BY <1>4, <3>1 DEF TooEarly
    <3>3. po.status # "DRAFT"
      BY <1>1, NoneAssumption DEF Books, OrdersAreOpen
    <3>4. po.status # "CLOSED"
      BY <1>1, <2>3 DEF Books, PaidMeansClosed
    <3> QED
      BY <1>1, <3>1, <3>2, <3>3, <3>4 DEF PurchaseOrderStatuses
  <2> QED
    BY <2>2, <2>3
<1> QED
  BY <1>2, <1>3, <1>4 DEF InvoiceActions

(* A reply that refuses a call, but for an early stage, does so for good.  *)
LEMMA RefusalIsFinal ==
    ASSUME Books, NEW c \in Names, Exists(Calls[c]),
           Code(Calls[c]) \notin {"OK", Unavailable.code},
           <<Calls[c].operation, Reply(Calls[c]).detail>> \notin TooEarly
    PROVE  FinallyRefused(Calls[c])
<1> PICK m : m = Calls[c]
  OBVIOUS
<1> SUFFICES ASSUME WellFormed(m), ~Recorded(m.key)
             PROVE  FinallyRefused(m)
  BY DEF FinallyRefused
<1>1. EarlyAnswer(m) \in {"OK", None}
  BY DEF EarlyAnswer
<1>2. Refusal(m) = Code(m) /\ Refusal(m) # "OK"
  BY <1>1 DEF Code
<1>3. CASE m.operation = "purchase_order.create"
  BY <1>2, <1>3 DEF Refusal, InvoiceActions, FinallyRefused
<1>4. CASE m.operation \in OrderActions \cup {"invoice.create"}
  <2>1. /\ m.purchase_order_id \in PurchaseOrders
        /\ purchase_orders[m.purchase_order_id] # None
        /\ OrderNamed(m) = m.purchase_order_id
    BY <1>4, CallShape DEF Exists, OrderNamed, OrderActions, InvoiceActions
  <2>2. Code(m) = "PURCHASE_ORDER_INVALID_STATE" =>
           <<m.operation, purchase_orders[m.purchase_order_id].status>> \notin TooEarly
    BY <2>1 DEF Reply
  <2> QED
    BY <1>2, <1>4, <2>1, <2>2, OrderRefusalIsFinal
<1>5. CASE m.operation \in InvoiceActions
  <2>1. /\ m.invoice_id \in Invoices /\ invoices[m.invoice_id] # None
        /\ OrderNamed(m) = invoices[m.invoice_id].purchase_order_id
    BY <1>5, CallShape DEF Exists, OrderNamed, OrderActions, InvoiceActions
  <2>2. /\ Code(m) = "INVOICE_INVALID_STATE" =>
              <<m.operation, invoices[m.invoice_id].status>> \notin TooEarly
        /\ Code(m) = "PURCHASE_ORDER_INVALID_STATE" =>
              <<m.operation, purchase_orders[invoices[m.invoice_id].purchase_order_id].status>>
                 \notin TooEarly
    BY <2>1 DEF Reply
  <2> QED
    BY <1>2, <1>5, <2>1, <2>2, InvoiceRefusalIsFinal
<1> QED
  BY <1>3, <1>4, <1>5, CallShape

(* What was refused for good, of a document that is there, stays refused.  *)
RefusedStay ==
    \A c \in Names : RefusedForGood(c) => Exists(Calls[c]) /\ FinallyRefused(Calls[c])

(* Every step leaves it refused, and every new refusal is final.           *)
LEMMA RefusedStayStep ==
    ASSUME Books, ClientsTypeOK, InFlightExist, RefusedStay, [ClientsNext]_all_vars
    PROVE  RefusedStay'
<1> SUFFICES ASSUME NEW c \in Names, RefusedForGood(c)'
             PROVE  Exists(Calls[c])' /\ FinallyRefused(Calls[c])'
  BY DEF RefusedStay
<1>1. [Next]_vars
  BY ServiceStep DEF ClientsTypeOK
<1>2. Exists(Calls[c]) /\ FinallyRefused(Calls[c])
  <2>1. CASE told'[c] = told[c]
    BY <2>1 DEF RefusedStay, RefusedForGood
  <2>2. CASE told'[c] # told[c]
    <3>1. c \in network /\ Heard(c)
      BY <2>2, ToldMoves DEF ClientsTypeOK
    <3>2. /\ told'[c] = Reply(Calls[c])
          /\ told'[c].code \notin {"OK", Unavailable.code}
          /\ <<Calls[c].operation, told'[c].detail>> \notin TooEarly
      BY <3>1 DEF Heard, RefusedForGood
    <3>3. Code(Calls[c]) \notin {"OK", Unavailable.code}
      BY <3>2 DEF Reply
    <3>4. Exists(Calls[c])
      BY <3>1 DEF InFlightExist
    <3> QED
      BY <3>2, <3>3, <3>4, RefusalIsFinal
  <2> QED
    BY <2>1, <2>2
<1> QED
  BY <1>1, <1>2, ExistsStays, FinalStays

-----------------------------------------------------------------------------
(* Postings                                                                *)

(* Asked is not unasked.                                                   *)
LEMMA AskedStays ==
    ASSUME Books, ClientsTypeOK, [ClientsNext]_all_vars, NEW c \in Names, Asked(c)
    PROVE  Asked(c)'
<1>1. told[c] # None => told'[c] # None
  BY ToldMoves DEF ClientsTypeOK
<1>2. CASE c \in network /\ c \notin network' /\ told[c] = None
  <2>1. Silence # None /\ Unavailable # None
    BY NoneIsNoAnswer DEF Silence, Unavailable, Answers, Codes
  <2>2. Reply(Calls[c]) # None
    BY ReplyType, NoneIsNoAnswer
  <2>3. ASSUME NEW d \in network, Arrives(d), network' # network, c \in network, c \notin network'
        PROVE  d = c /\ ~Calls[c].resends
    BY <2>3 DEF Arrives
  <2>4. ASSUME NEW reply, Hears(c, reply)
        PROVE  told'[c] = reply
    BY <2>4 DEF Hears, ClientsTypeOK
  <2>5. ASSUME NEW d \in network,
               \/ Answer(d) \/ AnswerLost(d) \/ TransactionFails(d)
               \/ ReadBackFails(d) \/ TimesOut(d)
        PROVE  told'[c] # None
    <3>1. Arrives(d)
      BY <1>2, <2>5 DEF Answer, AnswerLost, TransactionFails, ReadBackFails, TimesOut, Handle
    <3>2. d = c /\ ~Calls[c].resends
      BY <1>2, <2>3, <3>1
    <3>3. \/ Hears(c, Reply(Calls[c])) \/ Hears(c, Silence) \/ Hears(c, Unavailable)
      BY <1>2, <2>5, <3>2 DEF Answer, AnswerLost, TransactionFails, ReadBackFails, TimesOut
    <3> QED
      BY <2>1, <2>2, <2>4, <3>3
  <2>6. (\E d \in desk : Make(d)) \/ NextOfWorkflow => network \subseteq network'
    BY DEF Make, NextOfWorkflow, Send
  <2>7. told'[c] # None
    BY <1>2, <2>5, <2>6 DEF ClientsNext, all_vars
  <2> QED
    BY <2>7 DEF Asked
<1> QED
  BY <1>1, <1>2 DEF Asked

(* An invoice for nothing or less was registered by an MCP client.         *)
Registered(i) ==
    \E c \in Names : /\ Asked(c)
                     /\ Calls[c].operation = "invoice.create"
                     /\ Calls[c].channel = "MCP"
                     /\ Calls[c].key = i

CheapInvoices ==
    \A i \in Invoices : (invoices[i] # None /\ invoices[i].invoice_amount <= 0) => Registered(i)

(* The HTTP schema refuses such an amount, and no step changes one.        *)
LEMMA CheapInvoicesStep ==
    ASSUME Books, ClientsTypeOK, CheapInvoices, [ClientsNext]_all_vars
    PROVE  CheapInvoices'
<1> SUFFICES ASSUME NEW i \in Invoices, invoices'[i] # None, invoices'[i].invoice_amount <= 0
             PROVE  Registered(i)'
  BY DEF CheapInvoices
<1>1. [Next]_vars /\ TypeOK
  BY ServiceStep DEF ClientsTypeOK, Books
<1>2. Registered(i) => Registered(i)'
  BY AskedStays DEF Registered
<1>3. CASE invoices[i] # None
  BY <1>1, <1>2, <1>3, InvoicesKeep DEF Books, CheapInvoices, SameInvoice
<1>4. CASE invoices[i] = None
  <2>1. PICK c \in network : TakesEffect(Calls[c]) /\ Effect(Calls[c])
    BY <1>4, ServiceMoves DEF vars, documents
  <2>2. PICK m : m = Calls[c]
    OBVIOUS
  <2>3. c \in Names /\ Asked(c)'
    BY <2>1, AskedStays DEF ClientsTypeOK, Asked
  <2>4. /\ m.operation = "invoice.create" /\ m.key = i
        /\ invoices'[i] = PendingInvoice(m.vendor_id, m.purchase_order_id, m.invoice_number,
                                         Cents(m.invoice_amount))
    BY <1>1, <1>4, <2>1, <2>2
    DEF Effect, CreatePurchaseOrder, SubmitPurchaseOrder, ReceiveGoods, CreateInvoice,
        MatchInvoice, ApproveInvoice, ApprovalRefusal, PayInvoice, TypeOK
  <2>5. Cents(m.invoice_amount) <= 0 /\ m.invoice_amount \in Int /\ m.channel \in Channels
    BY <2>2, <2>3, <2>4, CallShape DEF PendingInvoice
  <2>6. WellFormed(m)
    BY <2>1, <2>2, <2>3, <1>1, AnswerCode
  <2>7. m.channel # "HTTP"
    <3> SUFFICES ASSUME m.channel = "HTTP" PROVE FALSE
      OBVIOUS
    <3>1. m.invoice_amount > 0 /\ m.invoice_amount % 10 = 0
      BY <2>4, <2>6 DEF WellFormed
    <3> QED
      BY <2>5, <3>1 DEF Cents
  <2>8. m.channel = "MCP"
    BY <2>5, <2>7, ChannelsAssumption
  <2> QED
    BY <2>2, <2>3, <2>4, <2>8 DEF Registered
<1> QED
  BY <1>3, <1>4

-----------------------------------------------------------------------------
(* The theorems                                                            *)

(* What every step keeps, of the books and of what the clients hold.       *)
ClientsInv ==
    /\ Books /\ ClientsTypeOK
    /\ Acknowledged /\ NamedByKey /\ InFlightExist /\ RefusedStay /\ CheapInvoices

(* The API keeps it: whatever is lost, repeated or late, the books stay in *)
(* order and what a client holds fits them.                                *)
THEOREM ClientsInvariant == ClientsSpec => []ClientsInv
<1>1. ASSUME ClientsInit PROVE ClientsInv
  <2>1. Books
    BY <1>1, DemoBooks DEF ClientsInit
  <2>2. ClientsTypeOK
    BY <1>1, CallsAssumption DEF ClientsInit, ClientsTypeOK
  <2>3. \A c \in Names : told[c] = None
    BY <1>1 DEF ClientsInit
  <2>4. Acknowledged /\ RefusedStay
    BY <2>3 DEF Acknowledged, RefusedStay, Told, RefusedForGood
  <2>5. NamedByKey
    BY <1>1 DEF ClientsInit, DemoInit, NamedByKey, Recorded
  <2>6. InFlightExist
    BY <1>1 DEF ClientsInit, InFlightExist
  <2>7. CheapInvoices
    <3> SUFFICES ASSUME NEW i \in Invoices, invoices[i] # None
                 PROVE  ~(invoices[i].invoice_amount <= 0)
      BY DEF CheapInvoices
    <3>1. i \in DOMAIN DemoInvoices /\ invoices[i] = DemoInvoices[i]
      BY <1>1 DEF ClientsInit, DemoInit, Rows
    <3>2. invoices[i].invoice_amount > 0 /\ invoices[i].invoice_amount \in Int
      BY <3>1, DemoInvoicesFit, AmountsAssumption DEF Invoice
    <3> QED
      BY <3>2
  <2> QED
    BY <2>1, <2>2, <2>4, <2>5, <2>6, <2>7 DEF ClientsInv
<1>2. ASSUME ClientsInv, [ClientsNext]_all_vars PROVE ClientsInv'
  <2>1. [Next]_vars /\ Books'
    BY <1>2, ServiceStep, BooksKept DEF ClientsInv, ClientsTypeOK
  <2>2. ClientsTypeOK' /\ Acknowledged' /\ NamedByKey'
    BY <1>2, ClientsTypeStep, AcknowledgedStep, NamedByKeyStep DEF ClientsInv, ClientsTypeOK
  <2>3. InFlightExist' /\ RefusedStay' /\ CheapInvoices'
    BY <1>2, InFlightExistStep, RefusedStayStep, CheapInvoicesStep DEF ClientsInv
  <2> QED
    BY <2>1, <2>2, <2>3 DEF ClientsInv
<1> QED
  BY <1>1, <1>2, PTL DEF ClientsSpec

(* What is on record under the key of a call is what the call asked for.   *)
LEMMA RecordedIsDone ==
    ASSUME Books, NamedByKey, NEW c \in Names, NEW detail,
           OnRecord(Calls[c], Fingerprint(Calls[c]), detail)
    PROVE  Done(Calls[c])
<1> PICK m : m = Calls[c]
  OBVIOUS
<1> SUFFICES Done(m)
  OBVIOUS
<1> DEFINE request == idempotency_keys[m.key].request
           id == idempotency_keys[m.key].resource_id
<1>1. /\ m.key \in Keys /\ Recorded(m.key) /\ request = Fingerprint(m)
      /\ request.operation = m.operation
  BY CallShape, FingerprintOperation DEF OnRecord
<1>2. RecordDone(m.key, request, id)
  BY <1>1 DEF Books, RecordsAreDone
<1>3. m.operation \in {"purchase_order.create", "invoice.create"} => id = m.key
  BY <1>1 DEF NamedByKey
<1> HIDE DEF request, id
<1>4. CASE m.operation = "purchase_order.create"
  <2>1. request = CreateOrderRequest(m.vendor_id, Ordered(m))
    BY <1>1, <1>4 DEF Fingerprint, InvoiceActions
  <2>2. /\ purchase_orders[m.key] # None
        /\ purchase_orders[m.key].vendor_id = m.vendor_id
        /\ purchase_orders[m.key].qty_ordered = Ordered(m).qty_ordered
        /\ purchase_orders[m.key].unit_cost = Ordered(m).unit_cost
    BY <1>1, <1>2, <1>3, <1>4, <2>1 DEF RecordDone, CreateOrderRequest
  <2>3. ASSUME NEW l \in DOMAIN m.lines
        PROVE  /\ Ordered(m).qty_ordered[l] = m.lines[l].qty
               /\ WithinHalfACent(Ordered(m).unit_cost[l], m.lines[l].unit_cost)
    BY <1>4, EntryShape, RoundingIsNear DEF Ordered
  <2> QED
    BY <1>4, <2>2, <2>3 DEF Done, OrderActions, InvoiceActions
<1>5. CASE m.operation = "purchase_order.submit"
  BY <1>1, <1>2, <1>5 DEF Fingerprint, InvoiceActions, RecordDone, Done
<1>6. CASE m.operation = "purchase_order.receive"
  BY <1>1, <1>2, <1>6 DEF Fingerprint, InvoiceActions, ReceiveRequest, RecordDone, Done
<1>7. CASE m.operation = "invoice.create"
  <2>1. request = CreateInvoiceRequest(m.vendor_id, m.purchase_order_id, m.invoice_number,
                                       Cents(m.invoice_amount))
    BY <1>1, <1>7 DEF Fingerprint, InvoiceActions
  <2>2. /\ invoices[m.key] # None
        /\ invoices[m.key].purchase_order_id = m.purchase_order_id
        /\ invoices[m.key].invoice_number = m.invoice_number
        /\ invoices[m.key].invoice_amount = Cents(m.invoice_amount)
    BY <1>1, <1>2, <1>3, <1>7, <2>1 DEF RecordDone, CreateInvoiceRequest
  <2>3. WithinHalfACent(Cents(m.invoice_amount), m.invoice_amount)
    BY <1>7, CallShape, RoundingIsNear
  <2> QED
    BY <1>7, <2>2, <2>3 DEF Done
<1>8. CASE m.operation \in InvoiceActions
  <2>1. request.invoice_id = m.invoice_id
    BY <1>1, <1>8 DEF Fingerprint, InvoiceActions
  <2> QED
    BY <1>1, <1>2, <1>8, <2>1 DEF InvoiceActions, RecordDone, Done
<1> QED
  BY <1>4, <1>5, <1>6, <1>7, <1>8, CallShape DEF OrderActions

(* A success that a client was told of is on the books as it was sent, to  *)
(* the half cent, and stays there.                                         *)
THEOREM AcknowledgementsHold == ClientsSpec => []AcknowledgedIsDone
<1>1. ClientsInv => AcknowledgedIsDone
  BY RecordedIsDone DEF ClientsInv, Acknowledged, AcknowledgedIsDone, Excepted
<1> QED
  BY <1>1, ClientsInvariant, PTL

(* A refusal that was not for an early stage is final: no duplicate of the *)
(* call takes effect later.                                                *)
THEOREM RefusalsHold == ClientsSpec => []RefusalsAreFinal
<1>1. ClientsInv => RefusalsAreFinal
  BY FinalBlocks DEF ClientsInv, ClientsTypeOK, RefusedStay, RefusalsAreFinal
<1> QED
  BY <1>1, ClientsInvariant, PTL

(* An entry of zero or below is that of an invoice an MCP client           *)
(* registered.                                                             *)
THEOREM OnlyMCPsPostNegative == ClientsSpec => []NegativePostingsAreMCPs
<1>1. ASSUME ClientsInv, NEW e \in gl_entries, e.debit + e.credit <= 0
      PROVE  \E c \in Names : /\ Asked(c)
                              /\ Calls[c].operation = "invoice.create"
                              /\ Calls[c].channel = "MCP"
                              /\ Calls[c].key = e.invoice_id
  <2>1. e.invoice_id \in Invoices
    BY <1>1 DEF ClientsInv, Books, TypeOK, GLEntry
  <2>2. /\ invoices[e.invoice_id] # None
        /\ invoices[e.invoice_id].invoice_amount <= 0
    BY <1>1 DEF ClientsInv, Books, EntriesAreInvoices
  <2> QED
    BY <1>1, <2>1, <2>2 DEF ClientsInv, CheapInvoices, Registered
<1>2. ClientsInv => NegativePostingsAreMCPs
  BY <1>1 DEF NegativePostingsAreMCPs
<1> QED
  BY <1>2, ClientsInvariant, PTL

(* What is received of a complete order is worth what was ordered.         *)
LEMMA CompleteIsWorthAll ==
    ASSUME NEW po \in PurchaseOrder, FullyReceived(po)
    PROVE  ReceivedValue(po) = OrderedValue(po)
<1>1. po.qty_received = po.qty_ordered
  BY DEF FullyReceived, PurchaseOrder, LineQuantities
<1> QED
  BY <1>1 DEF ReceivedValue, OrderedValue

(* A match's advice, still true of its documents, is sound.                *)
LEMMA MatchAdviceIsSound ==
    ASSUME Books, NEW snapshot, Advises(snapshot)
    PROVE  LET inv == invoices[snapshot.invoice_id]
               po == purchase_orders[inv.purchase_order_id]
           IN  /\ snapshot.next_action = "WAIT_FOR_RECEIPT" =>
                     (FullyReceived(po) => inv.invoice_amount <= ReceivedValue(po))
               /\ snapshot.next_action = "CORRECT_INVOICE" => inv.status = "PENDING"
               /\ snapshot.next_action = "PROCEED_TO_APPROVAL" => inv.status # "PENDING"
<1> DEFINE i == snapshot.invoice_id
           inv == invoices[i]
           p == inv.purchase_order_id
           po == purchase_orders[p]
<1>1. /\ i \in Invoices /\ inv # None /\ inv.invoice_amount \in Int
      /\ p \in PurchaseOrders /\ po \in PurchaseOrder /\ po # None
  BY LinkedOrder, AmountsAssumption DEF Advises, Books, Invoice
<1>2. snapshot.next_action = "WAIT_FOR_RECEIPT" /\ FullyReceived(po)
         => inv.invoice_amount <= ReceivedValue(po)
  BY <1>1, CompleteIsWorthAll DEF Advises
<1>3. snapshot.next_action = "CORRECT_INVOICE" => inv.status = "PENDING"
  <2>1. ReceivedValue(po) \in Int /\ OrderedValue(po) \in Int
    BY <1>1, LineValueType DEF ReceivedValue, OrderedValue, PurchaseOrder
  <2>2. ReceivedValue(po) <= OrderedValue(po)
    BY <1>1, ReceivedWithinOrdered DEF Books, NeverOverReceived
  <2>3. inv.status # "PENDING" => inv.invoice_amount <= ReceivedValue(po)
    BY <1>1 DEF Books, Covered
  <2>4. snapshot.next_action = "CORRECT_INVOICE" => OrderedValue(po) < inv.invoice_amount
    BY DEF Advises
  <2> QED
    BY <1>1, <2>1, <2>2, <2>3, <2>4
<1> QED
  BY <1>2, <1>3 DEF Advises

(* An invoice with the stamp of an approval can be paid, has been, or      *)
(* waits for goods.                                                        *)
LEMMA ApprovedIsPayable ==
    ASSUME Books, NEW i \in Invoices, invoices[i] # None, invoices[i].approved_at # None
    PROVE  LET inv == invoices[i]
               po == purchase_orders[inv.purchase_order_id]
           IN  \/ inv.status = "PAID"
               \/ PaymentRefusal(inv, po) = "OK"
               \/ inv.status = "APPROVED" /\ po.status = "SUBMITTED" /\ ~FullyReceived(po)
<1> DEFINE inv == invoices[i]
           p == inv.purchase_order_id
           po == purchase_orders[p]
<1>1. /\ p \in PurchaseOrders /\ po # None /\ po.invoice_id = i
      /\ po.status \in PurchaseOrderStatuses
  BY LinkedOrder DEF Books, InvoiceLinks, PurchaseOrder
<1>2. inv.status \in {"APPROVED", "PAID"}
  BY DEF Books, StampsFollow
<1>3. po.status # "DRAFT" /\ (po.status = "SUBMITTED" => ~FullyReceived(po))
  BY <1>1, NoneAssumption DEF Books, OrdersAreOpen
<1>4. po.status = "CLOSED" => inv.status = "PAID"
  BY <1>1 DEF Books, PaidMeansClosed
<1> QED
  BY <1>1, <1>2, <1>3, <1>4 DEF PaymentRefusal, PurchaseOrderStatuses

(* The next_action a client was given stays good advice.                   *)
THEOREM GuidanceHolds == ClientsSpec => []GuidanceIsSound
<1>1. ASSUME ClientsInv, NEW c \in Names, Told(c, "OK"), Calls[c].operation \in InvoiceActions
      PROVE  LET inv == invoices[Calls[c].invoice_id]
                 po == purchase_orders[inv.purchase_order_id]
             IN  CASE told[c].detail = "WAIT_FOR_RECEIPT" ->
                        FullyReceived(po) => inv.invoice_amount <= ReceivedValue(po)
                   [] told[c].detail = "CORRECT_INVOICE" -> inv.status = "PENDING"
                   [] told[c].detail = "PROCEED_TO_APPROVAL" -> inv.status # "PENDING"
                   [] told[c].detail = "MARK_PAID" ->
                        \/ inv.status = "PAID"
                        \/ PaymentRefusal(inv, po) = "OK"
                        \/ inv.status = "APPROVED" /\ po.status = "SUBMITTED" /\ ~FullyReceived(po)
                   [] OTHER -> TRUE
  <2> PICK m, detail : m = Calls[c] /\ detail = told[c].detail
    OBVIOUS
  <2>1. Books /\ NamedByKey
    BY <1>1 DEF ClientsInv
  <2>2. OnRecord(m, Fingerprint(m), detail) /\ m.key \in Keys /\ m.key # None
    BY <1>1, CallShape, NoneAssumption DEF ClientsInv, Acknowledged, Excepted, InvoiceActions
  <2>3. /\ idempotency_keys[m.key].request.operation = m.operation
        /\ idempotency_keys[m.key].request.invoice_id = m.invoice_id
    BY <1>1, <2>2, FingerprintOperation DEF OnRecord, Fingerprint, InvoiceActions
  <2>4. RecordDone(m.key, idempotency_keys[m.key].request, idempotency_keys[m.key].resource_id)
    BY <2>1, <2>2 DEF OnRecord, Books, RecordsAreDone
  <2>5. CASE m.operation = "invoice.match"
    <3>1. PICK snapshot : snapshot = invoice_match_snapshots[m.key]
      OBVIOUS
    <3>2. /\ snapshot # None /\ snapshot.invoice_id = m.invoice_id
          /\ detail = snapshot.next_action
      BY <2>2, <2>3, <2>4, <2>5, <3>1 DEF RecordDone, OnRecord
    <3>3. Advises(snapshot) /\ snapshot \in MatchSnapshot
      BY <2>1, <2>2, <3>1, <3>2 DEF Books, SnapshotsAdvise, TypeOK
    <3>4. detail \in {"WAIT_FOR_RECEIPT", "CORRECT_INVOICE", "PROCEED_TO_APPROVAL"}
      BY <3>2, <3>3 DEF MatchSnapshot
    <3> QED
      BY <2>1, <3>2, <3>3, <3>4, MatchAdviceIsSound
  <2>6. CASE m.operation = "invoice.approve"
    <3>1. /\ m.invoice_id \in Invoices /\ invoices[m.invoice_id] # None
          /\ invoices[m.invoice_id].approved_at # None
          /\ detail = "MARK_PAID"
      BY <2>2, <2>3, <2>4, <2>6 DEF RecordDone, OnRecord
    <3> QED
      BY <2>1, <3>1, ApprovedIsPayable
  <2>7. CASE m.operation = "invoice.pay"
    <3>1. detail = "COMPLETE"
      BY <2>2, <2>7 DEF OnRecord
    <3> QED
      BY <3>1
  <2> QED
    BY <1>1, <2>5, <2>6, <2>7 DEF InvoiceActions
<1>2. ClientsInv => GuidanceIsSound
  BY <1>1 DEF GuidanceIsSound
<1> QED
  BY <1>2, ClientsInvariant, PTL

(* A database that starts with the demo rows keeps its books as well as an *)
(* empty one, the ledger apart: every order agrees with its invoice and is *)
(* not over-received, every payment follows the delivery, and every match  *)
(* is covered.                                                             *)
THEOREM DemoBooksHold ==
    ClientsSpec => [](TypeOK /\ NeverOverReceived /\ InvoiceLinks /\ PaidMeansDelivered
                      /\ MatchedStaysCovered)
<1>1. ASSUME Books, NEW i \in Invoices, invoices[i] # None
      PROVE  LET po == purchase_orders[invoices[i].purchase_order_id]
             IN  /\ invoices[i].status = "PAID" <=> po.status = "CLOSED"
                 /\ invoices[i].status = "PAID" => FullyReceived(po)
  BY <1>1, LinkedOrder DEF Books, NeverOverReceived, PaidMeansClosed
<1>2. ASSUME Books, NEW i \in Invoices, invoices[i] # None, invoices[i].status # "PENDING"
      PROVE  LET po == purchase_orders[invoices[i].purchase_order_id]
             IN  /\ invoices[i].last_match_outcome \in {"MATCHED_WITH_WARNING", "MATCHED"}
                 /\ invoices[i].invoice_amount <= ReceivedValue(po)
                 /\ ReceivedValue(po) <= OrderedValue(po)
  <2>1. LET p == invoices[i].purchase_order_id
        IN  /\ p \in PurchaseOrders /\ purchase_orders[p] # None
            /\ purchase_orders[p] \in PurchaseOrder
    BY <1>2, LinkedOrder DEF Books
  <2> QED
    BY <1>2, <2>1, ReceivedWithinOrdered DEF Books, Covered, NeverOverReceived
<1>3. ClientsInv => TypeOK /\ NeverOverReceived /\ InvoiceLinks
  BY DEF ClientsInv, Books
<1>4. ClientsInv => PaidMeansDelivered /\ MatchedStaysCovered
  BY <1>1, <1>2 DEF ClientsInv, PaidMeansDelivered, MatchedStaysCovered
<1> QED
  BY <1>3, <1>4, ClientsInvariant, PTL

-----------------------------------------------------------------------------
(* Totals of a seeded database                                             *)

(* The service on the demo rows, its credit checks included.               *)
DemoSpec == DemoInit /\ [][Next]_vars

(* The books hold for any requests, not only those of clients.             *)
THEOREM SeededBooksHold == DemoSpec => []Books
<1> QED
  BY DemoBooks, BooksKept, PTL DEF DemoSpec

(* What clients do with the service is a behaviour of it.                  *)
THEOREM ClientsUseTheService == ClientsSpec => DemoSpec
<1>1. ClientsInit => DemoInit
  BY DEF ClientsInit
<1>2. ClientsInv /\ [ClientsNext]_all_vars => [Next]_vars
  BY ServiceStep DEF ClientsInv, ClientsTypeOK
<1> QED
  BY <1>1, <1>2, ClientsInvariant, PTL DEF ClientsSpec, DemoSpec

(* The demo receipts, one by one.                                          *)
LEMMA DemoReceiptRows ==
    ASSUME DemoInit, NEW k \in Keys, goods_receipts[k] # None
    PROVE  \/ k = "seed-gr-200-01" /\ goods_receipts[k] = DemoReceipt("PO-200", 60)
           \/ k = "seed-gr-1002-01" /\ goods_receipts[k] = DemoReceipt("PO-1002", 1)
           \/ k = "seed-gr-1003-01" /\ goods_receipts[k] = DemoReceipt("PO-1003", 1)
           \/ k = "seed-gr-2001-01" /\ goods_receipts[k] = DemoReceipt("PO-2001", 1)
BY DEF DemoInit, Rows, DemoReceipts

(* The demo tables are finite, and every demo order counts what its one    *)
(* receipt, if it has one, brought.                                        *)
LEMMA DemoAddsUp ==
    ASSUME DemoInit
    PROVE  FinitelyManyRows /\ ReceiptsHaveOrders /\ ReceiptsAddUp
<1> DEFINE receiptKeys == {"seed-gr-200-01", "seed-gr-1002-01", "seed-gr-1003-01", "seed-gr-2001-01"}
           invoiceIds == {"INV-1001", "INV-1002", "INV-1003", "INV-2001"}
           Arrived(p, l) == SumOver(QuantitiesOf(goods_receipts, ReceiptsOf(goods_receipts, p), l),
                                    ReceiptsOf(goods_receipts, p))
<1>1. FinitelyManyRows
  <2>1. IsFiniteSet(receiptKeys) /\ IsFiniteSet(invoiceIds)
    <3>1. \A a, b : IsFiniteSet({a, b})
      <4> SUFFICES ASSUME NEW a, NEW b PROVE IsFiniteSet({a, b})
        OBVIOUS
      <4>1. IsFiniteSet({a}) /\ IsFiniteSet({b})
        BY FS_Singleton
      <4>2. IsFiniteSet({a} \cup {b})
        BY <4>1, FS_Union
      <4>3. {a, b} = {a} \cup {b}
        OBVIOUS
      <4> QED
        BY <4>2, <4>3
    <3>2. \A a, b, c, d : IsFiniteSet({a, b, c, d})
      <4> SUFFICES ASSUME NEW a, NEW b, NEW c, NEW d PROVE IsFiniteSet({a, b, c, d})
        OBVIOUS
      <4>1. IsFiniteSet({a, b} \cup {c, d})
        BY <3>1, FS_Union
      <4>2. {a, b, c, d} = {a, b} \cup {c, d}
        OBVIOUS
      <4> QED
        BY <4>1, <4>2
    <3> QED
      BY <3>2
  <2>2. {k \in Keys : goods_receipts[k] # None} \subseteq receiptKeys
    BY DemoReceiptRows
  <2>3. {i \in Invoices : invoices[i] # None} \subseteq invoiceIds
    BY DEF DemoInit, Rows, DemoInvoices
  <2> QED
    BY <2>1, <2>2, <2>3, FS_Subset DEF FinitelyManyRows
<1>2. \A p \in DOMAIN DemoPurchaseOrders :
        p \in PurchaseOrders /\ purchase_orders[p] = DemoPurchaseOrders[p]
        /\ purchase_orders[p] # None
  BY DemoFits, DemoOrdersFit, NoneAssumption DEF DemoInit, Rows
<1>3. ReceiptsHaveOrders
  <2> SUFFICES ASSUME NEW k \in Keys, goods_receipts[k] # None
               PROVE  goods_receipts[k].po_id \in DOMAIN DemoPurchaseOrders
    BY <1>2 DEF ReceiptsHaveOrders
  <2> QED
    BY DemoReceiptRows DEF DemoReceipt, DemoPurchaseOrders
<1>4. receiptKeys \subseteq Keys /\ \A k \in receiptKeys : goods_receipts[k] = DemoReceipts[k]
  BY DemoFits DEF DemoInit, Rows, DemoKeys, DemoReceipts
<1>5. /\ goods_receipts["seed-gr-200-01"] = DemoReceipt("PO-200", 60)
      /\ goods_receipts["seed-gr-1002-01"] = DemoReceipt("PO-1002", 1)
      /\ goods_receipts["seed-gr-1003-01"] = DemoReceipt("PO-1003", 1)
      /\ goods_receipts["seed-gr-2001-01"] = DemoReceipt("PO-2001", 1)
  BY <1>4 DEF DemoReceipts
<1>6. \A p, n : DemoReceipt(p, n).po_id = p /\ DemoReceipt(p, n).line_items = OnFirstLine(n)
  BY DEF DemoReceipt
<1>7. \A k \in receiptKeys : goods_receipts[k] \in GoodsReceipt /\ goods_receipts[k] # None
  <2>1. \A k \in DOMAIN DemoReceipts : DemoReceipts[k] \in GoodsReceipt
    BY DemoFits, FirstLineQuantities
    DEF DemoReceipts, DemoReceipt, GoodsReceipt, DemoPurchaseOrders
  <2>2. receiptKeys = DOMAIN DemoReceipts
    BY DEF DemoReceipts
  <2> QED
    BY <1>4, <2>1, <2>2, NoneIsNoRow
<1>8. ASSUME NEW p, NEW k \in receiptKeys, NEW l \in Lines, ReceiptsOf(goods_receipts, p) = {k}
      PROVE  Arrived(p, l) = goods_receipts[k].line_items[l]
  <2> DEFINE quantities == QuantitiesOf(goods_receipts, {k}, l)
  <2>1. quantities[k] = goods_receipts[k].line_items[l]
    BY DEF QuantitiesOf
  <2>2. goods_receipts[k].line_items[l] \in Int
    BY <1>7 DEF GoodsReceipt, LineQuantities
  <2> HIDE DEF quantities
  <2>3. SumOver(quantities, {k}) = goods_receipts[k].line_items[l]
    BY <2>1, <2>2, SumOfOne
  <2> QED
    BY <1>8, <2>3 DEF quantities
<1>0. \A p, l : ReceiptsOf(goods_receipts, p) = {} => Arrived(p, l) = 0
  BY SumEmpty
<1> HIDE DEF Arrived
<1>9. ASSUME NEW p \in DOMAIN DemoPurchaseOrders, NEW l \in Lines
      PROVE  DemoPurchaseOrders[p].qty_received[l] = Arrived(p, l)
  <2>0. \A v, s, o, r, c, i : DemoOrder(v, s, o, r, c, i).qty_received = OnFirstLine(r)
    BY DEF DemoOrder
  <2>1. CASE p = "PO-200"
    <3>1. ReceiptsOf(goods_receipts, p) = {"seed-gr-200-01"}
      BY <1>4, <1>5, <1>6, <1>7, <2>1, DemoReceiptRows DEF ReceiptsOf
    <3>2. DemoPurchaseOrders[p].qty_received = OnFirstLine(60)
      BY <2>0, <2>1, DemoOrderRows
    <3> QED
      BY <1>5, <1>6, <1>8, <2>1, <3>1, <3>2
  <2>2. CASE p = "PO-1001"
    <3>1. ReceiptsOf(goods_receipts, p) = {}
      BY <1>6, <2>2, DemoReceiptRows DEF ReceiptsOf
    <3>2. DemoPurchaseOrders[p].qty_received = OnFirstLine(0)
      BY <2>0, <2>2, DemoOrderRows
    <3>3. OnFirstLine(0)[l] = 0
      BY DEF OnFirstLine
    <3> QED
      BY <1>0, <3>1, <3>2, <3>3
  <2>3. CASE p = "PO-1002"
    <3>1. ReceiptsOf(goods_receipts, p) = {"seed-gr-1002-01"}
      BY <1>4, <1>5, <1>6, <1>7, <2>3, DemoReceiptRows DEF ReceiptsOf
    <3>2. DemoPurchaseOrders[p].qty_received = OnFirstLine(1)
      BY <2>0, <2>3, DemoOrderRows
    <3> QED
      BY <1>5, <1>6, <1>8, <2>3, <3>1, <3>2
  <2>4. CASE p = "PO-1003"
    <3>1. ReceiptsOf(goods_receipts, p) = {"seed-gr-1003-01"}
      BY <1>4, <1>5, <1>6, <1>7, <2>4, DemoReceiptRows DEF ReceiptsOf
    <3>2. DemoPurchaseOrders[p].qty_received = OnFirstLine(1)
      BY <2>0, <2>4, DemoOrderRows
    <3> QED
      BY <1>5, <1>6, <1>8, <2>4, <3>1, <3>2
  <2>5. CASE p = "PO-2001"
    <3>1. ReceiptsOf(goods_receipts, p) = {"seed-gr-2001-01"}
      BY <1>4, <1>5, <1>6, <1>7, <2>5, DemoReceiptRows DEF ReceiptsOf
    <3>2. DemoPurchaseOrders[p].qty_received = OnFirstLine(1)
      BY <2>0, <2>5, DemoOrderRows
    <3> QED
      BY <1>5, <1>6, <1>8, <2>5, <3>1, <3>2
  <2> QED
    BY <2>1, <2>2, <2>3, <2>4, <2>5, DemoOrderRows
<1>10. ReceiptsAddUp
  <2>1. \A p \in PurchaseOrders : purchase_orders[p] # None =>
          p \in DOMAIN DemoPurchaseOrders /\ purchase_orders[p] = DemoPurchaseOrders[p]
    BY DEF DemoInit, Rows
  <2>2. AddUp(purchase_orders, goods_receipts)
    BY <1>9, <2>1 DEF AddUp, Arrived
  <2> QED
    BY <2>2, ReceiptsAddUpAsSums
<1> QED
  BY <1>1, <1>3, <1>10

(* From the demo rows on, too, what a line counts as received is the sum   *)
(* of its receipts.                                                        *)
THEOREM SeededReceiptsAddUp == DemoSpec => []ReceiptsAddUp
<1> DEFINE Totals == FinitelyManyRows /\ ReceiptsHaveOrders /\ ReceiptsAddUp
<1>1. DemoInit => Totals
  BY DemoAddsUp
<1>2. Books /\ Totals /\ [Next]_vars => Totals'
  BY FinitelyManyRowsStep, ReceiptsHaveOrdersStep, ReceiptsAddUpStep DEF Books
<1>3. Totals => ReceiptsAddUp
  OBVIOUS
<1> HIDE DEF Totals
<1> QED
  BY <1>1, <1>2, <1>3, SeededBooksHold, PTL DEF DemoSpec

(* No demo vendor is above its limit.                                      *)
LEMMA DemoWithinLimits ==
    ASSUME DemoInit, NEW v \in Vendors
    PROVE  Exposure(invoices, v) <= CreditLimit[v]
<1>1. DOMAIN DemoInvoices = {"INV-1001", "INV-1002", "INV-1003", "INV-2001"}
  BY DEF DemoInvoices
<1>2. \A i \in Invoices : invoices[i] # None =>
        i \in DOMAIN DemoInvoices /\ invoices[i] = DemoInvoices[i]
  BY DEF DemoInit, Rows
<1>3. \A i \in DOMAIN DemoInvoices :
        i \in Invoices /\ invoices[i] = DemoInvoices[i] /\ invoices[i] # None
  BY DemoFits, DemoInvoicesFit, NoneAssumption DEF DemoInit, Rows
<1> DEFINE amounts == AmountsOf(invoices, Owed(invoices, v))
<1>4. Exposure(invoices, v) = SumOver(amounts, Owed(invoices, v))
  BY ExposureSum
<1>5. CASE v = "V-100"
  <2>1. /\ invoices["INV-1001"] = DemoInvoice("V-100", "PO-1001", "A1001", 125000, "PENDING", "NONE", None)
        /\ invoices["INV-1002"] = DemoInvoice("V-100", "PO-1002", "A1002", 50000, "APPROVED", "MATCHED", SeededAt)
    BY <1>1, <1>3, DemoInvoiceRows
  <2>2. Owed(invoices, v) = {"INV-1001", "INV-1002"}
    BY <1>1, <1>2, <1>3, <1>5, DemoInvoiceRows DEF Owed, DemoInvoice, UnpaidStatuses
  <2>3. amounts["INV-1001"] = 125000 /\ amounts["INV-1002"] = 50000
    BY <2>1, <2>2 DEF AmountsOf, DemoInvoice
  <2>4. /\ IsFiniteSet({"INV-1001", "INV-1002"})
        /\ {"INV-1001", "INV-1002"} \ {"INV-1001"} = {"INV-1002"}
    <3>1. IsFiniteSet({"INV-1001"})
          /\ {"INV-1001", "INV-1002"} = {"INV-1001"} \cup {"INV-1002"}
      BY FS_Singleton
    <3> QED
      BY <3>1, FS_AddElement
  <2> HIDE DEF amounts
  <2>5. SumOver(amounts, {"INV-1001", "INV-1002"}) = 125000 + SumOver(amounts, {"INV-1002"})
    BY <2>3, <2>4, SumTakes
  <2>6. SumOver(amounts, {"INV-1002"}) = 50000
    BY <2>3, SumOfOne
  <2>7. CreditLimit[v] = 200000
    BY <1>5, DemoFits DEF DemoCreditLimit
  <2> QED
    BY <1>4, <2>2, <2>5, <2>6, <2>7
<1>6. CASE v = "V-200"
  <2>1. Owed(invoices, v) = {}
    BY <1>2, <1>6, DemoInvoiceRows DEF Owed, DemoInvoice
  <2>2. CreditLimit[v] = 500000
    BY <1>6, DemoFits DEF DemoCreditLimit
  <2> QED
    BY <1>4, <2>1, <2>2, SumEmpty
<1>7. CASE v = "V-300"
  <2>1. invoices["INV-2001"] = DemoInvoice("V-300", "PO-2001", "D2001", 30000, "MATCHED", "MATCHED", SeededAt)
    BY <1>1, <1>3, DemoInvoiceRows
  <2>2. Owed(invoices, v) = {"INV-2001"}
    BY <1>1, <1>2, <1>3, <1>7, DemoInvoiceRows DEF Owed, DemoInvoice, UnpaidStatuses
  <2>3. amounts["INV-2001"] = 30000
    BY <2>1, <2>2 DEF AmountsOf, DemoInvoice
  <2> HIDE DEF amounts
  <2>4. SumOver(amounts, {"INV-2001"}) = 30000
    BY <2>3, SumOfOne
  <2>5. CreditLimit[v] = 100000
    BY <1>7, DemoFits DEF DemoCreditLimit
  <2> QED
    BY <1>4, <2>2, <2>4, <2>5
<1> QED
  BY <1>5, <1>6, <1>7, DemoFits DEF DemoVendors

(* Nor does a vendor of a seeded database get above it unseen, if amounts  *)
(* are naturals.                                                           *)
THEOREM NoSeededBreachIsSilent ==
    ASSUME Amounts \subseteq Nat
    PROVE  DemoSpec => []NoSilentBreach
<1> DEFINE Seen == FinitelyManyRows /\ ChecksHaveRequests /\ NoSilentBreach
<1>1. DemoInit => Seen
  <2> SUFFICES ASSUME DemoInit PROVE Seen
    OBVIOUS
  <2>1. ChecksHaveRequests
    BY DEF DemoInit, ChecksHaveRequests
  <2>2. FinitelyManyRows
    BY DemoAddsUp
  <2>3. NoSilentBreach
    <3>1. TypeOK
      BY DemoBooks DEF Books
    <3>2. \A v \in Vendors : ~(Exposure(invoices, v) > CreditLimit[v])
      BY <2>2, <3>1, DemoWithinLimits, ExposureType, CreditLimitAssumption
    <3> QED
      BY <3>2 DEF NoSilentBreach
  <2> QED
    BY <2>1, <2>2, <2>3
<1>2. Books /\ Seen /\ [Next]_vars => Seen'
  BY FinitelyManyRowsStep, ChecksHaveRequestsStep, NoSilentBreachStep DEF Books
<1>3. Seen => NoSilentBreach
  OBVIOUS
<1> HIDE DEF Seen
<1> QED
  BY <1>1, <1>2, <1>3, SeededBooksHold, PTL DEF DemoSpec

-----------------------------------------------------------------------------
(* The ledger, the retries and the documents of a seeded database          *)

(* PostedOnce without the demo's approvals, which posted nothing: the      *)
(* ledger holds the pair of every approval that stamped its invoice, and   *)
(* nothing else.                                                           *)
LedgerFollowsStamps ==
    \A i \in Invoices :
        PostedFor(i) =
            IF invoices[i] # None /\ invoices[i].approved_at # None
            THEN BalancedGLEntries(invoices[i].approved_at, i, invoices[i].invoice_amount)
            ELSE {}

(* An approval posts the pair and stamps the invoice; no other step does   *)
(* either.                                                                 *)
LEMMA LedgerFollowsStampsStep ==
    ASSUME TypeOK, StampsFollow, LedgerFollowsStamps, [Next]_vars
    PROVE  LedgerFollowsStamps'
<1> USE DEF LedgerFollowsStamps
<1>1. CASE UNCHANGED <<invoices, gl_entries>>
  BY <1>1 DEF PostedFor
<1>2. ASSUME NEW k \in Keys, NEW i \in Invoices, NEW new \in Invoice,
             invoices' = [invoices EXCEPT ![i] = new],
             \/ IsCreated(invoices[i], new)
             \/ IsMatched(invoices[i], new)
             \/ IsApproved(k, i, invoices[i], new)
             \/ IsPaid(k, invoices[i], new)
      PROVE  LedgerFollowsStamps'
  <2>1. invoices'[i] = new /\ \A j \in Invoices : j # i => invoices'[j] = invoices[j]
    BY <1>2 DEF TypeOK
  <2>2. new # None /\ k # None
    BY NoneAssumption
  <2>3. CASE UNCHANGED gl_entries
    <3>1. \A j \in Invoices : PostedFor(j)' = PostedFor(j)
      BY <2>3 DEF PostedFor
    <3>2. \/ invoices[i] = None /\ new.approved_at = None
          \/ /\ invoices[i] # None
             /\ new.approved_at = invoices[i].approved_at
             /\ new.invoice_amount = invoices[i].invoice_amount
          \/ IsApproved(k, i, invoices[i], new)
      BY <1>2 DEF IsCreated, IsMatched, IsPaid, SameInvoice
    <3>3. CASE ~IsApproved(k, i, invoices[i], new)
      BY <2>1, <2>2, <3>1, <3>2, <3>3
    <3>4. ASSUME IsApproved(k, i, invoices[i], new) PROVE FALSE
      <4>1. BalancedGLEntries(k, i, invoices[i].invoice_amount) \subseteq PostedFor(i)
        BY <2>3, <3>4 DEF IsApproved, BalancedGLEntries, PostedFor
      <4>2. PostedFor(i) = {}
        BY <3>4 DEF IsApproved, SameInvoice, StampsFollow
      <4> QED
        BY <4>1, <4>2 DEF BalancedGLEntries
    <3> QED
      BY <3>3, <3>4
  <2>4. CASE IsApproved(k, i, invoices[i], new)
    <3> DEFINE entries == BalancedGLEntries(k, i, invoices[i].invoice_amount)
    <3>1. \A e \in entries : e.invoice_id = i
      BY DEF BalancedGLEntries
    <3>2. gl_entries' = gl_entries \cup entries
      BY <2>4 DEF IsApproved
    <3> HIDE DEF entries
    <3>3. PostedFor(i) = {}
      BY <2>4 DEF IsApproved, SameInvoice, StampsFollow
    <3>4. PostedFor(i)' = entries
      BY <3>1, <3>2, <3>3 DEF PostedFor
    <3>5. \A j \in Invoices : j # i => PostedFor(j)' = PostedFor(j)
      BY <3>1, <3>2 DEF PostedFor
    <3>6. entries = BalancedGLEntries(new.approved_at, i, new.invoice_amount)
      BY <2>4 DEF IsApproved, SameInvoice, entries
    <3>7. new.approved_at # None
      BY <2>2, <2>4 DEF IsApproved
    <3> QED
      BY <2>1, <2>2, <3>4, <3>5, <3>6, <3>7
  <2> QED
    BY <1>2, <2>3, <2>4 DEF IsCreated, IsMatched, IsPaid
<1> QED
  BY <1>1, <1>2, InvoiceMoves

(* An approval of a seeded database, the demo's own excepted, is posted    *)
(* once, as one balanced pair.                                             *)
THEOREM SeededLedgerPostedOnce == DemoSpec => []LedgerFollowsStamps
<1>1. DemoInit => LedgerFollowsStamps
  <2> SUFFICES ASSUME DemoInit, NEW i \in Invoices, invoices[i] # None
               PROVE  invoices[i].approved_at = None
    BY DEF DemoInit, LedgerFollowsStamps, PostedFor
  <2>1. i \in DOMAIN DemoInvoices /\ invoices[i] = DemoInvoices[i]
    BY DEF DemoInit, Rows
  <2> QED
    BY <2>1, DemoInvoicesFit
<1>2. Books /\ LedgerFollowsStamps /\ [Next]_vars => LedgerFollowsStamps'
  BY LedgerFollowsStampsStep DEF Books
<1> QED
  BY <1>1, <1>2, SeededBooksHold, PTL DEF DemoSpec

(* The record of a request names the document a replay will look for.      *)
NamesDocument(k, request, id) ==
    /\ request.operation \in OrderActions => id = request.purchase_order_id
    /\ request.operation = "invoice.match" => id = k
    /\ request.operation \in {"invoice.approve", "invoice.pay"} => id = request.invoice_id

RecordsNameDocuments ==
    \A k \in Keys : Recorded(k) =>
        NamesDocument(k, idempotency_keys[k].request, idempotency_keys[k].resource_id)

(* Every handler records the document it worked on.                        *)
LEMMA RecordsNameDocumentsStep ==
    ASSUME TypeOK, RecordsNameDocuments, [Next]_vars
    PROVE  RecordsNameDocuments'
<1> SUFFICES ASSUME NEW j \in Keys, Recorded(j)'
             PROVE  NamesDocument(j, idempotency_keys'[j].request, idempotency_keys'[j].resource_id)
  BY DEF RecordsNameDocuments, NamesDocument
<1>1. CASE Recorded(j)
  BY <1>1, RecordsStay DEF RecordsNameDocuments
<1>2. CASE ~Recorded(j)
  <2>1. OrderStep(j) \/ InvoiceStep(j)
    <3>1. ASSUME NEW k \in Keys, OrderStep(k) \/ InvoiceStep(k)
          PROVE  k = j
      BY <1>2, <3>1, RequestStartsOwnCheck
    <3>2. ~UNCHANGED idempotency_keys
      BY <1>2 DEF Recorded
    <3> QED
      BY <3>1, <3>2, RecordMoves
  <2>2. PICK request, id : Record(j, request, id) /\ NamesDocument(j, request, id)
    <3>1. ASSUME NEW p,
                 \/ \E v, order : Record(j, CreateOrderRequest(v, order), p)
                 \/ Record(j, [operation |-> "purchase_order.submit", purchase_order_id |-> p], p)
                 \/ \E delivery : Record(j, ReceiveRequest(p, delivery), p)
          PROVE  \E request, id : Record(j, request, id) /\ NamesDocument(j, request, id)
      <4>1. /\ \A v, order : NamesDocument(j, CreateOrderRequest(v, order), p)
            /\ NamesDocument(j, [operation |-> "purchase_order.submit",
                                 purchase_order_id |-> p], p)
            /\ \A delivery : NamesDocument(j, ReceiveRequest(p, delivery), p)
        BY DEF NamesDocument, CreateOrderRequest, ReceiveRequest, OrderActions
      <4> QED
        BY <3>1, <4>1, Zenon
    <3>2. ASSUME NEW i,
                 \/ \E v, p, number, amount :
                       Record(j, CreateInvoiceRequest(v, p, number, amount), i)
                 \/ Record(j, [operation |-> "invoice.match", invoice_id |-> i], j)
                 \/ Record(j, [operation |-> "invoice.approve", invoice_id |-> i], i)
                 \/ Record(j, [operation |-> "invoice.pay", invoice_id |-> i], i)
          PROVE  \E request, id : Record(j, request, id) /\ NamesDocument(j, request, id)
      <4>1. /\ \A v, p, number, amount :
                  NamesDocument(j, CreateInvoiceRequest(v, p, number, amount), i)
            /\ NamesDocument(j, [operation |-> "invoice.match", invoice_id |-> i], j)
            /\ NamesDocument(j, [operation |-> "invoice.approve", invoice_id |-> i], i)
            /\ NamesDocument(j, [operation |-> "invoice.pay", invoice_id |-> i], i)
        BY DEF NamesDocument, CreateInvoiceRequest, OrderActions
      <4> QED
        BY <3>2, <4>1, Zenon
    <3>3. CASE OrderStep(j)
      BY <3>1, <3>3, Zenon DEF OrderStep, CreatePurchaseOrder, SubmitPurchaseOrder, ReceiveGoods
    <3>4. CASE InvoiceStep(j)
      <4>1. PICK i \in Invoices :
              \/ \E v \in VendorIds, p \in PurchaseOrders, number \in InvoiceNumbers,
                    amount \in Amounts, channel \in Channels :
                    CreateInvoice(j, v, p, number, amount, i, channel)
              \/ MatchInvoice(j, i)
              \/ \E channel \in Channels : ApproveInvoice(j, i, channel)
              \/ PayInvoice(j, i)
        BY <3>4 DEF InvoiceStep
      <4>2. /\ \A v, p, number, amount, channel :
                  CreateInvoice(j, v, p, number, amount, i, channel) =>
                    Record(j, CreateInvoiceRequest(v, p, number, amount), i)
            /\ MatchInvoice(j, i) =>
                 Record(j, [operation |-> "invoice.match", invoice_id |-> i], j)
            /\ \A channel : ApproveInvoice(j, i, channel) =>
                 Record(j, [operation |-> "invoice.approve", invoice_id |-> i], i)
            /\ PayInvoice(j, i) =>
                 Record(j, [operation |-> "invoice.pay", invoice_id |-> i], i)
        BY DEF CreateInvoice, MatchInvoice, ApproveInvoice, PayInvoice
      <4> QED
        BY <3>2, <4>1, <4>2, Zenon
    <3> QED
      BY <2>1, <3>3, <3>4
  <2>3. idempotency_keys'[j] = [request |-> request, resource_id |-> id]
    BY <2>2 DEF Record, TypeOK
  <2> QED
    BY <2>2, <2>3
<1> QED
  BY <1>1, <1>2

(* What was done under a recorded key is what its replay looks for.        *)
LEMMA SeededReplays ==
    ASSUME Books, ReceiptsHaveOrders, LedgerFollowsStamps, RecordsNameDocuments,
           NEW k \in Keys, Recorded(k)
    PROVE  \/ Replay(k) = "OK"
           \/ /\ idempotency_keys[k].request.operation = "invoice.approve"
              /\ invoices[idempotency_keys[k].resource_id].status = "PAID"
<1> DEFINE request == idempotency_keys[k].request
           operation == request.operation
           id == idempotency_keys[k].resource_id
<1>1. RecordDone(k, request, id) /\ NamesDocument(k, request, id)
  BY DEF Books, RecordsAreDone, RecordsNameDocuments
<1>2. operation \in {"purchase_order.create", "purchase_order.submit", "purchase_order.receive",
                     "invoice.create", "invoice.match", "invoice.approve", "invoice.pay"}
  <2>1. idempotency_keys[k] \in IdempotencyRecord
    BY DEF Books, TypeOK, Recorded
  <2>2. \A r \in Request :
          r.operation \in {"purchase_order.create", "purchase_order.submit",
                           "purchase_order.receive", "invoice.create", "invoice.match",
                           "invoice.approve", "invoice.pay"}
    BY DEF Request
  <2> QED
    BY <2>1, <2>2 DEF IdempotencyRecord
<1>3. CASE operation \in {"purchase_order.create", "purchase_order.submit",
                          "purchase_order.receive"}
  <2>1. purchase_orders[id] # None
    BY <1>1, <1>3 DEF RecordDone, NamesDocument, OrderActions, ReceiptsHaveOrders
  <2> QED
    BY <1>3, <2>1 DEF Replay, FindsRow
<1>4. CASE operation = "invoice.create"
  <2>1. invoices[id] # None
    BY <1>1, <1>4 DEF RecordDone
  <2> QED
    BY <1>4, <2>1 DEF Replay, FindsRow
<1>5. CASE operation = "invoice.match"
  <2>1. invoice_match_snapshots[id] # None
    BY <1>1, <1>5 DEF RecordDone, NamesDocument
  <2> QED
    BY <1>5, <2>1 DEF Replay, FindsRow
<1>6. CASE operation = "invoice.approve"
  <2>1. /\ id \in Invoices /\ invoices[id] # None
        /\ invoices[id].approved_at = k /\ k # None
    BY <1>1, <1>6, NoneAssumption DEF RecordDone, NamesDocument
  <2>2. invoices[id].status \in {"APPROVED", "PAID"} /\ invoices[id].invoice_amount \in Int
    BY <2>1, AmountsAssumption DEF Books, StampsFollow, TypeOK, Invoice
  <2>3. PostedFor(id) = BalancedGLEntries(k, id, invoices[id].invoice_amount)
    BY <2>1 DEF LedgerFollowsStamps
  <2>4. GLEntriesAreBalanced(PostedFor(id)) /\ PostedFor(id) # {}
    BY <2>1, <2>2, <2>3, PairBalances DEF GLEntriesAreBalanced
  <2>5. Replay(k) = ReplayApproval(id)
    BY <1>6 DEF Replay
  <2> QED
    BY <1>6, <2>1, <2>2, <2>4, <2>5 DEF ReplayApproval
<1>7. CASE operation = "invoice.pay"
  <2>1. /\ id \in Invoices /\ invoices[id] # None
        /\ invoices[id].paid_at = k /\ k # None
    BY <1>1, <1>7, NoneAssumption DEF RecordDone, NamesDocument
  <2>2. invoices[id].status = "PAID"
    BY <2>1 DEF Books, StampsFollow
  <2>3. purchase_orders[invoices[id].purchase_order_id] # None
    BY <2>1, LinkedOrder DEF Books
  <2>4. Replay(k) = ReplayPayment(id)
    BY <1>7 DEF Replay
  <2> QED
    BY <2>1, <2>2, <2>3, <2>4 DEF ReplayPayment
<1> QED
  BY <1>2, <1>3, <1>4, <1>5, <1>6, <1>7

(* A retry of a recorded request succeeds on a seeded database as well,    *)
(* but for the approval of an invoice that is paid.                        *)
THEOREM SeededRetriesSucceed == DemoSpec => []ReplayFailsOnlyOncePaid
<1> DEFINE Kept == /\ ReceiptsHaveOrders /\ RecordsNameDocuments
<1>1. DemoInit => Kept
  BY DemoAddsUp DEF DemoInit, RecordsNameDocuments, Recorded
<1>2. Books /\ Kept /\ [Next]_vars => Kept'
  BY ReceiptsHaveOrdersStep, RecordsNameDocumentsStep DEF Books
<1>3. Books /\ Kept /\ LedgerFollowsStamps => ReplayFailsOnlyOncePaid
  BY SeededReplays DEF ReplayFailsOnlyOncePaid
<1> HIDE DEF Kept
<1> QED
  BY <1>1, <1>2, <1>3, SeededBooksHold, SeededLedgerPostedOnce, PTL DEF DemoSpec

(* The documents of a seeded database only advance as well.                *)
THEOREM SeededDocumentsAdvance == DemoSpec => DocumentsOnlyAdvance
<1>1. Books /\ [Next]_vars
        => [/\ \A p \in PurchaseOrders : OrderAdvances(p)
            /\ \A i \in Invoices : InvoiceAdvances(i)]_vars
  BY OrdersAdvance, InvoicesAdvance DEF Books
<1> QED
  BY <1>1, SeededBooksHold, PTL DEF DemoSpec, DocumentsOnlyAdvance
=============================================================================
