------------------------ MODULE P2PPayablesProofs ------------------------
(***************************************************************************)
(* Proof that the service implements Payables, for every number of orders, *)
(* invoices, lines and keys.  The mapping shows, of one order, its row,    *)
(* its invoice's row and the ledger's entries for that invoice; the        *)
(* invariants of P2PProofs say that no two orders share any of it, so each *)
(* handler moves the view of one order.                                    *)
(***************************************************************************)
EXTENDS P2PPayables, P2PProofs

(* An order that has an invoice is no longer a draft. *)
BilledOrdersPlaced ==
    \A p \in PurchaseOrders :
        Billed(purchase_orders[p]) => purchase_orders[p].status # "DRAFT"

(* What the steps of the proof start from. *)
Books ==
    /\ TypeOK
    /\ InvoiceLinks
    /\ PostedOnce
    /\ BilledOrdersPlaced

(* The row of an order's invoice.                                          *)
LEMMA BilledRow ==
    ASSUME TypeOK, InvoiceLinks, NEW p \in PurchaseOrders, Billed(purchase_orders[p])
    PROVE  /\ purchase_orders[p] \in PurchaseOrder
           /\ purchase_orders[p].invoice_id \in Invoices
           /\ invoices[purchase_orders[p].invoice_id] \in Invoice
           /\ invoices[purchase_orders[p].invoice_id] # None
           /\ invoices[purchase_orders[p].invoice_id].purchase_order_id = p
<1>1. purchase_orders[p] \in PurchaseOrder /\ purchase_orders[p].invoice_id \in Invoices
  BY DEF TypeOK, Billed, PurchaseOrder
<1> QED
  BY <1>1, InvoiceRowFound DEF InvoiceLinks, Billed

(* The two entries of an approval, seen as the department sees them.       *)
LEMMA PairOfEntries ==
    ASSUME NEW k, NEW i, NEW amount
    PROVE  {EntryOf(e) : e \in BalancedGLEntries(k, i, amount)} = AP!Pair(k, amount)
BY DEF EntryOf, BalancedGLEntries, AP!Pair

(* So what the ledger shows for an order follows from its invoice.         *)
EntriesOf(inv) ==
    IF inv.status \in {"APPROVED", "PAID"}
    THEN AP!Pair(inv.approved_at, inv.invoice_amount) ELSE {}

LEMMA LedgerFollowsInvoice ==
    ASSUME TypeOK, InvoiceLinks, PostedOnce, NEW p \in PurchaseOrders
    PROVE  Ledger[p] = IF Billed(purchase_orders[p])
                       THEN EntriesOf(invoices[purchase_orders[p].invoice_id]) ELSE {}
<1>1. CASE ~Billed(purchase_orders[p])
  BY <1>1 DEF Ledger, LedgerOf
<1>2. CASE Billed(purchase_orders[p])
  <2> DEFINE i == purchase_orders[p].invoice_id
  <2>1. i \in Invoices /\ invoices[i] # None
    BY <1>2, BilledRow
  <2>2. Ledger[p] = {EntryOf(e) : e \in PostedFor(i)}
    BY <1>2 DEF Ledger, LedgerOf
  <2>3. CASE invoices[i].status \in {"APPROVED", "PAID"}
    <3>1. PostedFor(i) = BalancedGLEntries(invoices[i].approved_at, i, invoices[i].invoice_amount)
      BY <2>1, <2>3 DEF PostedOnce
    <3>2. Ledger[p] = AP!Pair(invoices[i].approved_at, invoices[i].invoice_amount)
      BY <2>2, <3>1, PairOfEntries
    <3> QED
      BY <1>2, <2>3, <3>2 DEF EntriesOf
  <2>4. CASE invoices[i].status \notin {"APPROVED", "PAID"}
    <3>1. PostedFor(i) = {}
      BY <2>1, <2>4 DEF PostedOnce
    <3>2. Ledger[p] = {}
      BY <2>2, <3>1
    <3> QED
      BY <1>2, <2>4, <3>2 DEF EntriesOf
  <2> QED
    BY <2>3, <2>4
<1> QED
  BY <1>1, <1>2

LedgerShowsInvoices ==
    \A p \in PurchaseOrders :
        Ledger[p] = IF Billed(purchase_orders[p])
                    THEN EntriesOf(invoices[purchase_orders[p].invoice_id]) ELSE {}

(* In any state of the books, the next one included.                       *)
LEMMA LedgerShown == Books => LedgerShowsInvoices
BY LedgerFollowsInvoice DEF Books, LedgerShowsInvoices

LEMMA LedgerShownNext == Books' => LedgerShowsInvoices'
BY LedgerShown, PTL

-----------------------------------------------------------------------------
(* An order is billed only once it is submitted, and is never a draft      *)
(* again.                                                                  *)
LEMMA BilledOrdersPlacedStep ==
    ASSUME TypeOK, InvoiceLinks, BilledOrdersPlaced, [Next]_vars
    PROVE  BilledOrdersPlaced'
<1> USE DEF BilledOrdersPlaced, Billed
<1>1. CASE UNCHANGED <<purchase_orders, invoices, gl_entries>>
  BY <1>1
<1>2. ASSUME NEW p \in PurchaseOrders, NEW new,
             purchase_orders' = [purchase_orders EXCEPT ![p] = new],
             new.status # "DRAFT" \/ new.invoice_id = None
      PROVE  BilledOrdersPlaced'
  BY <1>2 DEF TypeOK
<1>3. ASSUME NEW k \in Keys, NEW p \in PurchaseOrders, NEW v \in VendorIds, NEW order \in Orders,
             CreatePurchaseOrder(k, v, order, p)
      PROVE  BilledOrdersPlaced'
  BY <1>2, <1>3 DEF CreatePurchaseOrder, DraftPurchaseOrder
<1>4. ASSUME NEW k \in Keys, NEW p \in PurchaseOrders, SubmitPurchaseOrder(k, p)
      PROVE  BilledOrdersPlaced'
  <2>1. Submitted(purchase_orders[p], k).status = "SUBMITTED"
    BY <1>4 DEF TypeOK, SubmitPurchaseOrder, SubmitRefusal, Submitted, PurchaseOrder
  <2> QED
    BY <1>2, <1>4, <2>1 DEF SubmitPurchaseOrder
<1>5. ASSUME NEW k \in Keys, NEW p \in PurchaseOrders, NEW delivery \in Deliveries,
             ReceiveGoods(k, p, delivery)
      PROVE  BilledOrdersPlaced'
  <2>1. Received(purchase_orders[p], delivery).status \in {"SUBMITTED", "RECEIVED"}
    BY <1>5 DEF TypeOK, ReceiveGoods, ReceiptRefusal, Received, PurchaseOrder
  <2> QED
    BY <1>2, <1>5, <2>1 DEF ReceiveGoods
<1>6. ASSUME NEW k \in Keys, NEW i \in Invoices, NEW v \in VendorIds, NEW p \in PurchaseOrders,
             NEW number \in InvoiceNumbers, NEW amount \in Amounts, NEW channel \in Channels,
             CreateInvoice(k, v, p, number, amount, i, channel)
      PROVE  BilledOrdersPlaced'
  <2>1. /\ purchase_orders[p] \in PurchaseOrder
        /\ purchase_orders[p].status \in {"SUBMITTED", "RECEIVED"}
    BY <1>6 DEF CreateInvoice, InvoiceRefusal, TypeOK
  <2>2. [purchase_orders[p] EXCEPT !.invoice_id = i].status # "DRAFT"
    BY <2>1 DEF PurchaseOrder
  <2> QED
    BY <1>2, <1>6, <2>2 DEF CreateInvoice
<1>7. ASSUME NEW k \in Keys, NEW i \in Invoices, PayInvoice(k, i)
      PROVE  BilledOrdersPlaced'
  <2> DEFINE p == invoices[i].purchase_order_id
  <2>1. p \in PurchaseOrders /\ purchase_orders[p] \in PurchaseOrder
    BY <1>7, LinkedOrder DEF PayInvoice
  <2>2. Closed(purchase_orders[p]).status # "DRAFT"
    BY <2>1 DEF Closed, PurchaseOrder
  <2> QED
    BY <1>2, <1>7, <2>1, <2>2 DEF PayInvoice
<1>8. ASSUME NEW k \in Keys, NEW i \in Invoices,
             MatchInvoice(k, i) \/ \E channel \in Channels : ApproveInvoice(k, i, channel)
      PROVE  BilledOrdersPlaced'
  BY <1>8 DEF MatchInvoice, ApproveInvoice
<1> QED
  BY <1>1, <1>3, <1>4, <1>5, <1>6, <1>7, <1>8, StepCases

-----------------------------------------------------------------------------
(* What changes in the department's view.  An order whose row keeps its    *)
(* status, its quantities and its costs shows the same goods.              *)
LEMMA GoodsKept ==
    ASSUME NEW p \in PurchaseOrders,
           \/ purchase_orders'[p] = purchase_orders[p]
           \/ /\ purchase_orders[p] # None
              /\ purchase_orders'[p] # None
              /\ purchase_orders'[p].status = purchase_orders[p].status
              /\ purchase_orders'[p].qty_received = purchase_orders[p].qty_received
              /\ purchase_orders'[p].unit_cost = purchase_orders[p].unit_cost
    PROVE  Goods'[p] = Goods[p] /\ Worth'[p] = Worth[p]
<1>1. CASE purchase_orders'[p] = purchase_orders[p]
  BY <1>1 DEF Goods, Worth
<1>2. CASE purchase_orders'[p] # purchase_orders[p]
  <2>1. GoodsOf(purchase_orders'[p]) = GoodsOf(purchase_orders[p])
    BY <1>2 DEF GoodsOf
  <2>2. ReceivedValue(purchase_orders'[p]) = ReceivedValue(purchase_orders[p])
    BY <1>2 DEF ReceivedValue
  <2> QED
    BY <2>1, <2>2 DEF Goods, Worth, WorthOf
<1> QED
  BY <1>1, <1>2

(* One with the same invoice, at the same stage, shows the same bill and   *)
(* the same entries.                                                       *)
LEMMA BillKept ==
    ASSUME Books, Books', NEW p \in PurchaseOrders,
           Billed(purchase_orders'[p]) <=> Billed(purchase_orders[p]),
           Billed(purchase_orders[p]) =>
              LET i == purchase_orders[p].invoice_id
              IN  /\ purchase_orders'[p].invoice_id = i
                  /\ invoices'[i].invoice_amount = invoices[i].invoice_amount
                  /\ invoices'[i].status = invoices[i].status
                  /\ invoices'[i].approved_at = invoices[i].approved_at
    PROVE  Bill'[p] = Bill[p] /\ Ledger'[p] = Ledger[p]
<1>1. Bill'[p] = Bill[p]
  BY DEF Bill, BillOf
<1>2. LedgerShowsInvoices /\ LedgerShowsInvoices'
  BY LedgerShown, LedgerShownNext
<1>3. Ledger'[p] = Ledger[p]
  BY <1>2 DEF LedgerShowsInvoices, EntriesOf
<1> QED
  BY <1>1, <1>3

(* The view of p moves, and nothing else. *)
OnlyMoves(p) ==
    /\ Goods' = [Goods EXCEPT ![p] = Goods'[p]]
    /\ Worth' = [Worth EXCEPT ![p] = Worth'[p]]
    /\ Bill' = [Bill EXCEPT ![p] = Bill'[p]]
    /\ Ledger' = [Ledger EXCEPT ![p] = Ledger'[p]]

(* A step that changes the row of no other order and of no invoice of      *)
(* another order.                                                          *)
LEMMA OneOrderMoves ==
    ASSUME Books, Books', NEW p \in PurchaseOrders,
           \A q \in PurchaseOrders : q # p => purchase_orders'[q] = purchase_orders[q],
           \A i \in Invoices :
              (invoices[i] # None /\ invoices[i].purchase_order_id # p)
                 => invoices'[i] = invoices[i]
    PROVE  OnlyMoves(p)
<1>1. ASSUME NEW q \in PurchaseOrders, q # p
      PROVE  /\ Goods'[q] = Goods[q] /\ Worth'[q] = Worth[q]
             /\ Bill'[q] = Bill[q] /\ Ledger'[q] = Ledger[q]
  <2>1. Billed(purchase_orders[q]) =>
            invoices'[purchase_orders[q].invoice_id] = invoices[purchase_orders[q].invoice_id]
    BY <1>1, BilledRow DEF Books
  <2> QED
    BY <1>1, <2>1, GoodsKept, BillKept
<1> QED
  BY <1>1 DEF OnlyMoves, Goods, Worth, Bill, Ledger

(* Parts of the view of p that keep their value keep the whole part. *)
LEMMA PartsKept ==
    ASSUME NEW p \in PurchaseOrders, OnlyMoves(p)
    PROVE  /\ Goods'[p] = Goods[p] => Goods' = Goods
           /\ Worth'[p] = Worth[p] => Worth' = Worth
           /\ Bill'[p] = Bill[p] => Bill' = Bill
           /\ Ledger'[p] = Ledger[p] => Ledger' = Ledger
BY DEF OnlyMoves, Goods, Worth, Bill, Ledger

-----------------------------------------------------------------------------
(* Each handler is a step of Payables, or none.  A new draft shows nothing *)
(* yet.                                                                    *)
LEMMA CreateOrderMaps ==
    ASSUME Books, Books', NEW k \in Keys, NEW p \in PurchaseOrders, NEW v \in VendorIds,
           NEW order \in Orders, CreatePurchaseOrder(k, v, order, p)
    PROVE  UNCHANGED AP!payables
<1>1. OnlyMoves(p)
  BY OneOrderMoves DEF CreatePurchaseOrder, Books, TypeOK
<1>2. purchase_orders[p] = None
  BY DEF CreatePurchaseOrder
<1>3. /\ purchase_orders'[p].status = "DRAFT"
      /\ purchase_orders'[p].invoice_id = None
  BY DEF CreatePurchaseOrder, DraftPurchaseOrder, Books, TypeOK
<1>4. Goods'[p] = Goods[p] /\ Worth'[p] = Worth[p]
  BY <1>2, <1>3 DEF Goods, Worth, WorthOf, GoodsOf, GoodsAt
<1>5. Bill'[p] = Bill[p] /\ Ledger'[p] = Ledger[p]
  BY <1>2, <1>3, BillKept DEF Billed
<1> QED
  BY <1>1, <1>4, <1>5, PartsKept DEF AP!payables

(* Submitting an order asks for its goods.                                 *)
LEMMA SubmitMaps ==
    ASSUME Books, Books', NEW k \in Keys, NEW p \in PurchaseOrders, SubmitPurchaseOrder(k, p)
    PROVE  AP!Place(p)
<1> DEFINE new == Submitted(purchase_orders[p], k)
<1>1. OnlyMoves(p)
  BY OneOrderMoves DEF SubmitPurchaseOrder, Books, TypeOK
<1>2. /\ purchase_orders[p] \in PurchaseOrder /\ purchase_orders[p] # None
      /\ purchase_orders[p].status = "DRAFT"
  BY DEF SubmitPurchaseOrder, SubmitRefusal, Books, TypeOK
<1>3. purchase_orders'[p] = new /\ new # None
  BY <1>2, OrderRulesReturnRows, NoneAssumption DEF SubmitPurchaseOrder, Books, TypeOK
<1>4. new.status = "SUBMITTED" /\ new.invoice_id = purchase_orders[p].invoice_id
  BY <1>2 DEF Submitted, PurchaseOrder
<1> HIDE DEF new
<1>5. Goods[p] = "NONE" /\ Goods'[p] = "AWAITED"
  BY <1>2, <1>3, <1>4 DEF Goods, GoodsOf, GoodsAt
<1>6. UNCHANGED invoices
  BY DEF SubmitPurchaseOrder
<1>7. Bill'[p] = Bill[p] /\ Ledger'[p] = Ledger[p]
  BY <1>2, <1>3, <1>4, <1>6, BillKept DEF Billed
<1>8. Bill' = Bill /\ Ledger' = Ledger
  BY <1>1, <1>7, PartsKept
<1> QED
  BY <1>1, <1>5, <1>8 DEF OnlyMoves, AP!Place, AP!Appraise

(* Receiving goods delivers some of them or the rest.                      *)
LEMMA ReceiveMaps ==
    ASSUME Books, Books', NEW k \in Keys, NEW p \in PurchaseOrders, NEW delivery \in Deliveries,
           ReceiveGoods(k, p, delivery)
    PROVE  AP!Deliver(p)
<1> DEFINE new == Received(purchase_orders[p], delivery)
<1>1. OnlyMoves(p)
  BY OneOrderMoves DEF ReceiveGoods, Books, TypeOK
<1>2. /\ purchase_orders[p] \in PurchaseOrder /\ purchase_orders[p] # None
      /\ purchase_orders[p].status = "SUBMITTED"
  BY DEF ReceiveGoods, ReceiptRefusal, Books, TypeOK
<1>3. purchase_orders'[p] = new /\ new # None
  BY <1>2, OrderRulesReturnRows, NoneAssumption DEF ReceiveGoods, Books, TypeOK
<1>4. new.status \in {"SUBMITTED", "RECEIVED"} /\ new.invoice_id = purchase_orders[p].invoice_id
  BY <1>2 DEF Received, PurchaseOrder
<1> HIDE DEF new
<1>5. Goods[p] = "AWAITED" /\ Goods'[p] \in {"AWAITED", "DELIVERED"}
  BY <1>2, <1>3, <1>4 DEF Goods, GoodsOf, GoodsAt
<1>6. UNCHANGED invoices
  BY DEF ReceiveGoods
<1>7. Bill'[p] = Bill[p] /\ Ledger'[p] = Ledger[p]
  BY <1>2, <1>3, <1>4, <1>6, BillKept DEF Billed
<1>8. Bill' = Bill /\ Ledger' = Ledger
  BY <1>1, <1>7, PartsKept
<1> QED
  BY <1>1, <1>5, <1>8 DEF OnlyMoves, AP!Deliver, AP!Appraise

(* Creating an invoice bills its order, and enters nothing.                *)
LEMMA CreateInvoiceMaps ==
    ASSUME Books, Books', NEW k \in Keys, NEW i \in Invoices, NEW v \in VendorIds,
           NEW p \in PurchaseOrders, NEW number \in InvoiceNumbers, NEW amount \in Amounts,
           NEW channel \in Channels, CreateInvoice(k, v, p, number, amount, i, channel)
    PROVE  AP!Bill(p, amount)
<1> DEFINE new == [purchase_orders[p] EXCEPT !.invoice_id = i]
<1>1. /\ purchase_orders[p] \in PurchaseOrder /\ purchase_orders[p] # None
      /\ purchase_orders[p].status \in {"SUBMITTED", "RECEIVED"}
      /\ purchase_orders[p].invoice_id = None
      /\ invoices[i] = None
  BY DEF CreateInvoice, InvoiceRefusal, Books, TypeOK
<1>2. OnlyMoves(p)
  BY OneOrderMoves DEF CreateInvoice, Books, TypeOK
<1>3. purchase_orders'[p] = new /\ new \in PurchaseOrder /\ new # None
  BY <1>1, NoneAssumption DEF CreateInvoice, Books, TypeOK, PurchaseOrder
<1>4. /\ new.status = purchase_orders[p].status
      /\ new.qty_received = purchase_orders[p].qty_received
      /\ new.unit_cost = purchase_orders[p].unit_cost
      /\ new.invoice_id = i /\ i # None
  BY <1>1, NoneAssumption DEF PurchaseOrder
<1> HIDE DEF new
<1>5. Goods' = Goods /\ Worth' = Worth
  BY <1>1, <1>2, <1>3, <1>4, GoodsKept, PartsKept
<1>6. Goods[p] \in {"AWAITED", "DELIVERED"}
  BY <1>1 DEF Goods, GoodsOf, GoodsAt
<1>7. /\ invoices'[i].invoice_amount = amount
      /\ invoices'[i].status = "PENDING"
  BY DEF CreateInvoice, PendingInvoice, Books, TypeOK
<1>8. /\ Bill[p] = [amount |-> 0, stage |-> "NONE"]
      /\ Bill'[p] = [amount |-> amount, stage |-> "OPEN"]
  BY <1>1, <1>3, <1>4, <1>7 DEF Bill, BillOf, Billed, StageAt
<1>9. Ledger[p] = {} /\ Ledger'[p] = {}
  BY <1>1, <1>3, <1>4, <1>7, LedgerShown, LedgerShownNext
  DEF LedgerShowsInvoices, Billed, EntriesOf
<1>10. Ledger' = Ledger
  BY <1>2, <1>9, PartsKept
<1> QED
  BY <1>2, <1>5, <1>6, <1>8, <1>10 DEF OnlyMoves, AP!Bill, AP!Unbilled

(* The invoice a handler works on, and its order, for the three handlers   *)
(* that leave the link between them alone.                                 *)
LEMMA WorkedInvoice ==
    ASSUME Books, NEW i \in Invoices, invoices[i] # None,
           NEW new \in Invoice, invoices' = [invoices EXCEPT ![i] = new],
           SameInvoice(invoices[i], new),
           NEW p \in PurchaseOrders, p = invoices[i].purchase_order_id,
           \A q \in PurchaseOrders : q # p => purchase_orders'[q] = purchase_orders[q],
           purchase_orders'[p] # None,
           purchase_orders'[p].invoice_id = purchase_orders[p].invoice_id,
           Books'
    PROVE  /\ purchase_orders[p].invoice_id = i
           /\ OnlyMoves(p)
           /\ Bill[p] = [amount |-> invoices[i].invoice_amount,
                         stage |-> StageAt(invoices[i].status)]
           /\ Bill'[p] = [amount |-> invoices[i].invoice_amount, stage |-> StageAt(new.status)]
           /\ Ledger[p] = EntriesOf(invoices[i])
           /\ Ledger'[p] = EntriesOf(new)
<1>1. purchase_orders[p] # None /\ purchase_orders[p].invoice_id = i
  BY LinkedOrder DEF Books
<1>2. i # None
  BY NoneAssumption
<1>3. invoices'[i] = new /\ \A j \in Invoices : j # i => invoices'[j] = invoices[j]
  BY DEF Books, TypeOK
<1>4. OnlyMoves(p)
  BY <1>1, <1>3, OneOrderMoves
<1>5. Billed(purchase_orders[p]) /\ Billed(purchase_orders'[p])
  BY <1>1, <1>2 DEF Billed
<1>6. /\ Bill[p] = [amount |-> invoices[i].invoice_amount, stage |-> StageAt(invoices[i].status)]
      /\ Bill'[p] = [amount |-> invoices[i].invoice_amount, stage |-> StageAt(new.status)]
  BY <1>1, <1>3, <1>5 DEF Bill, BillOf, SameInvoice
<1>7. Ledger[p] = EntriesOf(invoices[i]) /\ Ledger'[p] = EntriesOf(new)
  BY <1>1, <1>3, <1>5, LedgerShown, LedgerShownNext DEF LedgerShowsInvoices
<1> QED
  BY <1>1, <1>4, <1>6, <1>7

(* A match covers an open bill with the goods received; a blocked one, or  *)
(* one more of a matched invoice, shows nothing.                           *)
LEMMA MatchMaps ==
    ASSUME Books, Books', NEW k \in Keys, NEW i \in Invoices, MatchInvoice(k, i)
    PROVE  \/ UNCHANGED AP!payables
           \/ \E p \in PurchaseOrders : AP!Cover(p)
<1> DEFINE p == invoices[i].purchase_order_id
           outcome == MatchOutcome(invoices[i].invoice_amount, purchase_orders[p])
           new == Matched(invoices[i], outcome, k)
<1>1. /\ invoices[i] \in Invoice /\ invoices[i] # None
      /\ invoices[i].status \in {"PENDING", "MATCHED"}
      /\ invoices' = [invoices EXCEPT ![i] = new]
      /\ purchase_orders' = purchase_orders
  BY InvoiceRowFound DEF MatchInvoice, MatchRefusal, Books
<1>2. new \in Invoice /\ SameInvoice(invoices[i], new)
  <2>1. outcome \in MatchOutcomes
    BY MatchOutcomeType DEF MatchOutcomes
  <2> HIDE DEF outcome
  <2> QED
    BY <1>1, <2>1, InvoiceRulesReturnRows, InvoiceRulesKeepIdentity
<1>3. new.approved_at = invoices[i].approved_at
  BY <1>1 DEF Matched, Invoice
<1>4. /\ outcome = "BLOCKED" => new.status = invoices[i].status
      /\ outcome # "BLOCKED" => new.status = "MATCHED"
  BY <1>1 DEF Matched, Invoice
<1>5. outcome # "BLOCKED" => ~(ReceivedValue(purchase_orders[p]) < invoices[i].invoice_amount)
  BY DEF MatchOutcome
<1> HIDE DEF outcome, new
<1>6. /\ p \in PurchaseOrders
      /\ purchase_orders[p] \in PurchaseOrder
      /\ purchase_orders[p] # None
  BY <1>1, LinkedOrder DEF Books
<1>7. /\ purchase_orders[p].invoice_id = i
      /\ OnlyMoves(p)
      /\ Bill[p] = [amount |-> invoices[i].invoice_amount,
                    stage |-> StageAt(invoices[i].status)]
      /\ Bill'[p] = [amount |-> invoices[i].invoice_amount, stage |-> StageAt(new.status)]
      /\ Ledger[p] = EntriesOf(invoices[i])
      /\ Ledger'[p] = EntriesOf(new)
  BY <1>1, <1>2, <1>6, WorkedInvoice
<1>8. Goods' = Goods /\ Worth' = Worth
  BY <1>1, <1>6, <1>7, GoodsKept, PartsKept
<1>9. Ledger' = Ledger
  <2>1. EntriesOf(new) = EntriesOf(invoices[i])
    BY <1>1, <1>4 DEF EntriesOf
  <2> QED
    BY <1>6, <1>7, <2>1, PartsKept
<1>10. CASE new.status = invoices[i].status
  BY <1>6, <1>7, <1>8, <1>9, <1>10, PartsKept DEF AP!payables
<1>11. CASE new.status # invoices[i].status
  <2>1. outcome # "BLOCKED" /\ invoices[i].status = "PENDING" /\ new.status = "MATCHED"
    BY <1>1, <1>4, <1>11
  <2>2. /\ Bill[p] = [amount |-> invoices[i].invoice_amount, stage |-> "OPEN"]
        /\ Bill'[p] = [amount |-> invoices[i].invoice_amount, stage |-> "COVERED"]
    BY <1>7, <2>1 DEF StageAt
  <2>3. purchase_orders[p].status # "DRAFT"
    BY <1>6, <1>7, NoneAssumption DEF Books, BilledOrdersPlaced, Billed
  <2>4. Worth[p] = ReceivedValue(purchase_orders[p])
    BY <1>6, <1>7, <2>3 DEF Worth, WorthOf, GoodsOf, GoodsAt, PurchaseOrder,
       PurchaseOrderStatuses
  <2>5. ~(Worth[p] < Bill[p].amount)
    BY <1>5, <2>1, <2>2, <2>4
  <2>6. AP!Advance(p, "OPEN", "COVERED")
    BY <1>7, <2>2 DEF OnlyMoves, AP!Advance
  <2> QED
    BY <1>6, <1>8, <1>9, <2>5, <2>6 DEF AP!Cover
<1> QED
  BY <1>10, <1>11

(* Approval makes the covered bill owed and enters it, for the first time. *)
LEMMA ApproveMaps ==
    ASSUME Books, Books', NEW k \in Keys, NEW i \in Invoices, NEW channel \in Channels,
           ApproveInvoice(k, i, channel)
    PROVE  \E p \in PurchaseOrders : AP!Owe(p)
<1> DEFINE p == invoices[i].purchase_order_id
           new == Approved(invoices[i], k)
<1>1. /\ invoices[i] \in Invoice /\ invoices[i] # None
      /\ invoices[i].status = "MATCHED"
      /\ invoices' = [invoices EXCEPT ![i] = new]
      /\ purchase_orders' = purchase_orders
  BY InvoiceRowFound DEF ApproveInvoice, ApprovalRefusal, Books
<1>2. new \in Invoice /\ SameInvoice(invoices[i], new)
  BY <1>1, InvoiceRulesReturnRows, InvoiceRulesKeepIdentity
<1>3. new.status = "APPROVED" /\ new.approved_at = k
  BY <1>1 DEF Approved, Invoice
<1> HIDE DEF new
<1>4. /\ p \in PurchaseOrders
      /\ purchase_orders[p] # None
  BY <1>1, LinkedOrder DEF Books
<1>5. /\ OnlyMoves(p)
      /\ Bill[p] = [amount |-> invoices[i].invoice_amount,
                    stage |-> StageAt(invoices[i].status)]
      /\ Bill'[p] = [amount |-> invoices[i].invoice_amount, stage |-> StageAt(new.status)]
      /\ Ledger[p] = EntriesOf(invoices[i])
      /\ Ledger'[p] = EntriesOf(new)
  BY <1>1, <1>2, <1>4, WorkedInvoice
<1>6. Goods' = Goods /\ Worth' = Worth
  BY <1>1, <1>4, <1>5, GoodsKept, PartsKept
<1>7. /\ Bill[p] = [amount |-> invoices[i].invoice_amount, stage |-> "COVERED"]
      /\ Bill'[p] = [amount |-> invoices[i].invoice_amount, stage |-> "OWED"]
  BY <1>1, <1>3, <1>5 DEF StageAt
<1>8. AP!Advance(p, "COVERED", "OWED")
  BY <1>5, <1>7 DEF OnlyMoves, AP!Advance
<1>9. Ledger[p] = {} /\ Ledger'[p] = AP!Pair(k, Bill[p].amount)
  BY <1>1, <1>2, <1>3, <1>5, <1>7 DEF EntriesOf, SameInvoice
<1>10. \E posting \in Keys : Ledger' = [Ledger EXCEPT ![p] = AP!Pair(posting, Bill[p].amount)]
  BY <1>5, <1>9 DEF OnlyMoves
<1> QED
  BY <1>4, <1>6, <1>8, <1>9, <1>10 DEF AP!Owe

(* Payment settles the bill of a delivered order and closes it.            *)
LEMMA PayMaps ==
    ASSUME Books, Books', NEW k \in Keys, NEW i \in Invoices, PayInvoice(k, i)
    PROVE  \E p \in PurchaseOrders : AP!Settle(p)
<1> DEFINE p == invoices[i].purchase_order_id
           new == Paid(invoices[i], k)
           po == Closed(purchase_orders[p])
<1>1. /\ invoices[i] \in Invoice /\ invoices[i] # None
      /\ invoices[i].status = "APPROVED"
      /\ invoices' = [invoices EXCEPT ![i] = new]
      /\ purchase_orders' = [purchase_orders EXCEPT ![p] = po]
      /\ purchase_orders[p].status = "RECEIVED"
  BY InvoiceRowFound DEF PayInvoice, PaymentRefusal, Books
<1>2. new \in Invoice /\ SameInvoice(invoices[i], new)
  BY <1>1, InvoiceRulesReturnRows, InvoiceRulesKeepIdentity
<1>3. /\ new.status = "PAID"
      /\ new.approved_at = invoices[i].approved_at
  BY <1>1 DEF Paid, Invoice
<1>4. /\ p \in PurchaseOrders
      /\ purchase_orders[p] \in PurchaseOrder
      /\ purchase_orders[p] # None
  BY <1>1, LinkedOrder DEF Books
<1>5. /\ po \in PurchaseOrder /\ po # None
      /\ po.status = "CLOSED"
      /\ po.qty_received = purchase_orders[p].qty_received
      /\ po.unit_cost = purchase_orders[p].unit_cost
      /\ po.invoice_id = purchase_orders[p].invoice_id
  BY <1>4, OrderRulesReturnRows, NoneAssumption DEF Closed, PurchaseOrder
<1> HIDE DEF new, po
<1>6. /\ purchase_orders'[p] = po
      /\ \A q \in PurchaseOrders : q # p => purchase_orders'[q] = purchase_orders[q]
  BY <1>1, <1>4 DEF Books, TypeOK
<1>7. /\ OnlyMoves(p)
      /\ Bill[p] = [amount |-> invoices[i].invoice_amount,
                    stage |-> StageAt(invoices[i].status)]
      /\ Bill'[p] = [amount |-> invoices[i].invoice_amount, stage |-> StageAt(new.status)]
      /\ Ledger[p] = EntriesOf(invoices[i])
      /\ Ledger'[p] = EntriesOf(new)
  <2>1. /\ p = invoices[i].purchase_order_id
        /\ \A q \in PurchaseOrders : q # p => purchase_orders'[q] = purchase_orders[q]
        /\ purchase_orders'[p] # None
        /\ purchase_orders'[p].invoice_id = purchase_orders[p].invoice_id
    BY <1>5, <1>6
  <2> HIDE DEF p
  <2> QED
    BY <1>1, <1>2, <1>4, <2>1, WorkedInvoice
<1>8. Goods[p] = "DELIVERED" /\ Goods'[p] = "CLOSED"
  BY <1>1, <1>4, <1>5, <1>6 DEF Goods, GoodsOf, GoodsAt
<1>9. Worth'[p] = Worth[p]
  <2>1. ReceivedValue(po) = ReceivedValue(purchase_orders[p])
    BY <1>5 DEF ReceivedValue
  <2> QED
    BY <1>4, <1>6, <1>8, <2>1 DEF Goods, Worth, WorthOf
<1>10. Ledger'[p] = Ledger[p]
  BY <1>1, <1>2, <1>3, <1>7 DEF EntriesOf, SameInvoice
<1>11. Worth' = Worth /\ Ledger' = Ledger
  BY <1>4, <1>7, <1>9, <1>10, PartsKept
<1>12. /\ Bill[p] = [amount |-> invoices[i].invoice_amount, stage |-> "OWED"]
       /\ Bill'[p] = [amount |-> invoices[i].invoice_amount, stage |-> "SETTLED"]
  BY <1>1, <1>3, <1>7 DEF StageAt
<1>13. AP!Advance(p, "OWED", "SETTLED")
  BY <1>7, <1>12 DEF OnlyMoves, AP!Advance
<1>14. Goods' = [Goods EXCEPT ![p] = "CLOSED"]
  BY <1>7, <1>8 DEF OnlyMoves
<1> QED
  BY <1>4, <1>8, <1>11, <1>13, <1>14 DEF AP!Settle

-----------------------------------------------------------------------------
(* A step that touches no order, no invoice and no entry shows nothing.    *)
LEMMA OtherStepsMap ==
    ASSUME UNCHANGED <<purchase_orders, invoices, gl_entries>>
    PROVE  UNCHANGED AP!payables
BY DEF AP!payables, Goods, Worth, Bill, Ledger, BillOf, LedgerOf, PostedFor

LEMMA StepMaps ==
    ASSUME Books, Books', [Next]_vars
    PROVE  [AP!Next]_(AP!payables)
<1>1. ASSUME NEW k \in Keys, NEW p \in PurchaseOrders,
             \/ \E v \in VendorIds, order \in Orders : CreatePurchaseOrder(k, v, order, p)
             \/ SubmitPurchaseOrder(k, p)
             \/ \E delivery \in Deliveries : ReceiveGoods(k, p, delivery)
      PROVE  [AP!Next]_(AP!payables)
  BY <1>1, CreateOrderMaps, SubmitMaps, ReceiveMaps DEF AP!Next
<1>2. ASSUME NEW k \in Keys, NEW i \in Invoices, NEW v \in VendorIds, NEW p \in PurchaseOrders,
             NEW number \in InvoiceNumbers, NEW amount \in Amounts, NEW channel \in Channels,
             CreateInvoice(k, v, p, number, amount, i, channel)
      PROVE  [AP!Next]_(AP!payables)
  BY <1>2, CreateInvoiceMaps DEF AP!Next
<1>3. ASSUME NEW k \in Keys, NEW i \in Invoices,
             \/ MatchInvoice(k, i)
             \/ \E channel \in Channels : ApproveInvoice(k, i, channel)
             \/ PayInvoice(k, i)
      PROVE  [AP!Next]_(AP!payables)
  BY <1>3, MatchMaps, ApproveMaps, PayMaps DEF AP!Next
<1> QED
  BY <1>1, <1>2, <1>3, StepCases, OtherStepsMap

(* The books are always in order.                                          *)
LEMMA BooksInOrder == Spec => []Books
<1>1. Init => BilledOrdersPlaced
  BY DEF Init, BilledOrdersPlaced, Billed
<1>2. TypeOK /\ TasksHaveChecks /\ InvoiceLinks /\ BilledOrdersPlaced /\ [Next]_vars
        => BilledOrdersPlaced'
  BY BilledOrdersPlacedStep
<1>3. Spec => []BilledOrdersPlaced
  BY <1>1, <1>2, TypeCorrect, OrdersAndInvoicesLinked, PTL DEF Spec
<1>4. TypeOK /\ TasksHaveChecks /\ InvoiceLinks /\ PostedOnce /\ BilledOrdersPlaced => Books
  BY DEF Books
<1> QED
  BY <1>3, <1>4, TypeCorrect, OrdersAndInvoicesLinked, LedgerPostedOnce, PTL

(* The service implements Payables: an empty database shows a department   *)
(* that has asked for nothing, and every step from books in order to books *)
(* in order is one of its steps or none.                                   *)
THEOREM ServiceImplementsPayables == Spec => ImplementsPayables
<1>1. Init => AP!Init
  BY DEF Init, AP!Init, AP!Unbilled, Goods, GoodsOf, Worth, WorthOf, Bill, BillOf, Ledger,
     LedgerOf, Billed
<1>2. Books /\ Books' /\ [Next]_vars => [AP!Next]_(AP!payables)
  BY StepMaps
<1> QED
  BY <1>1, <1>2, BooksInOrder, PTL DEF Spec, ImplementsPayables, AP!Spec
=============================================================================
