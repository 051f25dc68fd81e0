-------------------------- MODULE P2PTotalsProofs --------------------------
(***************************************************************************)
(* Proofs about P2P where rows are added up: receipts and quantities,      *)
(* lines and the value of an order, debits and credits, invoices and the   *)
(* exposure of a vendor.                                                   *)
(***************************************************************************)
EXTENDS P2PProofs, SumTheorems

-----------------------------------------------------------------------------
(* The sums of the model as sums of functions                              *)

ReceiptsOf(rows, p) == {k \in Keys : rows[k] # None /\ rows[k].po_id = p}
QuantitiesOf(rows, keys, l) == [k \in keys |-> rows[k].line_items[l]]

(* The receipts of a line.                                                 *)
LEMMA ReceiptsSum ==
    ASSUME NEW rows, NEW keys, NEW l
    PROVE  MapThenSumSet(LAMBDA k : rows[k].line_items[l], keys)
             = SumOver(QuantitiesOf(rows, keys, l), keys)
<1> DEFINE Sum(g) == [s \in SUBSET keys |->
                     IF s = {} THEN 0 ELSE rows[Any(s)].line_items[l] + g[s \ {Any(s)}]]
           quantities == QuantitiesOf(rows, keys, l)
<1>1. MapThenSumSet(LAMBDA k : rows[k].line_items[l], keys) = (CHOOSE g : g = Sum(g))[keys]
  BY DEF MapThenSumSet, MapThenFoldSet, Any
<1>2. \A g : Sums(g, quantities, keys) <=> g = Sum(g)
  BY AnyInSet DEF Sums, QuantitiesOf
<1> HIDE DEF Sum, quantities
<1>3. (CHOOSE g : Sums(g, quantities, keys)) = (CHOOSE g : g = Sum(g))
  BY <1>2
<1> QED
  BY <1>1, <1>3 DEF SumOver, quantities

Products(quantities, costs) == [l \in Lines |-> quantities[l] * costs[l]]

(* The value of an order's lines.                                          *)
LEMMA LineValueSum ==
    ASSUME NEW quantities, NEW costs
    PROVE  LineValue(quantities, costs) = SumOver(Products(quantities, costs), Lines)
<1> DEFINE Sum(g) == [s \in SUBSET Lines |->
                     IF s = {} THEN 0 ELSE quantities[Any(s)] * costs[Any(s)] + g[s \ {Any(s)}]]
           products == Products(quantities, costs)
<1>1. LineValue(quantities, costs) = (CHOOSE g : g = Sum(g))[Lines]
  BY DEF LineValue, MapThenSumSet, MapThenFoldSet, Any
<1>2. \A g : Sums(g, products, Lines) <=> g = Sum(g)
  BY AnyInSet DEF Sums, Products
<1> HIDE DEF Sum, products
<1>3. (CHOOSE g : Sums(g, products, Lines)) = (CHOOSE g : g = Sum(g))
  BY <1>2
<1> QED
  BY <1>1, <1>3 DEF SumOver, products

Owed(rows, v) == {i \in Invoices : /\ rows[i] # None
                                   /\ rows[i].vendor_id = v
                                   /\ rows[i].status \in UnpaidStatuses}
AmountsOf(rows, ids) == [i \in ids |-> rows[i].invoice_amount]

(* The amounts of some invoices ...                                        *)
LEMMA AmountsSum ==
    ASSUME NEW rows, NEW ids
    PROVE  MapThenSumSet(LAMBDA i : rows[i].invoice_amount, ids)
             = SumOver(AmountsOf(rows, ids), ids)
<1> DEFINE Sum(g) == [s \in SUBSET ids |->
                     IF s = {} THEN 0 ELSE rows[Any(s)].invoice_amount + g[s \ {Any(s)}]]
           amounts == AmountsOf(rows, ids)
<1>1. MapThenSumSet(LAMBDA i : rows[i].invoice_amount, ids) = (CHOOSE g : g = Sum(g))[ids]
  BY DEF MapThenSumSet, MapThenFoldSet, Any
<1>2. \A g : Sums(g, amounts, ids) <=> g = Sum(g)
  BY AnyInSet DEF Sums, AmountsOf
<1> HIDE DEF Sum, amounts
<1>3. (CHOOSE g : Sums(g, amounts, ids)) = (CHOOSE g : g = Sum(g))
  BY <1>2
<1> QED
  BY <1>1, <1>3 DEF SumOver, amounts

(* ... and so the exposure of a vendor.                                    *)
LEMMA ExposureSum ==
    ASSUME NEW rows, NEW v
    PROVE  Exposure(rows, v) = SumOver(AmountsOf(rows, Owed(rows, v)), Owed(rows, v))
BY AmountsSum DEF Exposure, Owed

(* What some entries debit, and what they credit.                          *)
LEMMA EntriesSum ==
    ASSUME NEW entries
    PROVE  /\ MapThenSumSet(LAMBDA e : e.debit, entries)
                = SumOver([e \in entries |-> e.debit], entries)
           /\ MapThenSumSet(LAMBDA e : e.credit, entries)
                = SumOver([e \in entries |-> e.credit], entries)
<1> DEFINE debits == [e \in entries |-> e.debit]
           credits == [e \in entries |-> e.credit]
<1>1. MapThenSumSet(LAMBDA e : e.debit, entries) = SumOver(debits, entries)
  <2> DEFINE Sum(g) == [s \in SUBSET entries |->
                     IF s = {} THEN 0 ELSE Any(s).debit + g[s \ {Any(s)}]]
  <2>1. MapThenSumSet(LAMBDA e : e.debit, entries) = (CHOOSE g : g = Sum(g))[entries]
    BY DEF MapThenSumSet, MapThenFoldSet, Any
  <2>2. \A g : Sums(g, debits, entries) <=> g = Sum(g)
    BY AnyInSet DEF Sums
  <2> HIDE DEF Sum, debits
  <2>3. (CHOOSE g : Sums(g, debits, entries)) = (CHOOSE g : g = Sum(g))
    BY <2>2
  <2> QED
    BY <2>1, <2>3 DEF SumOver
<1>2. MapThenSumSet(LAMBDA e : e.credit, entries) = SumOver(credits, entries)
  <2> DEFINE Sum(g) == [s \in SUBSET entries |->
                     IF s = {} THEN 0 ELSE Any(s).credit + g[s \ {Any(s)}]]
  <2>1. MapThenSumSet(LAMBDA e : e.credit, entries) = (CHOOSE g : g = Sum(g))[entries]
    BY DEF MapThenSumSet, MapThenFoldSet, Any
  <2>2. \A g : Sums(g, credits, entries) <=> g = Sum(g)
    BY AnyInSet DEF Sums
  <2> HIDE DEF Sum, credits
  <2>3. (CHOOSE g : Sums(g, credits, entries)) = (CHOOSE g : g = Sum(g))
    BY <2>2
  <2> QED
    BY <2>1, <2>3 DEF SumOver
<1> HIDE DEF debits, credits
<1>3. MapThenSumSet(LAMBDA e : e.debit, entries) = SumOver([e \in entries |-> e.debit], entries)
  BY <1>1 DEF debits
<1>4. MapThenSumSet(LAMBDA e : e.credit, entries) = SumOver([e \in entries |-> e.credit], entries)
  BY <1>2 DEF credits
<1> QED
  BY <1>3, <1>4

(* A pair of entries balances: one debits what the other credits.          *)
LEMMA PairBalances ==
    ASSUME NEW k \in Keys, NEW i \in Invoices, NEW amount \in Int
    PROVE  GLEntriesAreBalanced(BalancedGLEntries(k, i, amount))
<1> DEFINE expense == [posting |-> k, invoice_id |-> i, account_code |-> "EXPENSE",
                       debit |-> amount, credit |-> 0]
           payable == [posting |-> k, invoice_id |-> i, account_code |-> "AP_CONTROL",
                       debit |-> 0, credit |-> amount]
           entries == BalancedGLEntries(k, i, amount)
           debits == [e \in entries |-> e.debit]
           credits == [e \in entries |-> e.credit]
<1>1. entries = {expense, payable} /\ expense # payable
  BY DEF BalancedGLEntries
<1>2. /\ expense.debit = amount /\ expense.credit = 0
      /\ payable.debit = 0 /\ payable.credit = amount
  OBVIOUS
<1>3. /\ debits[expense] = amount /\ debits[payable] = 0
      /\ credits[expense] = 0 /\ credits[payable] = amount
  BY <1>1, <1>2
<1> HIDE DEF expense, payable
<1>4. MapThenSumSet(LAMBDA e : e.debit, entries) = SumOver(debits, entries)
  BY EntriesSum
<1>5. MapThenSumSet(LAMBDA e : e.credit, entries) = SumOver(credits, entries)
  BY EntriesSum
<1> HIDE DEF debits, credits, entries
<1>6. ASSUME NEW f, f[expense] \in Int, f[payable] \in Int
      PROVE  SumOver(f, entries) = f[expense] + f[payable]
  <2>1. IsFiniteSet(entries) /\ IsFiniteSet({payable})
    <3>1. IsFiniteSet({payable})
      BY FS_Singleton
    <3>2. entries = {payable} \cup {expense}
      BY <1>1
    <3> QED
      BY <3>1, <3>2, FS_AddElement
  <2>2. SumOver(f, entries) = f[expense] + SumOver(f, {payable})
    <3>1. entries \ {expense} = {payable} /\ expense \in entries
      BY <1>1
    <3>2. \A e \in entries : f[e] \in Int
      BY <1>1, <1>6
    <3>3. SumOver(f, entries) = f[expense] + SumOver(f, entries \ {expense})
      BY <2>1, <3>1, <3>2, SumTakes
    <3> QED
      BY <3>1, <3>3
  <2>3. SumOver(f, {payable}) = f[payable] + SumOver(f, {})
    <3>1. {payable} \ {payable} = {}
      OBVIOUS
    <3>2. SumOver(f, {payable}) = f[payable] + SumOver(f, {payable} \ {payable})
      BY <1>6, <2>1, SumTakes
    <3> QED
      BY <3>1, <3>2
  <2> QED
    BY <1>6, <2>2, <2>3, SumEmpty
<1>7. SumOver(debits, entries) = amount /\ SumOver(credits, entries) = amount
  BY <1>3, <1>6
<1> QED
  BY <1>1, <1>4, <1>5, <1>7 DEF GLEntriesAreBalanced, entries

(* An approval posts two entries.                                          *)
LEMMA PairIsFinite ==
    ASSUME NEW k, NEW i, NEW amount
    PROVE  IsFiniteSet(BalancedGLEntries(k, i, amount))
<1> DEFINE expense == [posting |-> k, invoice_id |-> i, account_code |-> "EXPENSE",
                       debit |-> amount, credit |-> 0]
           payable == [posting |-> k, invoice_id |-> i, account_code |-> "AP_CONTROL",
                       debit |-> 0, credit |-> amount]
<1>1. BalancedGLEntries(k, i, amount) = {expense} \cup {payable}
  BY DEF BalancedGLEntries
<1> HIDE DEF expense, payable
<1>2. IsFiniteSet({expense})
  BY FS_Singleton
<1>3. IsFiniteSet({expense} \cup {payable})
  BY <1>2, FS_AddElement
<1> QED
  BY <1>1, <1>3

(* Two sets of balanced entries balance together.                          *)
LEMMA BalancedTogether ==
    ASSUME NEW S, NEW T, IsFiniteSet(S), IsFiniteSet(T), S \cap T = {},
           \A e \in S \cup T : e.debit \in Int /\ e.credit \in Int,
           GLEntriesAreBalanced(S), GLEntriesAreBalanced(T)
    PROVE  GLEntriesAreBalanced(S \cup T)
<1> DEFINE all == S \cup T
           Debits(U) == [e \in U |-> e.debit]
           Credits(U) == [e \in U |-> e.credit]
<1>1. ASSUME NEW U \in SUBSET all
      PROVE  /\ \A e \in U : Debits(U)[e] = Debits(all)[e] /\ Credits(U)[e] = Credits(all)[e]
             /\ MapThenSumSet(LAMBDA e : e.debit, U) = SumOver(Debits(U), U)
             /\ MapThenSumSet(LAMBDA e : e.credit, U) = SumOver(Credits(U), U)
  BY EntriesSum
<1>2. \A e \in all : Debits(all)[e] \in Int /\ Credits(all)[e] \in Int
  OBVIOUS
<1>3. SumOver(Debits(S), S) = SumOver(Credits(S), S) /\ SumOver(Debits(T), T) = SumOver(Credits(T), T)
  BY <1>1 DEF GLEntriesAreBalanced
<1>4. S # {}
  BY DEF GLEntriesAreBalanced
<1>5. S \in SUBSET all /\ T \in SUBSET all /\ all \in SUBSET all
  OBVIOUS
<1>6. ASSUME SumOver(Debits(all), all) = SumOver(Credits(all), all)
      PROVE  GLEntriesAreBalanced(all)
  BY <1>1, <1>4, <1>5, <1>6 DEF GLEntriesAreBalanced
<1> HIDE DEF Debits, Credits
<1>7. /\ SumOver(Debits(all), S) = SumOver(Credits(all), S)
      /\ SumOver(Debits(all), T) = SumOver(Credits(all), T)
  <2>1. /\ SumOver(Debits(all), S) = SumOver(Debits(S), S)
        /\ SumOver(Credits(all), S) = SumOver(Credits(S), S)
    BY <1>1, <1>5, SumSame
  <2>2. /\ SumOver(Debits(all), T) = SumOver(Debits(T), T)
        /\ SumOver(Credits(all), T) = SumOver(Credits(T), T)
    BY <1>1, <1>5, SumSame
  <2> QED
    BY <1>3, <2>1, <2>2
<1>8. /\ SumOver(Debits(all), all) = SumOver(Debits(all), S) + SumOver(Debits(all), T)
      /\ SumOver(Credits(all), all) = SumOver(Credits(all), S) + SumOver(Credits(all), T)
  BY <1>2, SumOfParts
<1> QED
  BY <1>6, <1>7, <1>8

-----------------------------------------------------------------------------
(* Tables are finite                                                       *)

(* The receipts and the invoices there are.  Ids and keys may be infinite  *)
(* in number; rows never are.                                              *)
FinitelyManyRows ==
    /\ IsFiniteSet({k \in Keys : goods_receipts[k] # None})
    /\ IsFiniteSet({i \in Invoices : invoices[i] # None})

(* Only a receive request adds a receipt.                                  *)
LEMMA ReceiptMoves ==
    ASSUME [Next]_vars
    PROVE  \/ UNCHANGED goods_receipts
           \/ \E k \in Keys, p \in PurchaseOrders, delivery \in Deliveries :
                 ReceiveGoods(k, p, delivery)
<1> USE DEF history
<1>1. ASSUME NEW k \in Keys, OrderStep(k)
      PROVE  \/ UNCHANGED goods_receipts
             \/ \E p \in PurchaseOrders, delivery \in Deliveries : ReceiveGoods(k, p, delivery)
  BY <1>1 DEF OrderStep, CreatePurchaseOrder, SubmitPurchaseOrder
<1>2. ASSUME NEW k \in Keys, InvoiceStep(k)
      PROVE  UNCHANGED goods_receipts
  BY <1>2 DEF InvoiceStep, CreateInvoice, MatchInvoice, ApproveInvoice, PayInvoice
<1>3. ASSUME NEW k \in Keys, DispatchCreditCheck(k) \/ CreditCheckFails(k)
      PROVE  UNCHANGED goods_receipts
  BY <1>3 DEF DispatchCreditCheck, CreditCheckFails
<1>4. Restart \/ UNCHANGED vars => UNCHANGED goods_receipts
  BY DEF Restart, vars
<1> QED
  BY <1>1, <1>2, <1>3, <1>4 DEF Next

(* A step adds one receipt or one invoice at most.                         *)
LEMMA FinitelyManyRowsStep ==
    ASSUME TypeOK, FinitelyManyRows, [Next]_vars
    PROVE  FinitelyManyRows'
<1> DEFINE receipts == {k \in Keys : goods_receipts[k] # None}
           rows == {i \in Invoices : invoices[i] # None}
<1> USE DEF FinitelyManyRows
<1>1. IsFiniteSet(receipts')
  <2>1. CASE UNCHANGED goods_receipts
    BY <2>1
  <2>2. ASSUME NEW k \in Keys, NEW p \in PurchaseOrders, NEW delivery \in Deliveries,
               ReceiveGoods(k, p, delivery)
        PROVE  IsFiniteSet(receipts')
    <3>1. \A j \in Keys : j # k => goods_receipts'[j] = goods_receipts[j]
      BY <2>2 DEF ReceiveGoods, TypeOK
    <3>2. receipts' \subseteq receipts \cup {k}
      BY <3>1
    <3> HIDE DEF receipts
    <3>3. IsFiniteSet(receipts \cup {k})
      BY FS_AddElement DEF receipts
    <3> QED
      BY <3>2, <3>3, FS_Subset
  <2> QED
    BY <2>1, <2>2, ReceiptMoves
<1>2. IsFiniteSet(rows')
  <2>1. CASE UNCHANGED invoices
    BY <2>1
  <2>2. ASSUME NEW i \in Invoices, NEW new \in Invoice, invoices' = [invoices EXCEPT ![i] = new]
        PROVE  IsFiniteSet(rows')
    <3>1. \A j \in Invoices : j # i => invoices'[j] = invoices[j]
      BY <2>2 DEF TypeOK
    <3>2. rows' \subseteq rows \cup {i}
      BY <3>1
    <3> HIDE DEF rows
    <3>3. IsFiniteSet(rows \cup {i})
      BY FS_AddElement DEF rows
    <3> QED
      BY <3>2, <3>3, FS_Subset
  <2> QED
    BY <2>1, <2>2, InvoiceMoves
<1> QED
  BY <1>1, <1>2

(* The tables stay finite.                                                 *)
THEOREM TablesAreFinite == Spec => []FinitelyManyRows
<1>1. Init => FinitelyManyRows
  BY FS_EmptySet DEF Init, FinitelyManyRows
<1>2. TypeOK /\ TasksHaveChecks /\ FinitelyManyRows /\ [Next]_vars => FinitelyManyRows'
  BY FinitelyManyRowsStep
<1> QED
  BY <1>1, <1>2, TypeCorrect, PTL DEF Spec

-----------------------------------------------------------------------------
(* Receipts add up                                                         *)

(* What a step leaves of an order's lines and prices. *)
SameLines(old, new) ==
    /\ old # None
    /\ new.qty_ordered = old.qty_ordered
    /\ new.qty_received = old.qty_received
    /\ new.unit_cost = old.unit_cost

(* Only a receipt touches the lines of an order there is, and a new order  *)
(* has received nothing.                                                   *)
LEMMA LineMoves ==
    ASSUME TypeOK, InvoiceLinks, [Next]_vars
    PROVE  \/ /\ UNCHANGED goods_receipts
              /\ \A q \in PurchaseOrders : purchase_orders'[q] # None =>
                    \/ SameLines(purchase_orders[q], purchase_orders'[q])
                    \/ /\ purchase_orders[q] = None
                       /\ \A l \in Lines : purchase_orders'[q].qty_received[l] = 0
           \/ \E k \in Keys, p \in PurchaseOrders, delivery \in Deliveries :
                 ReceiveGoods(k, p, delivery)
<1> DEFINE Kept == \A q \in PurchaseOrders : purchase_orders'[q] # None =>
                      \/ SameLines(purchase_orders[q], purchase_orders'[q])
                      \/ /\ purchase_orders[q] = None
                         /\ \A l \in Lines : purchase_orders'[q].qty_received[l] = 0
<1>1. UNCHANGED purchase_orders => Kept
  BY DEF SameLines
<1>2. ASSUME NEW p \in PurchaseOrders, NEW new, purchase_orders' = [purchase_orders EXCEPT ![p] = new],
             \/ SameLines(purchase_orders[p], new)
             \/ purchase_orders[p] = None /\ \A l \in Lines : new.qty_received[l] = 0
      PROVE  Kept
  <2>1. /\ purchase_orders'[p] = new
        /\ \A q \in PurchaseOrders : q # p => purchase_orders'[q] = purchase_orders[q]
    BY <1>2 DEF TypeOK
  <2> QED
    BY <1>2, <2>1 DEF SameLines
<1> HIDE DEF Kept
<1>3. ASSUME NEW k \in Keys, NEW p \in PurchaseOrders, NEW v \in VendorIds, NEW order \in Orders,
             CreatePurchaseOrder(k, v, order, p)
      PROVE  Kept
  <2> DEFINE new == DraftPurchaseOrder(v, order, k)
  <2>1. purchase_orders' = [purchase_orders EXCEPT ![p] = new] /\ purchase_orders[p] = None
    BY <1>3 DEF CreatePurchaseOrder
  <2>2. \A l \in Lines : new.qty_received[l] = 0
    BY DEF DraftPurchaseOrder
  <2> HIDE DEF new
  <2> QED
    BY <1>2, <2>1, <2>2
<1>4. ASSUME NEW k \in Keys, NEW p \in PurchaseOrders, SubmitPurchaseOrder(k, p)
      PROVE  Kept
  <2> DEFINE new == Submitted(purchase_orders[p], k)
  <2>1. purchase_orders[p] \in PurchaseOrder /\ purchase_orders[p] # None
    BY <1>4 DEF SubmitPurchaseOrder, SubmitRefusal, TypeOK
  <2>2. SameLines(purchase_orders[p], new)
    BY <2>1 DEF SameLines, Submitted, PurchaseOrder
  <2>3. purchase_orders' = [purchase_orders EXCEPT ![p] = new]
    BY <1>4 DEF SubmitPurchaseOrder
  <2> HIDE DEF new
  <2> QED
    BY <1>2, <2>2, <2>3
<1>5. ASSUME NEW k \in Keys, NEW i \in Invoices, NEW v \in VendorIds, NEW p \in PurchaseOrders,
             NEW number \in InvoiceNumbers, NEW amount \in Amounts, NEW channel \in Channels,
             CreateInvoice(k, v, p, number, amount, i, channel)
      PROVE  Kept
  <2> DEFINE new == [purchase_orders[p] EXCEPT !.invoice_id = i]
  <2>1. purchase_orders[p] \in PurchaseOrder /\ purchase_orders[p] # None
    BY <1>5 DEF CreateInvoice, InvoiceRefusal, TypeOK
  <2>2. SameLines(purchase_orders[p], new)
    BY <2>1 DEF SameLines, PurchaseOrder
  <2>3. purchase_orders' = [purchase_orders EXCEPT ![p] = new]
    BY <1>5 DEF CreateInvoice
  <2> HIDE DEF new
  <2> QED
    BY <1>2, <2>2, <2>3
<1>6. ASSUME NEW k \in Keys, NEW i \in Invoices,
             MatchInvoice(k, i) \/ \E channel \in Channels : ApproveInvoice(k, i, channel)
      PROVE  UNCHANGED purchase_orders
  BY <1>6 DEF MatchInvoice, ApproveInvoice
<1>7. ASSUME NEW k \in Keys, NEW i \in Invoices, PayInvoice(k, i)
      PROVE  Kept
  <2> DEFINE p == invoices[i].purchase_order_id
             new == Closed(purchase_orders[p])
  <2>1. p \in PurchaseOrders /\ purchase_orders[p] \in PurchaseOrder /\ purchase_orders[p] # None
    BY <1>7, LinkedOrder DEF PayInvoice
  <2>2. SameLines(purchase_orders[p], new)
    BY <2>1 DEF SameLines, Closed, PurchaseOrder
  <2>3. purchase_orders' = [purchase_orders EXCEPT ![p] = new]
    BY <1>7 DEF PayInvoice
  <2> HIDE DEF new, p
  <2> QED
    BY <1>2, <2>1, <2>2, <2>3
<1>8. \/ Kept
      \/ \E k \in Keys, p \in PurchaseOrders, delivery \in Deliveries : ReceiveGoods(k, p, delivery)
  BY <1>1, <1>3, <1>4, <1>5, <1>6, <1>7, StepCases DEF Kept
<1> QED
  BY <1>8, ReceiptMoves DEF Kept

(* Every receipt is of an order in the table.                              *)
ReceiptsHaveOrders ==
    \A k \in Keys : goods_receipts[k] # None => purchase_orders[goods_receipts[k].po_id] # None

(* No step removes an order, and a receipt is for an order found.          *)
LEMMA ReceiptsHaveOrdersStep ==
    ASSUME TypeOK, InvoiceLinks, ReceiptsHaveOrders, [Next]_vars
    PROVE  ReceiptsHaveOrders'
<1> USE DEF ReceiptsHaveOrders
<1>1. \A q \in PurchaseOrders : purchase_orders[q] # None => purchase_orders'[q] # None
  BY OrdersAdvance DEF OrderAdvances
<1>2. \A k \in Keys : goods_receipts[k] # None => goods_receipts[k].po_id \in PurchaseOrders
  BY DEF TypeOK, GoodsReceipt
<1>3. CASE UNCHANGED goods_receipts
  BY <1>1, <1>2, <1>3
<1>4. ASSUME NEW k \in Keys, NEW p \in PurchaseOrders, NEW delivery \in Deliveries,
             ReceiveGoods(k, p, delivery)
      PROVE  ReceiptsHaveOrders'
  <2>1. /\ goods_receipts'[k].po_id = p
        /\ \A j \in Keys : j # k => goods_receipts'[j] = goods_receipts[j]
    BY <1>4 DEF ReceiveGoods, TypeOK
  <2>2. purchase_orders[p] # None
    BY <1>4 DEF ReceiveGoods, ReceiptRefusal
  <2> QED
    BY <1>1, <1>2, <2>1, <2>2
<1> QED
  BY <1>3, <1>4, ReceiptMoves

(* ReceiptsAddUp with the sum of a function.                               *)
AddUp(orders, receipts) ==
    \A p \in PurchaseOrders : orders[p] # None =>
        \A l \in Lines :
            orders[p].qty_received[l] =
                SumOver(QuantitiesOf(receipts, ReceiptsOf(receipts, p), l), ReceiptsOf(receipts, p))

(* It says the same.                                                       *)
LEMMA ReceiptsAddUpAsSums ==
    /\ ReceiptsAddUp <=> AddUp(purchase_orders, goods_receipts)
    /\ ReceiptsAddUp' <=> AddUp(purchase_orders', goods_receipts')
<1>1. ASSUME NEW receipts, NEW p, NEW l
      PROVE  MapThenSumSet(LAMBDA k : receipts[k].line_items[l],
                           {k \in Keys : receipts[k] # None /\ receipts[k].po_id = p})
               = SumOver(QuantitiesOf(receipts, ReceiptsOf(receipts, p), l), ReceiptsOf(receipts, p))
  BY ReceiptsSum DEF ReceiptsOf
<1>2. ReceiptsAddUp <=> AddUp(purchase_orders, goods_receipts)
  BY <1>1 DEF ReceiptsAddUp, AddUp
<1>3. (ReceiptsAddUp <=> AddUp(purchase_orders, goods_receipts))'
  BY <1>2, PTL
<1> QED
  BY <1>2, <1>3

(* A receipt adds to the lines of its order what it adds to the receipts.  *)
LEMMA ReceiveAddsUp ==
    ASSUME TypeOK, FinitelyManyRows, AddUp(purchase_orders, goods_receipts),
           NEW k \in Keys, NEW p \in PurchaseOrders, NEW delivery \in Deliveries,
           ReceiveGoods(k, p, delivery)
    PROVE  AddUp(purchase_orders', goods_receipts')
<1>1. /\ goods_receipts[k] = None
      /\ goods_receipts'[k] = [po_id |-> p, line_items |-> delivery]
      /\ goods_receipts'[k] # None
      /\ \A j \in Keys : j # k => goods_receipts'[j] = goods_receipts[j]
  <2>1. delivery \in LineQuantities
    BY DeliveriesAssumption
  <2>2. [po_id |-> p, line_items |-> delivery] \in GoodsReceipt
    BY <2>1 DEF GoodsReceipt
  <2> QED
    BY <2>2, NoneIsNoRow DEF ReceiveGoods, TypeOK
<1>2. /\ purchase_orders[p] \in PurchaseOrder /\ purchase_orders[p] # None
      /\ \A q \in PurchaseOrders : q # p => purchase_orders'[q] = purchase_orders[q]
      /\ purchase_orders'[p] = Received(purchase_orders[p], delivery)
  BY DEF ReceiveGoods, ReceiptRefusal, TypeOK
<1>3. \A l \in Lines :
          purchase_orders'[p].qty_received[l] = purchase_orders[p].qty_received[l] + delivery[l]
  BY <1>2 DEF Received, PurchaseOrder
<1>4. ASSUME NEW q \in PurchaseOrders, q # p, NEW l \in Lines
      PROVE  /\ ReceiptsOf(goods_receipts', q) = ReceiptsOf(goods_receipts, q)
             /\ QuantitiesOf(goods_receipts', ReceiptsOf(goods_receipts, q), l)
                  = QuantitiesOf(goods_receipts, ReceiptsOf(goods_receipts, q), l)
  <2>1. ReceiptsOf(goods_receipts', q) = ReceiptsOf(goods_receipts, q)
    BY <1>1, <1>4 DEF ReceiptsOf
  <2>2. \A j \in ReceiptsOf(goods_receipts, q) : goods_receipts'[j] = goods_receipts[j]
    BY <1>1 DEF ReceiptsOf
  <2> QED
    BY <2>1, <2>2 DEF QuantitiesOf
<1>5. ASSUME NEW l \in Lines
      PROVE  purchase_orders'[p].qty_received[l] =
               SumOver(QuantitiesOf(goods_receipts', ReceiptsOf(goods_receipts', p), l),
                       ReceiptsOf(goods_receipts', p))
  <2> DEFINE old == ReceiptsOf(goods_receipts, p)
             new == ReceiptsOf(goods_receipts', p)
             before == QuantitiesOf(goods_receipts, old, l)
             after == QuantitiesOf(goods_receipts', new, l)
  <2>1. new = old \cup {k} /\ k \notin old
    BY <1>1 DEF ReceiptsOf
  <2>2. IsFiniteSet(old)
    BY FS_Subset DEF FinitelyManyRows, ReceiptsOf
  <2>3. IsFiniteSet(new)
    BY <2>1, <2>2, FS_AddElement
  <2>4. \A j \in old : /\ after[j] = before[j]
                       /\ before[j] \in Int
    BY <1>1, <2>1 DEF QuantitiesOf, ReceiptsOf, TypeOK, GoodsReceipt, LineQuantities
  <2>5. after[k] = delivery[l] /\ delivery[l] \in Int
    BY <1>1, <2>1, DeliveriesAssumption DEF QuantitiesOf, LineQuantities
  <2>6. SumOver(before, old) = purchase_orders[p].qty_received[l]
    BY <1>2 DEF AddUp
  <2> HIDE DEF old, new, before, after
  <2>7. SumOver(after, new) = after[k] + SumOver(after, new \ {k})
    BY <2>1, <2>3, <2>4, <2>5, SumTakes
  <2>8. new \ {k} = old
    BY <2>1
  <2>9. SumOver(after, old) = SumOver(before, old)
    BY <2>2, <2>4, SumSame
  <2>10. SumOver(after, new) = delivery[l] + purchase_orders[p].qty_received[l]
    BY <2>5, <2>6, <2>7, <2>8, <2>9
  <2>11. purchase_orders[p].qty_received[l] \in Int
    BY <1>2 DEF PurchaseOrder, LineQuantities
  <2>12. purchase_orders'[p].qty_received[l] = SumOver(after, new)
    BY <1>3, <2>5, <2>10, <2>11
  <2> QED
    BY <2>12 DEF new, after
<1> QED
  BY <1>2, <1>4, <1>5 DEF AddUp

(* Every step keeps the two in step.                                       *)
LEMMA ReceiptsAddUpStep ==
    ASSUME TypeOK, InvoiceLinks, FinitelyManyRows, ReceiptsHaveOrders, ReceiptsAddUp, [Next]_vars
    PROVE  ReceiptsAddUp'
<1>1. AddUp(purchase_orders, goods_receipts)
  BY ReceiptsAddUpAsSums
<1>2. ASSUME UNCHANGED goods_receipts,
             \A q \in PurchaseOrders : purchase_orders'[q] # None =>
                \/ SameLines(purchase_orders[q], purchase_orders'[q])
                \/ /\ purchase_orders[q] = None
                   /\ \A l \in Lines : purchase_orders'[q].qty_received[l] = 0
      PROVE  AddUp(purchase_orders', goods_receipts')
  <2> SUFFICES ASSUME NEW q \in PurchaseOrders, purchase_orders'[q] # None, NEW l \in Lines
               PROVE  purchase_orders'[q].qty_received[l] =
                        SumOver(QuantitiesOf(goods_receipts, ReceiptsOf(goods_receipts, q), l),
                                ReceiptsOf(goods_receipts, q))
    BY <1>2 DEF AddUp
  <2>1. CASE SameLines(purchase_orders[q], purchase_orders'[q])
    BY <1>1, <2>1 DEF AddUp, SameLines
  <2>2. CASE purchase_orders[q] = None /\ purchase_orders'[q].qty_received[l] = 0
    <3>1. ReceiptsOf(goods_receipts, q) = {}
      BY <2>2 DEF ReceiptsOf, ReceiptsHaveOrders
    <3> QED
      BY <2>2, <3>1, SumEmpty
  <2> QED
    BY <1>2, <2>1, <2>2
<1>3. AddUp(purchase_orders', goods_receipts')
  BY <1>1, <1>2, ReceiveAddsUp, LineMoves
<1> QED
  BY <1>3, ReceiptsAddUpAsSums

(* In every reachable state what an order's line has received is the sum   *)
(* of the receipts recorded for it, however many there are.                *)
THEOREM ReceiptsAlwaysAddUp == Spec => []ReceiptsAddUp
<1>1. Init => ReceiptsHaveOrders /\ ReceiptsAddUp
  BY DEF Init, ReceiptsHaveOrders, ReceiptsAddUp
<1>2. TypeOK /\ TasksHaveChecks /\ InvoiceLinks /\ FinitelyManyRows /\ ReceiptsHaveOrders
        /\ ReceiptsAddUp /\ [Next]_vars => ReceiptsHaveOrders' /\ ReceiptsAddUp'
  BY ReceiptsHaveOrdersStep, ReceiptsAddUpStep
<1> QED
  BY <1>1, <1>2, TypeCorrect, OrdersAndInvoicesLinked, TablesAreFinite, PTL DEF Spec

-----------------------------------------------------------------------------
(* What is matched stays covered                                           *)

(* The value of the lines of an order is a natural number, ...             *)
LEMMA LineValueType ==
    ASSUME NEW quantities \in LineQuantities, NEW costs \in LineQuantities
    PROVE  LineValue(quantities, costs) \in Nat
<1> DEFINE products == Products(quantities, costs)
<1>1. \A l \in Lines : products[l] \in Nat
  <2>1. \A l \in Lines : quantities[l] \in Nat /\ costs[l] \in Nat
    BY DEF LineQuantities
  <2>2. \A m, n \in Nat : m * n \in Nat
    OBVIOUS
  <2> QED
    BY <2>1, <2>2 DEF Products
<1> HIDE DEF products
<1>2. SumOver(products, Lines) \in Nat
  BY <1>1, LinesAssumption, SumIsNat
<1> QED
  BY <1>2, LineValueSum DEF products

(* ... and larger quantities are worth more.                               *)
LEMMA LineValueGrows ==
    ASSUME NEW fewer \in LineQuantities, NEW more \in LineQuantities,
           NEW costs \in LineQuantities, \A l \in Lines : fewer[l] <= more[l]
    PROVE  LineValue(fewer, costs) <= LineValue(more, costs)
<1> DEFINE low == Products(fewer, costs)
           high == Products(more, costs)
<1>1. ASSUME NEW l \in Lines
      PROVE  low[l] \in Int /\ high[l] \in Int /\ low[l] <= high[l]
  <2>1. fewer[l] \in Nat /\ more[l] \in Nat /\ costs[l] \in Nat /\ fewer[l] <= more[l]
    BY DEF LineQuantities
  <2>2. \A m, n, c \in Nat : m <= n => m * c \in Int /\ n * c \in Int /\ m * c <= n * c
    <3>1. ASSUME NEW m \in Nat, NEW n \in Nat, NEW c \in Nat, m <= n
          PROVE  m * c <= n * c
      <4> DEFINE d == n - m
      <4>1. d \in Nat /\ n = m + d
        BY <3>1
      <4> HIDE DEF d
      <4>2. n * c = m * c + d * c
        BY <4>1
      <4>3. m * c \in Nat /\ d * c \in Nat
        BY <4>1
      <4> QED
        BY <4>2, <4>3
    <3>2. \A m, c \in Nat : m * c \in Int
      OBVIOUS
    <3> QED
      BY <3>1, <3>2
  <2> QED
    BY <2>1, <2>2 DEF Products
<1> HIDE DEF low, high
<1>2. SumOver(low, Lines) <= SumOver(high, Lines)
  BY <1>1, LinesAssumption, SumIsMonotone
<1> QED
  BY <1>2, LineValueSum DEF low, high

(* So goods that arrive only add to the value received, ...                *)
LEMMA ReceivedValueGrows ==
    ASSUME NEW old \in PurchaseOrder, NEW new \in PurchaseOrder, new.unit_cost = old.unit_cost,
           \A l \in Lines : old.qty_received[l] <= new.qty_received[l]
    PROVE  ReceivedValue(old) <= ReceivedValue(new)
<1>1. /\ old.qty_received \in LineQuantities /\ new.qty_received \in LineQuantities
      /\ old.unit_cost \in LineQuantities
  BY DEF PurchaseOrder
<1> QED
  BY <1>1, LineValueGrows DEF ReceivedValue

(* ... which never exceeds the value ordered.                              *)
LEMMA ReceivedWithinOrdered ==
    ASSUME NEW po \in PurchaseOrder, \A l \in Lines : po.qty_received[l] <= po.qty_ordered[l]
    PROVE  ReceivedValue(po) <= OrderedValue(po)
<1>1. po.qty_received \in LineQuantities /\ po.qty_ordered \in LineQuantities
      /\ po.unit_cost \in LineQuantities
  BY DEF PurchaseOrder
<1> QED
  BY <1>1, LineValueGrows DEF ReceivedValue, OrderedValue

(* A match that is not blocked has the goods for it.                       *)
LEMMA UnblockedIsCovered ==
    ASSUME NEW amount \in Int, NEW po \in PurchaseOrder
    PROVE  MatchOutcome(amount, po) # "BLOCKED" <=> amount <= ReceivedValue(po)
<1>1. ReceivedValue(po) \in Int
  BY LineValueType DEF ReceivedValue, PurchaseOrder
<1> QED
  BY <1>1 DEF MatchOutcome

(* The part of MatchedStaysCovered that is inductive: the rest follows     *)
(* from NeverOverReceived.                                                 *)
Covered ==
    \A i \in Invoices : (invoices[i] # None /\ invoices[i].status # "PENDING") =>
        /\ invoices[i].last_match_outcome \in {"MATCHED_WITH_WARNING", "MATCHED"}
        /\ invoices[i].invoice_amount
             <= ReceivedValue(purchase_orders[invoices[i].purchase_order_id])

(* A step takes an invoice out of PENDING, or changes its outcome, only by *)
(* a match that finds the goods.  Matching it again finds them again.      *)
LEMMA CoverMoves ==
    ASSUME TypeOK, InvoiceLinks, Covered, [Next]_vars, NEW j \in Invoices,
           invoices'[j] # None, invoices'[j].status # "PENDING"
    PROVE  /\ invoices[j] \in Invoice
           /\ invoices[j].purchase_order_id \in PurchaseOrders
           /\ invoices'[j].purchase_order_id = invoices[j].purchase_order_id
           /\ invoices'[j].invoice_amount = invoices[j].invoice_amount
           /\ invoices'[j].last_match_outcome \in {"MATCHED_WITH_WARNING", "MATCHED"}
           /\ invoices[j].invoice_amount
                <= ReceivedValue(purchase_orders[invoices[j].purchase_order_id])
<1> DEFINE Goal(new) ==
              /\ invoices[j] \in Invoice
              /\ invoices[j].purchase_order_id \in PurchaseOrders
              /\ new.purchase_order_id = invoices[j].purchase_order_id
              /\ new.invoice_amount = invoices[j].invoice_amount
              /\ new.last_match_outcome \in {"MATCHED_WITH_WARNING", "MATCHED"}
              /\ invoices[j].invoice_amount
                   <= ReceivedValue(purchase_orders[invoices[j].purchase_order_id])
<1>1. CASE invoices'[j] = invoices[j]
  BY <1>1, LinkedOrder DEF Covered
<1>2. ASSUME NEW k \in Keys, NEW v \in VendorIds, NEW p \in PurchaseOrders,
             NEW number \in InvoiceNumbers, NEW amount \in Amounts, NEW channel \in Channels,
             CreateInvoice(k, v, p, number, amount, j, channel)
      PROVE  FALSE
  BY <1>2 DEF CreateInvoice, PendingInvoice, TypeOK
<1>3. ASSUME NEW k \in Keys, MatchInvoice(k, j)
      PROVE  Goal(invoices'[j])
  <2> DEFINE inv == invoices[j]
             po == purchase_orders[inv.purchase_order_id]
             outcome == MatchOutcome(inv.invoice_amount, po)
  <2>1. /\ inv # None /\ inv \in Invoice
        /\ inv.purchase_order_id \in PurchaseOrders /\ po \in PurchaseOrder
        /\ inv.status \in {"PENDING", "MATCHED"}
    BY <1>3, LinkedOrder DEF MatchInvoice, MatchRefusal
  <2>2. inv.invoice_amount \in Int
    BY <2>1, AmountsAssumption DEF Invoice
  <2>3. invoices'[j] = Matched(inv, outcome, k)
    BY <1>3 DEF MatchInvoice, TypeOK
  <2>4. outcome # "BLOCKED"
    <3>1. CASE inv.status = "PENDING"
      BY <2>1, <2>3, <3>1 DEF Matched, Invoice
    <3>2. CASE inv.status = "MATCHED"
      <4>1. inv.invoice_amount <= ReceivedValue(po)
        BY <2>1, <3>2 DEF Covered
      <4> QED
        BY <2>1, <2>2, <4>1, UnblockedIsCovered
    <3> QED
      BY <2>1, <3>1, <3>2
  <2>5. inv.invoice_amount <= ReceivedValue(po)
    BY <2>1, <2>2, <2>4, UnblockedIsCovered
  <2>6. outcome \in {"MATCHED_WITH_WARNING", "MATCHED"}
    BY <2>4, MatchOutcomeType
  <2> HIDE DEF outcome
  <2>7. /\ Matched(inv, outcome, k).purchase_order_id = inv.purchase_order_id
        /\ Matched(inv, outcome, k).invoice_amount = inv.invoice_amount
        /\ Matched(inv, outcome, k).last_match_outcome = outcome
    BY <2>1, <2>4 DEF Matched, Invoice
  <2> QED
    BY <2>1, <2>3, <2>5, <2>6, <2>7
<1>4. ASSUME NEW new \in Invoice, invoices'[j] = new, invoices[j] # None,
             invoices[j].status # "PENDING",
             new.purchase_order_id = invoices[j].purchase_order_id,
             new.invoice_amount = invoices[j].invoice_amount,
             new.last_match_outcome = invoices[j].last_match_outcome
      PROVE  Goal(invoices'[j])
  BY <1>4, LinkedOrder DEF Covered
<1> HIDE DEF Goal
<1>5. ASSUME NEW k \in Keys, NEW channel \in Channels, ApproveInvoice(k, j, channel)
      PROVE  Goal(invoices'[j])
  <2> DEFINE new == Approved(invoices[j], k)
  <2>1. invoices[j] \in Invoice /\ invoices[j] # None /\ invoices[j].status = "MATCHED"
    BY <1>5, InvoiceRowFound DEF ApproveInvoice, ApprovalRefusal
  <2>2. new \in Invoice /\ invoices'[j] = new
    BY <1>5, <2>1, InvoiceRulesReturnRows DEF ApproveInvoice, TypeOK
  <2>3. /\ new.purchase_order_id = invoices[j].purchase_order_id
        /\ new.invoice_amount = invoices[j].invoice_amount
        /\ new.last_match_outcome = invoices[j].last_match_outcome
    BY <2>1 DEF Approved, Invoice
  <2> HIDE DEF new
  <2> QED
    BY <1>4, <2>1, <2>2, <2>3
<1>6. ASSUME NEW k \in Keys, PayInvoice(k, j)
      PROVE  Goal(invoices'[j])
  <2> DEFINE new == Paid(invoices[j], k)
  <2>1. invoices[j] \in Invoice /\ invoices[j] # None /\ invoices[j].status = "APPROVED"
    BY <1>6, InvoiceRowFound DEF PayInvoice, PaymentRefusal
  <2>2. new \in Invoice /\ invoices'[j] = new
    BY <1>6, <2>1, InvoiceRulesReturnRows DEF PayInvoice, TypeOK
  <2>3. /\ new.purchase_order_id = invoices[j].purchase_order_id
        /\ new.invoice_amount = invoices[j].invoice_amount
        /\ new.last_match_outcome = invoices[j].last_match_outcome
    BY <2>1 DEF Paid, Invoice
  <2> HIDE DEF new
  <2> QED
    BY <1>4, <2>1, <2>2, <2>3
<1>7. ASSUME NEW k \in Keys, NEW p \in PurchaseOrders,
             \/ \E v \in VendorIds, order \in Orders : CreatePurchaseOrder(k, v, order, p)
             \/ SubmitPurchaseOrder(k, p)
             \/ \E delivery \in Deliveries : ReceiveGoods(k, p, delivery)
      PROVE  invoices'[j] = invoices[j]
  BY <1>7 DEF CreatePurchaseOrder, SubmitPurchaseOrder, ReceiveGoods
<1>8. ASSUME NEW k \in Keys, NEW i \in Invoices, i # j,
             \/ \E v \in VendorIds, p \in PurchaseOrders, number \in InvoiceNumbers,
                   amount \in Amounts, channel \in Channels :
                   CreateInvoice(k, v, p, number, amount, i, channel)
             \/ MatchInvoice(k, i)
             \/ \E channel \in Channels : ApproveInvoice(k, i, channel)
             \/ PayInvoice(k, i)
      PROVE  invoices'[j] = invoices[j]
  BY <1>8 DEF CreateInvoice, MatchInvoice, ApproveInvoice, PayInvoice, TypeOK
<1>9. invoices'[j] = invoices[j] \/ Goal(invoices'[j])
  BY <1>2, <1>3, <1>5, <1>6, <1>7, <1>8, StepCases
<1> QED
  BY <1>1, <1>9 DEF Goal

(* No step lessens what an order has received, or reprices it.             *)
LEMMA ValuesGrow ==
    ASSUME TypeOK, TypeOK', InvoiceLinks, [Next]_vars, NEW q \in PurchaseOrders,
           purchase_orders[q] # None
    PROVE  /\ ReceivedValue(purchase_orders[q]) \in Int
           /\ ReceivedValue(purchase_orders'[q]) \in Int
           /\ ReceivedValue(purchase_orders[q]) <= ReceivedValue(purchase_orders'[q])
<1>1. OrderAdvances(q)
  BY OrdersAdvance
<1>2. purchase_orders[q] \in PurchaseOrder /\ purchase_orders'[q] \in PurchaseOrder
  BY <1>1 DEF OrderAdvances, TypeOK
<1>3. purchase_orders'[q].unit_cost = purchase_orders[q].unit_cost
  <2>1. ASSUME NEW k \in Keys, NEW p \in PurchaseOrders, NEW delivery \in Deliveries,
               ReceiveGoods(k, p, delivery)
        PROVE  purchase_orders'[q].unit_cost = purchase_orders[q].unit_cost
    BY <1>2, <2>1 DEF ReceiveGoods, Received, PurchaseOrder, TypeOK
  <2> QED
    BY <1>1, <2>1, LineMoves DEF SameLines, OrderAdvances
<1>4. \A l \in Lines : purchase_orders[q].qty_received[l] <= purchase_orders'[q].qty_received[l]
  BY <1>1 DEF OrderAdvances
<1>5. ReceivedValue(purchase_orders[q]) <= ReceivedValue(purchase_orders'[q])
  BY <1>2, <1>3, <1>4, ReceivedValueGrows
<1>6. \A po \in PurchaseOrder : ReceivedValue(po) \in Int
  BY LineValueType DEF ReceivedValue, PurchaseOrder
<1> QED
  BY <1>2, <1>5, <1>6

(* Every step keeps what is matched covered.                               *)
LEMMA CoveredStep ==
    ASSUME TypeOK, TypeOK', InvoiceLinks, Covered, [Next]_vars
    PROVE  Covered'
<1> SUFFICES ASSUME NEW j \in Invoices, invoices'[j] # None, invoices'[j].status # "PENDING"
             PROVE  /\ invoices'[j].last_match_outcome \in {"MATCHED_WITH_WARNING", "MATCHED"}
                    /\ invoices'[j].invoice_amount
                         <= ReceivedValue(purchase_orders'[invoices'[j].purchase_order_id])
  BY DEF Covered
<1> DEFINE p == invoices[j].purchase_order_id
<1>1. /\ invoices[j] \in Invoice
      /\ p \in PurchaseOrders
      /\ invoices'[j].purchase_order_id = p
      /\ invoices'[j].invoice_amount = invoices[j].invoice_amount
      /\ invoices'[j].last_match_outcome \in {"MATCHED_WITH_WARNING", "MATCHED"}
      /\ invoices[j].invoice_amount <= ReceivedValue(purchase_orders[p])
  BY CoverMoves
<1>2. purchase_orders[p] # None
  BY <1>1, LinkedOrder, NoneAssumption
<1>3. invoices[j].invoice_amount \in Int
  BY <1>1, AmountsAssumption DEF Invoice
<1> HIDE DEF p
<1>4. /\ ReceivedValue(purchase_orders[p]) \in Int
      /\ ReceivedValue(purchase_orders'[p]) \in Int
      /\ ReceivedValue(purchase_orders[p]) <= ReceivedValue(purchase_orders'[p])
  BY <1>1, <1>2, ValuesGrow
<1>5. invoices[j].invoice_amount <= ReceivedValue(purchase_orders'[p])
  BY <1>1, <1>3, <1>4
<1> QED
  BY <1>1, <1>5

(* Whatever is delivered and matched in whatever order, an invoice that    *)
(* left PENDING is covered by goods received, within the value ordered.    *)
THEOREM MatchedIsCovered == Spec => []MatchedStaysCovered
<1>1. Init => Covered
  BY DEF Init, Covered
<1>2. TypeOK /\ TypeOK' /\ InvoiceLinks /\ Covered /\ [Next]_vars => Covered'
  BY CoveredStep
<1>3. Spec => []Covered
  BY <1>1, <1>2, TypeCorrect, OrdersAndInvoicesLinked, PTL DEF Spec
<1>4. TypeOK /\ InvoiceLinks /\ NeverOverReceived /\ Covered => MatchedStaysCovered
  BY LinkedOrder, ReceivedWithinOrdered DEF Covered, NeverOverReceived, MatchedStaysCovered
<1> QED
  BY <1>3, <1>4, TypeCorrect, OrdersAndInvoicesLinked, NothingOverReceived, PTL

-----------------------------------------------------------------------------
(* Retries                                                                 *)

(* The row that a replay of a recorded request will ask for, in a stage    *)
(* the request leads to.                                                   *)
RecordHasRow(record) ==
    LET operation == record.request.operation
        id == record.resource_id
    IN  /\ operation \in {"purchase_order.create", "purchase_order.submit",
                          "purchase_order.receive"}
             => id \in PurchaseOrders /\ purchase_orders[id] # None
        /\ operation = "invoice.create" => id \in Invoices /\ invoices[id] # None
        /\ operation = "invoice.match" => id \in Keys /\ invoice_match_snapshots[id] # None
        /\ operation = "invoice.approve" =>
             id \in Invoices /\ invoices[id] # None /\ invoices[id].status \in {"APPROVED", "PAID"}
        /\ operation = "invoice.pay" =>
             id \in Invoices /\ invoices[id] # None /\ invoices[id].status = "PAID"

RecordsHaveRows == \A k \in Keys : Recorded(k) => RecordHasRow(idempotency_keys[k])

(* A row that is there stays there, and in the stage it has reached.       *)
LEMMA RowsStay ==
    ASSUME TypeOK, TypeOK', InvoiceLinks, Stamped, [Next]_vars, NEW record, RecordHasRow(record)
    PROVE  RecordHasRow(record)'
<1>1. \A p \in PurchaseOrders : purchase_orders[p] # None => purchase_orders'[p] # None
  BY OrdersAdvance DEF OrderAdvances
<1>2. ASSUME NEW i \in Invoices, invoices[i] # None
      PROVE  /\ invoices'[i] # None
             /\ invoices[i].status \in {"APPROVED", "PAID"} =>
                  invoices'[i].status \in {"APPROVED", "PAID"}
             /\ invoices[i].status = "PAID" => invoices'[i].status = "PAID"
  <2>1. InvoiceAdvances(i)
    BY InvoicesAdvance DEF Stamped, StampsFollow
  <2>2. /\ invoices'[i] # None
        /\ InvoiceRank(invoices[i].status) <= InvoiceRank(invoices'[i].status)
    BY <1>2, <2>1 DEF InvoiceAdvances
  <2>3. invoices[i].status \in InvoiceStatuses /\ invoices'[i].status \in InvoiceStatuses
    BY <1>2, <2>2 DEF TypeOK, Invoice
  <2> QED
    BY <2>2, <2>3 DEF InvoiceRank, InvoiceStatuses
<1>3. \A k \in Keys : invoice_match_snapshots[k] # None => invoice_match_snapshots'[k] # None
  <2> USE DEF history
  <2>1. ASSUME NEW k \in Keys, OrderStep(k) PROVE UNCHANGED invoice_match_snapshots
    BY <2>1 DEF OrderStep, CreatePurchaseOrder, SubmitPurchaseOrder, ReceiveGoods
  <2>2. ASSUME NEW k \in Keys, NEW i \in Invoices, MatchInvoice(k, i)
        PROVE  \A j \in Keys : invoice_match_snapshots[j] # None => invoice_match_snapshots'[j] # None
    <3>1. invoices[i] \in Invoice /\ invoices[i] # None
      BY <2>2, InvoiceRowFound DEF MatchInvoice
    <3> DEFINE outcome == MatchOutcome(invoices[i].invoice_amount,
                                       purchase_orders[invoices[i].purchase_order_id])
               next == NextAction(invoices[i].invoice_amount,
                                  purchase_orders[invoices[i].purchase_order_id])
    <3>2. outcome \in MatchOutcomes
      BY MatchOutcomeType DEF MatchOutcomes
    <3>3. next \in {"PROCEED_TO_APPROVAL", "WAIT_FOR_RECEIPT", "CORRECT_INVOICE"}
      BY NextActionType
    <3>4. invoice_match_snapshots' = [invoice_match_snapshots EXCEPT ![k] =
             [invoice_id |-> i, outcome |-> outcome, next_action |-> next]]
      BY <2>2 DEF MatchInvoice
    <3> HIDE DEF outcome, next
    <3>5. [invoice_id |-> i, outcome |-> outcome, next_action |-> next] # None
      BY <3>2, <3>3, NoneIsNoRow DEF MatchSnapshot
    <3> QED
      BY <3>4, <3>5 DEF TypeOK
  <2>3. ASSUME NEW k \in Keys, NEW i \in Invoices,
               \/ \E v \in VendorIds, p \in PurchaseOrders, number \in InvoiceNumbers,
                     amount \in Amounts, channel \in Channels :
                     CreateInvoice(k, v, p, number, amount, i, channel)
               \/ \E channel \in Channels : ApproveInvoice(k, i, channel)
               \/ PayInvoice(k, i)
        PROVE  UNCHANGED invoice_match_snapshots
    BY <2>3 DEF CreateInvoice, ApproveInvoice, PayInvoice
  <2>4. ASSUME NEW k \in Keys, DispatchCreditCheck(k) \/ CreditCheckFails(k)
        PROVE  UNCHANGED invoice_match_snapshots
    BY <2>4 DEF DispatchCreditCheck, CreditCheckFails
  <2>5. Restart \/ UNCHANGED vars => UNCHANGED invoice_match_snapshots
    BY DEF Restart, vars
  <2> QED
    BY <2>1, <2>2, <2>3, <2>4, <2>5 DEF Next, InvoiceStep
<1> QED
  BY <1>1, <1>2, <1>3 DEF RecordHasRow

(* A request records itself under its key with the row it has made.        *)
LEMMA RequestRecordsRow ==
    ASSUME TypeOK, TypeOK', InvoiceLinks, NEW k \in Keys, OrderStep(k) \/ InvoiceStep(k)
    PROVE  \E request \in Request, id \in PurchaseOrders \cup Invoices \cup Keys :
              /\ Record(k, request, id)
              /\ RecordHasRow([request |-> request, resource_id |-> id])'
<1> DEFINE Goal == \E request \in Request, id \in PurchaseOrders \cup Invoices \cup Keys :
                      /\ Record(k, request, id)
                      /\ RecordHasRow([request |-> request, resource_id |-> id])'
<1>1. ASSUME NEW p \in PurchaseOrders, NEW request \in Request, Record(k, request, p),
             request.operation \in {"purchase_order.create", "purchase_order.submit",
                                    "purchase_order.receive"},
             purchase_orders'[p] # None
      PROVE  Goal
  BY <1>1 DEF RecordHasRow
<1>2. ASSUME NEW i \in Invoices, NEW request \in Request, Record(k, request, i), invoices'[i] # None,
             \/ request.operation = "invoice.create"
             \/ request.operation = "invoice.approve" /\ invoices'[i].status = "APPROVED"
             \/ request.operation = "invoice.pay" /\ invoices'[i].status = "PAID"
      PROVE  Goal
  BY <1>2 DEF RecordHasRow
<1>3. ASSUME NEW request \in Request, Record(k, request, k), request.operation = "invoice.match",
             invoice_match_snapshots'[k] # None
      PROVE  Goal
  BY <1>3 DEF RecordHasRow
<1> HIDE DEF Goal
<1>4. ASSUME NEW p \in PurchaseOrders, NEW v \in VendorIds, NEW order \in Orders,
             CreatePurchaseOrder(k, v, order, p)
      PROVE  Goal
  <2> DEFINE request == CreateOrderRequest(v, order)
  <2>1. request \in Request /\ request.operation = "purchase_order.create"
    BY DEF Request, CreateOrderRequest
  <2>2. purchase_orders'[p] # None
    BY <1>4, OrderRulesReturnRows, NoneAssumption DEF CreatePurchaseOrder, TypeOK
  <2>3. Record(k, request, p)
    BY <1>4 DEF CreatePurchaseOrder
  <2> HIDE DEF request
  <2> QED
    BY <1>1, <2>1, <2>2, <2>3
<1>5. ASSUME NEW p \in PurchaseOrders, SubmitPurchaseOrder(k, p)
      PROVE  Goal
  <2> DEFINE request == [operation |-> "purchase_order.submit", purchase_order_id |-> p]
  <2>1. request \in Request /\ request.operation = "purchase_order.submit"
    BY DEF Request
  <2>2. purchase_orders'[p] # None
    BY <1>5, OrderRulesReturnRows, NoneAssumption
    DEF SubmitPurchaseOrder, SubmitRefusal, TypeOK
  <2>3. Record(k, request, p)
    BY <1>5 DEF SubmitPurchaseOrder
  <2> HIDE DEF request
  <2> QED
    BY <1>1, <2>1, <2>2, <2>3
<1>6. ASSUME NEW p \in PurchaseOrders, NEW delivery \in Deliveries, ReceiveGoods(k, p, delivery)
      PROVE  Goal
  <2> DEFINE request == ReceiveRequest(p, delivery)
  <2>1. request \in Request /\ request.operation = "purchase_order.receive"
    BY DEF Request, ReceiveRequest
  <2>2. purchase_orders'[p] # None
    BY <1>6, OrderRulesReturnRows, NoneAssumption DEF ReceiveGoods, ReceiptRefusal, TypeOK
  <2>3. Record(k, request, p)
    BY <1>6 DEF ReceiveGoods
  <2> HIDE DEF request
  <2> QED
    BY <1>1, <2>1, <2>2, <2>3
<1>7. ASSUME NEW i \in Invoices, NEW v \in VendorIds, NEW p \in PurchaseOrders,
             NEW number \in InvoiceNumbers, NEW amount \in Amounts, NEW channel \in Channels,
             CreateInvoice(k, v, p, number, amount, i, channel)
      PROVE  Goal
  <2> DEFINE request == CreateInvoiceRequest(v, p, number, amount)
  <2>1. request \in Request /\ request.operation = "invoice.create"
    BY DEF Request, CreateInvoiceRequest
  <2>2. invoices'[i] # None
    BY <1>7, CreateMove, NoneAssumption DEF TypeOK
  <2>3. Record(k, request, i)
    BY <1>7 DEF CreateInvoice
  <2> HIDE DEF request
  <2> QED
    BY <1>2, <2>1, <2>2, <2>3
<1>8. ASSUME NEW i \in Invoices, MatchInvoice(k, i)
      PROVE  Goal
  <2> DEFINE request == [operation |-> "invoice.match", invoice_id |-> i]
  <2>1. request \in Request /\ request.operation = "invoice.match"
    BY DEF Request
  <2>2. invoice_match_snapshots'[k] # None
    <3> DEFINE outcome == MatchOutcome(invoices[i].invoice_amount,
                                       purchase_orders[invoices[i].purchase_order_id])
               next == NextAction(invoices[i].invoice_amount,
                                  purchase_orders[invoices[i].purchase_order_id])
    <3>1. invoice_match_snapshots' = [invoice_match_snapshots EXCEPT ![k] =
             [invoice_id |-> i, outcome |-> outcome, next_action |-> next]]
      BY <1>8 DEF MatchInvoice
    <3>2. outcome \in MatchOutcomes
      BY MatchOutcomeType DEF MatchOutcomes
    <3>3. next \in {"PROCEED_TO_APPROVAL", "WAIT_FOR_RECEIPT", "CORRECT_INVOICE"}
      BY NextActionType
    <3> HIDE DEF outcome, next
    <3>4. [invoice_id |-> i, outcome |-> outcome, next_action |-> next] # None
      BY <3>2, <3>3, NoneIsNoRow DEF MatchSnapshot
    <3> QED
      BY <3>1, <3>4 DEF TypeOK
  <2>3. Record(k, request, k)
    BY <1>8 DEF MatchInvoice
  <2> HIDE DEF request
  <2> QED
    BY <1>3, <2>1, <2>2, <2>3
<1>9. ASSUME NEW i \in Invoices, NEW channel \in Channels, ApproveInvoice(k, i, channel)
      PROVE  Goal
  <2> DEFINE request == [operation |-> "invoice.approve", invoice_id |-> i]
  <2>1. request \in Request /\ request.operation = "invoice.approve"
    BY DEF Request
  <2>2. invoices'[i] # None /\ invoices'[i].status = "APPROVED"
    BY <1>9, ApproveMove, NoneAssumption DEF TypeOK, IsApproved
  <2>3. Record(k, request, i)
    BY <1>9 DEF ApproveInvoice
  <2> HIDE DEF request
  <2> QED
    BY <1>2, <2>1, <2>2, <2>3
<1>10. ASSUME NEW i \in Invoices, PayInvoice(k, i)
       PROVE  Goal
  <2> DEFINE request == [operation |-> "invoice.pay", invoice_id |-> i]
  <2>1. request \in Request /\ request.operation = "invoice.pay"
    BY DEF Request
  <2>2. invoices'[i] # None /\ invoices'[i].status = "PAID"
    BY <1>10, PayMove, NoneAssumption DEF TypeOK, IsPaid
  <2>3. Record(k, request, i)
    BY <1>10 DEF PayInvoice
  <2> HIDE DEF request
  <2> QED
    BY <1>2, <2>1, <2>2, <2>3
<1>11. Goal
  BY <1>4, <1>5, <1>6, <1>7, <1>8, <1>9, <1>10 DEF OrderStep, InvoiceStep
<1> QED
  BY <1>11 DEF Goal

(* Records have rows: the new one has its own, the others keep theirs.     *)
LEMMA RecordsHaveRowsStep ==
    ASSUME TypeOK, TypeOK', InvoiceLinks, Stamped, RecordsHaveRows, [Next]_vars
    PROVE  RecordsHaveRows'
<1>1. \A j \in Keys : Recorded(j) => RecordHasRow(idempotency_keys[j])
  BY DEF RecordsHaveRows
<1>2. CASE UNCHANGED idempotency_keys
  <2> SUFFICES ASSUME NEW j \in Keys, Recorded(j)'
               PROVE  RecordHasRow(idempotency_keys[j])'
    BY DEF RecordsHaveRows
  <2> DEFINE record == idempotency_keys[j]
  <2>1. RecordHasRow(record) /\ record' = record
    BY <1>1, <1>2 DEF Recorded
  <2>2. \A r : RecordHasRow(r) => RecordHasRow(r)'
    BY RowsStay
  <2>3. RecordHasRow(idempotency_keys[j])' <=> \E r : r = idempotency_keys'[j] /\ RecordHasRow(r)'
    BY DEF RecordHasRow
  <2> QED
    BY <2>1, <2>2, <2>3
<1>3. ASSUME NEW k \in Keys, OrderStep(k) \/ InvoiceStep(k)
      PROVE  RecordsHaveRows'
  <2>1. PICK request \in Request, id \in PurchaseOrders \cup Invoices \cup Keys :
          /\ Record(k, request, id)
          /\ RecordHasRow([request |-> request, resource_id |-> id])'
    BY <1>3, RequestRecordsRow
  <2> DEFINE new == [request |-> request, resource_id |-> id]
  <2>2. /\ idempotency_keys'[k] = new
        /\ \A j \in Keys : j # k => idempotency_keys'[j] = idempotency_keys[j]
    BY <2>1 DEF Record, TypeOK
  <2> SUFFICES ASSUME NEW j \in Keys, Recorded(j)'
               PROVE  RecordHasRow(idempotency_keys[j])'
    BY DEF RecordsHaveRows
  <2>3. \A r : RecordHasRow(r) => RecordHasRow(r)'
    BY RowsStay
  <2>4. RecordHasRow(idempotency_keys[j])' <=> \E r : r = idempotency_keys'[j] /\ RecordHasRow(r)'
    BY DEF RecordHasRow
  <2> HIDE DEF new
  <2>5. CASE j = k
    BY <2>1, <2>2, <2>4, <2>5 DEF new
  <2>6. CASE j # k
    BY <1>1, <2>2, <2>3, <2>4, <2>6 DEF Recorded
  <2> QED
    BY <2>5, <2>6
<1>4. ASSUME NEW k \in Keys, DispatchCreditCheck(k) \/ CreditCheckFails(k)
      PROVE  UNCHANGED idempotency_keys
  BY <1>4 DEF DispatchCreditCheck, CreditCheckFails
<1>5. Restart \/ UNCHANGED vars => UNCHANGED idempotency_keys
  BY DEF Restart, vars
<1> QED
  BY <1>2, <1>3, <1>4, <1>5 DEF Next

(* The approval of an invoice that is not paid yet is answered from its    *)
(* stamp and its entries, which are there and balance.                     *)
LEMMA ApprovalReplays ==
    ASSUME TypeOK, Stamped, PostedOnce, NEW i \in Invoices, invoices[i] # None,
           invoices[i].status = "APPROVED"
    PROVE  ReplayApproval(i) = "OK"
<1>1. invoices[i].approved_at # None
  BY DEF Stamped
<1>2. invoices[i].approved_at \in Keys /\ invoices[i].invoice_amount \in Int
  BY <1>1, AmountsAssumption DEF TypeOK, Invoice
<1>3. PostedFor(i) = BalancedGLEntries(invoices[i].approved_at, i, invoices[i].invoice_amount)
  BY DEF PostedOnce
<1>4. GLEntriesAreBalanced(PostedFor(i))
  BY <1>2, <1>3, PairBalances
<1>5. PostedFor(i) # {}
  BY <1>4 DEF GLEntriesAreBalanced
<1> QED
  BY <1>1, <1>4, <1>5 DEF ReplayApproval

(* A recorded request finds what its replay asks for.                      *)
LEMMA RecordedReplays ==
    ASSUME TypeOK, InvoiceLinks, Stamped, PostedOnce, RecordsHaveRows, NEW k \in Keys, Recorded(k)
    PROVE  \/ Replay(k) = "OK"
           \/ /\ idempotency_keys[k].request.operation = "invoice.approve"
              /\ invoices[idempotency_keys[k].resource_id].status = "PAID"
<1> DEFINE operation == idempotency_keys[k].request.operation
           id == idempotency_keys[k].resource_id
<1>1. RecordHasRow(idempotency_keys[k])
  BY DEF RecordsHaveRows
<1>2. operation \in {"purchase_order.create", "purchase_order.submit", "purchase_order.receive",
                     "invoice.create", "invoice.match", "invoice.approve", "invoice.pay"}
  <2>1. idempotency_keys[k] \in IdempotencyRecord
    BY DEF TypeOK, Recorded
  <2>2. \A r \in Request :
          r.operation \in {"purchase_order.create", "purchase_order.submit",
                           "purchase_order.receive", "invoice.create", "invoice.match",
                           "invoice.approve", "invoice.pay"}
    BY DEF Request
  <2> QED
    BY <2>1, <2>2 DEF IdempotencyRecord
<1>3. CASE operation \in {"purchase_order.create", "purchase_order.submit",
                          "purchase_order.receive"}
  BY <1>1, <1>3 DEF Replay, FindsRow, RecordHasRow
<1>4. CASE operation = "invoice.create"
  BY <1>1, <1>4 DEF Replay, FindsRow, RecordHasRow
<1>5. CASE operation = "invoice.match"
  BY <1>1, <1>5 DEF Replay, FindsRow, RecordHasRow
<1>6. CASE operation = "invoice.approve"
  <2>1. id \in Invoices /\ invoices[id] # None /\ invoices[id].status \in {"APPROVED", "PAID"}
    BY <1>1, <1>6 DEF RecordHasRow
  <2>2. Replay(k) = ReplayApproval(id)
    BY <1>6 DEF Replay
  <2> QED
    BY <1>6, <2>1, <2>2, ApprovalReplays
<1>7. CASE operation = "invoice.pay"
  <2>1. id \in Invoices /\ invoices[id] # None /\ invoices[id].status = "PAID"
    BY <1>1, <1>7 DEF RecordHasRow
  <2>2. Replay(k) = ReplayPayment(id)
    BY <1>7 DEF Replay
  <2>3. invoices[id].paid_at # None
    BY <2>1 DEF Stamped
  <2>4. purchase_orders[invoices[id].purchase_order_id] # None
    BY <2>1, LinkedOrder
  <2> QED
    BY <2>1, <2>2, <2>3, <2>4 DEF ReplayPayment
<1> QED
  BY <1>2, <1>3, <1>4, <1>5, <1>6, <1>7

(* Whatever has happened since, a retry of a recorded request is answered  *)
(* with success, the approval of an invoice paid since excepted.           *)
THEOREM RetriesSucceed == Spec => []ReplayFailsOnlyOncePaid
<1>1. Init => RecordsHaveRows
  BY DEF Init, RecordsHaveRows, Recorded
<1>2. TypeOK /\ TypeOK' /\ InvoiceLinks /\ Stamped /\ RecordsHaveRows /\ [Next]_vars
        => RecordsHaveRows'
  BY RecordsHaveRowsStep
<1>3. Spec => []RecordsHaveRows
  BY <1>1, <1>2, TypeCorrect, OrdersAndInvoicesLinked, StampsTellStage, PTL DEF Spec
<1>4. TypeOK /\ InvoiceLinks /\ Stamped /\ PostedOnce /\ RecordsHaveRows
        => ReplayFailsOnlyOncePaid
  BY RecordedReplays DEF ReplayFailsOnlyOncePaid
<1> QED
  BY <1>3, <1>4, TypeCorrect, OrdersAndInvoicesLinked, StampsTellStage, LedgerPostedOnce, PTL

-----------------------------------------------------------------------------
(* Exposure and the checks it is promised                                  *)

(* The invoices of a vendor that count for its exposure are finitely many, *)
(* and amounts add up to an integer.                                       *)
LEMMA ExposureType ==
    ASSUME TypeOK, FinitelyManyRows, NEW v
    PROVE  /\ IsFiniteSet(Owed(invoices, v))
           /\ \A i \in Owed(invoices, v) :
                 /\ invoices[i] \in Invoice
                 /\ AmountsOf(invoices, Owed(invoices, v))[i] = invoices[i].invoice_amount
                 /\ AmountsOf(invoices, Owed(invoices, v))[i] \in Int
           /\ Exposure(invoices, v) \in Int
<1> DEFINE owed == Owed(invoices, v)
           amounts == AmountsOf(invoices, owed)
<1>1. IsFiniteSet(owed)
  BY FS_Subset DEF FinitelyManyRows, Owed
<1>2. \A i \in owed : /\ invoices[i] \in Invoice
                      /\ amounts[i] = invoices[i].invoice_amount
                      /\ amounts[i] \in Int
  BY AmountsAssumption DEF Owed, AmountsOf, TypeOK, Invoice
<1>3. Exposure(invoices, v) = SumOver(amounts, owed)
  BY ExposureSum
<1> HIDE DEF owed, amounts
<1>4. SumOver(amounts, owed) \in Int
  BY <1>1, <1>2, SumIsInt
<1> QED
  BY <1>1, <1>2, <1>3, <1>4 DEF owed, amounts

(* Taking an invoice a stage further never raises an exposure: payment     *)
(* takes its amount out.  Amounts must not be negative for that.           *)
LEMMA StagesLowerExposure ==
    ASSUME Amounts \subseteq Nat, TypeOK, FinitelyManyRows, NEW i \in Invoices, NEW new \in Invoice,
           invoices' = [invoices EXCEPT ![i] = new], SameInvoice(invoices[i], new),
           invoices[i].status # "PAID", NEW v
    PROVE  /\ Exposure(invoices', v) \in Int
           /\ Exposure(invoices', v) <= Exposure(invoices, v)
<1> DEFINE owed == Owed(invoices, v)
           left == Owed(invoices', v)
           amounts == AmountsOf(invoices, owed)
           amountsLeft == AmountsOf(invoices', left)
<1>1. /\ invoices'[i] = new /\ new # None
      /\ invoices[i] \in Invoice /\ invoices[i] # None
      /\ \A j \in Invoices : j # i => invoices'[j] = invoices[j]
  BY NoneAssumption DEF TypeOK, SameInvoice
<1>2. \A j \in Invoices : j # i => (j \in left <=> j \in owed)
  BY <1>1 DEF Owed
<1>3. i \in left => i \in owed
  BY <1>1 DEF Owed, SameInvoice, Invoice, InvoiceStatuses, UnpaidStatuses
<1>4. left = owed \/ (i \in owed /\ left = owed \ {i})
  <2>1. left \subseteq Invoices /\ owed \subseteq Invoices
    BY DEF Owed
  <2> HIDE DEF left, owed
  <2> QED
    BY <1>2, <1>3, <2>1
<1>5. \A j \in left : amountsLeft[j] = invoices[j].invoice_amount
  BY <1>1 DEF AmountsOf, SameInvoice, Owed
<1>6. /\ IsFiniteSet(owed)
      /\ \A j \in owed : /\ invoices[j] \in Invoice
                         /\ amounts[j] = invoices[j].invoice_amount /\ amounts[j] \in Int
      /\ Exposure(invoices, v) = SumOver(amounts, owed)
  BY ExposureType, ExposureSum
<1>7. Exposure(invoices', v) = SumOver(amountsLeft, left)
  BY ExposureSum
<1> HIDE DEF owed, left, amounts, amountsLeft
<1>8. IsFiniteSet(left) /\ \A j \in left : amountsLeft[j] = amounts[j] /\ amounts[j] \in Int
  BY <1>4, <1>5, <1>6, FS_Subset
<1>9. SumOver(amountsLeft, left) = SumOver(amounts, left) /\ SumOver(amounts, left) \in Int
  BY <1>8, SumSame, SumIsInt
<1>10. SumOver(amounts, left) <= SumOver(amounts, owed)
  <2>1. CASE left = owed
    BY <1>9, <2>1
  <2>2. CASE i \in owed /\ left = owed \ {i}
    <3>1. SumOver(amounts, owed) = amounts[i] + SumOver(amounts, left)
      BY <1>6, <2>2, SumTakes
    <3>2. amounts[i] \in Nat
      BY <1>6, <2>2 DEF Invoice
    <3> QED
      BY <1>9, <3>1, <3>2
  <2> QED
    BY <1>4, <2>1, <2>2
<1> QED
  BY <1>6, <1>7, <1>9, <1>10

(* The exposure of a vendor is not touched by an invoice of another.       *)
LEMMA OtherVendorsExposure ==
    ASSUME TypeOK, NEW i \in Invoices, NEW new \in Invoice, invoices[i] = None,
           invoices' = [invoices EXCEPT ![i] = new], NEW v, new.vendor_id # v
    PROVE  Exposure(invoices', v) = Exposure(invoices, v)
<1>1. invoices'[i] = new /\ \A j \in Invoices : j # i => invoices'[j] = invoices[j]
  BY DEF TypeOK
<1>2. Owed(invoices', v) = Owed(invoices, v)
  BY <1>1 DEF Owed
<1>3. AmountsOf(invoices', Owed(invoices, v)) = AmountsOf(invoices, Owed(invoices, v))
  <2>1. \A j \in Owed(invoices, v) : invoices'[j] = invoices[j]
    BY <1>1 DEF Owed
  <2> QED
    BY <2>1 DEF AmountsOf
<1> QED
  BY <1>2, <1>3, ExposureSum

(* A request that takes a vendor above its limit leaves a check for it.    *)
LEMMA BreachStartsCheck ==
    ASSUME Amounts \subseteq Nat, TypeOK, FinitelyManyRows, NEW k \in Keys,
           OrderStep(k) \/ InvoiceStep(k), NEW v \in Vendors,
           Exposure(invoices', v) > CreditLimit[v]
    PROVE  \/ Exposure(invoices, v) > CreditLimit[v]
           \/ /\ credit_checks'[k] # None
              /\ credit_checks'[k].vendor_id = v
              /\ credit_checks'[k].status = "PENDING"
<1> DEFINE Breached == Exposure(invoices, v) > CreditLimit[v]
<1>1. CreditLimit[v] \in Int /\ Exposure(invoices, v) \in Int
  BY CreditLimitAssumption, ExposureType
<1>2. UNCHANGED invoices => Breached
  BY DEF Exposure
<1>3. ASSUME NEW i \in Invoices, NEW new \in Invoice, invoices' = [invoices EXCEPT ![i] = new],
             SameInvoice(invoices[i], new), invoices[i].status # "PAID"
      PROVE  Breached
  <2>1. /\ Exposure(invoices', v) \in Int
        /\ Exposure(invoices', v) <= Exposure(invoices, v)
    BY <1>3, StagesLowerExposure
  <2> QED
    BY <1>1, <2>1
<1> HIDE DEF Breached
<1>4. ASSUME NEW p \in PurchaseOrders,
             \/ \E u \in VendorIds, order \in Orders : CreatePurchaseOrder(k, u, order, p)
             \/ SubmitPurchaseOrder(k, p)
             \/ \E delivery \in Deliveries : ReceiveGoods(k, p, delivery)
      PROVE  UNCHANGED invoices
  BY <1>4 DEF CreatePurchaseOrder, SubmitPurchaseOrder, ReceiveGoods
<1>5. ASSUME NEW i \in Invoices, NEW u \in VendorIds, NEW p \in PurchaseOrders,
             NEW number \in InvoiceNumbers, NEW amount \in Amounts, NEW channel \in Channels,
             CreateInvoice(k, u, p, number, amount, i, channel)
      PROVE  \/ Breached
             \/ /\ credit_checks'[k] # None
                /\ credit_checks'[k].vendor_id = v
                /\ credit_checks'[k].status = "PENDING"
  <2> DEFINE new == PendingInvoice(u, p, number, amount)
             check == [vendor_id |-> u, triggering_invoice_id |-> i, triggering_action |-> "CREATE",
                       status |-> "PENDING", alert_id |-> None]
  <2>1. u \in Vendors
    BY <1>5 DEF CreateInvoice, InvoiceRefusal
  <2>2. /\ new \in Invoice /\ new.vendor_id = u /\ invoices[i] = None
        /\ invoices' = [invoices EXCEPT ![i] = new]
    BY <1>5, <2>1, InvoiceRulesReturnRows DEF CreateInvoice, PendingInvoice
  <2>3. credit_checks'[k] = check
    BY <1>5 DEF CreateInvoice, StartCreditCheck, TypeOK
  <2>4. check # None
    BY <2>1, NoneIsNoRow DEF CreditCheck
  <2> HIDE DEF new
  <2>5. CASE u = v
    BY <2>3, <2>4, <2>5
  <2>6. CASE u # v
    BY <2>2, <2>6, OtherVendorsExposure DEF Breached
  <2> QED
    BY <2>5, <2>6
<1>6. ASSUME NEW i \in Invoices,
             \/ MatchInvoice(k, i)
             \/ \E channel \in Channels : ApproveInvoice(k, i, channel)
             \/ PayInvoice(k, i)
      PROVE  Breached
  <2>1. PICK new \in Invoice : /\ invoices' = [invoices EXCEPT ![i] = new]
                               /\ \/ IsMatched(invoices[i], new)
                                  \/ IsApproved(k, i, invoices[i], new)
                                  \/ IsPaid(k, invoices[i], new)
    BY <1>6, MatchMove, ApproveMove, PayMove
  <2>2. SameInvoice(invoices[i], new) /\ invoices[i].status # "PAID"
    BY <2>1 DEF IsMatched, IsApproved, IsPaid
  <2> QED
    BY <1>3, <2>1, <2>2
<1> QED
  BY <1>2, <1>4, <1>5, <1>6 DEF OrderStep, InvoiceStep, Breached

(* Requests, dispatches, failures and restarts all keep it: whoever is     *)
(* above the limit has an alert or a check still to come.                  *)
LEMMA NoSilentBreachStep ==
    ASSUME Amounts \subseteq Nat, TypeOK, TasksHaveChecks, ChecksHaveRequests, FinitelyManyRows,
           NoSilentBreach, [Next]_vars
    PROVE  NoSilentBreach'
<1> SUFFICES ASSUME NEW v \in Vendors, Exposure(invoices', v) > CreditLimit[v]
             PROVE  \/ credit_alerts'[v] # None
                    \/ \E k \in Keys : /\ credit_checks'[k] # None
                                       /\ credit_checks'[k].vendor_id = v
                                       /\ credit_checks'[k].status = "PENDING"
  BY DEF NoSilentBreach
<1> DEFINE Waiting(j) == /\ credit_checks[j] # None
                         /\ credit_checks[j].vendor_id = v
                         /\ credit_checks[j].status = "PENDING"
<1>1. Exposure(invoices, v) > CreditLimit[v] =>
         credit_alerts[v] # None \/ \E j \in Keys : Waiting(j)
  BY DEF NoSilentBreach
<1>2. UNCHANGED invoices => Exposure(invoices, v) > CreditLimit[v]
  BY DEF Exposure
<1>3. ASSUME NEW k \in Keys, OrderStep(k) \/ InvoiceStep(k)
      PROVE  credit_alerts'[v] # None \/ \E j \in Keys : Waiting(j)'
  <2>1. UNCHANGED credit_alerts /\ credit_checks[k] = None
    BY <1>3, RequestStartsOwnCheck DEF ChecksHaveRequests
  <2>2. \A j \in Keys \ {k} : credit_checks'[j] = credit_checks[j]
    BY <1>3, RequestStartsOwnCheck DEF StartCreditCheck, TypeOK
  <2>3. \A j \in Keys : Waiting(j) => Waiting(j)'
    BY <2>1, <2>2
  <2>4. Exposure(invoices, v) > CreditLimit[v] \/ Waiting(k)'
    BY <1>3, BreachStartsCheck
  <2> HIDE DEF Waiting
  <2> QED
    BY <1>1, <2>1, <2>3, <2>4
<1>4. ASSUME NEW k \in Keys, DispatchCreditCheck(k)
      PROVE  credit_alerts'[v] # None \/ \E j \in Keys : Waiting(j)'
  <2>1. /\ UNCHANGED invoices
        /\ credit_checks[k] \in CreditCheck
    BY <1>4 DEF DispatchCreditCheck, documents, TypeOK, TasksHaveChecks
  <2>2. CASE UNCHANGED <<credit_checks, credit_alerts>>
    BY <1>1, <1>2, <2>1, <2>2
  <2>3. CASE RunCreditCheck(k)
    <3> DEFINE u == credit_checks[k].vendor_id
               alert == [credit_check_id |-> k,
                         triggering_invoice_id |-> credit_checks[k].triggering_invoice_id]
    <3>1. alert # None
      BY <2>1, NoneIsNoRow DEF CreditCheck, CreditAlert
    <3>2. u \in Vendors
      BY <2>1 DEF CreditCheck
    <3>3. CASE u = v
      <4>1. credit_alerts'[v] = alert
        BY <1>2, <2>1, <2>3, <3>3 DEF RunCreditCheck, TypeOK
      <4> QED
        BY <3>1, <4>1
    <3>4. CASE u # v
      <4>1. credit_alerts'[v] = credit_alerts[v]
        BY <2>3, <3>4 DEF RunCreditCheck, TypeOK
      <4>2. \A j \in Keys : Waiting(j) => Waiting(j)'
        BY <2>3, <3>4 DEF RunCreditCheck, TypeOK
      <4> HIDE DEF Waiting
      <4> QED
        BY <1>1, <1>2, <2>1, <4>1, <4>2
    <3> QED
      BY <3>3, <3>4
  <2> QED
    BY <1>4, <2>2, <2>3 DEF DispatchCreditCheck
<1>5. ASSUME UNCHANGED <<invoices, credit_checks, credit_alerts>>
      PROVE  credit_alerts'[v] # None \/ \E j \in Keys : Waiting(j)'
  BY <1>1, <1>2, <1>5
<1>6. ASSUME NEW k \in Keys, CreditCheckFails(k) PROVE UNCHANGED <<invoices, credit_checks, credit_alerts>>
  BY <1>6 DEF CreditCheckFails, documents
<1>7. Restart \/ UNCHANGED vars => UNCHANGED <<invoices, credit_checks, credit_alerts>>
  BY DEF Restart, vars, documents, credit
<1>8. credit_alerts'[v] # None \/ \E j \in Keys : Waiting(j)'
  BY <1>3, <1>4, <1>5, <1>6, <1>7 DEF Next
<1> QED
  BY <1>8

(* Without amounts below zero, which the HTTP schema refuses, and with     *)
(* dispatches that nothing interleaves, no vendor is above its limit       *)
(* unseen: an alert says so, or a check is PENDING.                        *)
THEOREM NoBreachIsSilent ==
    ASSUME Amounts \subseteq Nat
    PROVE  Spec => []NoSilentBreach
<1>1. Init => ChecksHaveRequests /\ NoSilentBreach
  <2> SUFFICES ASSUME Init PROVE ChecksHaveRequests /\ NoSilentBreach
    OBVIOUS
  <2>1. ChecksHaveRequests
    BY DEF Init, ChecksHaveRequests
  <2>2. ASSUME NEW v \in Vendors PROVE ~(Exposure(invoices, v) > CreditLimit[v])
    <3>1. Owed(invoices, v) = {}
      BY DEF Owed, Init
    <3>2. Exposure(invoices, v) = 0
      BY <3>1, ExposureSum, SumEmpty
    <3> QED
      BY <3>2, CreditLimitAssumption
  <2> QED
    BY <2>1, <2>2 DEF NoSilentBreach
<1>2. TypeOK /\ TasksHaveChecks /\ FinitelyManyRows /\ ChecksHaveRequests /\ NoSilentBreach
        /\ [Next]_vars => ChecksHaveRequests' /\ NoSilentBreach'
  BY ChecksHaveRequestsStep, NoSilentBreachStep
<1> QED
  BY <1>1, <1>2, TypeCorrect, TablesAreFinite, PTL DEF Spec

-----------------------------------------------------------------------------
(* What a vendor has billed, paid or not                                   *)

OfVendor(rows, v) == {i \in Invoices : rows[i] # None /\ rows[i].vendor_id = v}
BilledInAll(rows, v) == SumOver(AmountsOf(rows, OfVendor(rows, v)), OfVendor(rows, v))

(* The invoices of a vendor are finitely many, and their amounts add up.   *)
LEMMA BilledType ==
    ASSUME TypeOK, FinitelyManyRows, NEW v
    PROVE  /\ IsFiniteSet(OfVendor(invoices, v))
           /\ \A i \in OfVendor(invoices, v) : invoices[i] \in Invoice
           /\ \A i \in OfVendor(invoices, v) : invoices[i].invoice_amount \in Int
           /\ BilledInAll(invoices, v) \in Int
<1> DEFINE rows == OfVendor(invoices, v)
           amounts == AmountsOf(invoices, rows)
<1>1. IsFiniteSet(rows)
  BY FS_Subset DEF FinitelyManyRows, OfVendor
<1>2. \A i \in rows : invoices[i] \in Invoice /\ invoices[i].invoice_amount \in Int
  BY AmountsAssumption DEF OfVendor, TypeOK, Invoice
<1>3. \A i \in rows : amounts[i] \in Int
  BY <1>2 DEF AmountsOf
<1>4. BilledInAll(invoices, v) = SumOver(amounts, rows)
  BY DEF BilledInAll
<1> HIDE DEF rows, amounts
<1>5. SumOver(amounts, rows) \in Int
  BY <1>1, <1>3, SumIsInt
<1> QED
  BY <1>1, <1>2, <1>4, <1>5 DEF rows

(* What is billed is what is owed and what was paid, ...                   *)
LEMMA BilledIsOwedOrPaid ==
    ASSUME TypeOK, FinitelyManyRows, NEW v
    PROVE  LET paid == {i \in Invoices : /\ invoices[i] # None
                                         /\ invoices[i].vendor_id = v
                                         /\ invoices[i].status = "PAID"}
           IN  Exposure(invoices, v) + MapThenSumSet(LAMBDA i : invoices[i].invoice_amount, paid)
                 = BilledInAll(invoices, v)
<1> DEFINE paid == {i \in Invoices : /\ invoices[i] # None
                                     /\ invoices[i].vendor_id = v
                                     /\ invoices[i].status = "PAID"}
           owed == Owed(invoices, v)
           rows == OfVendor(invoices, v)
           amounts == AmountsOf(invoices, rows)
           amountsOwed == AmountsOf(invoices, owed)
           amountsPaid == AmountsOf(invoices, paid)
<1>1. IsFiniteSet(rows) /\ \A i \in rows : invoices[i] \in Invoice /\ amounts[i] \in Int
  BY BilledType DEF AmountsOf
<1>2. owed \cap paid = {} /\ owed \cup paid = rows
  BY <1>1 DEF Owed, OfVendor, UnpaidStatuses, Invoice, InvoiceStatuses
<1>3. /\ \A i \in owed : amountsOwed[i] = amounts[i]
      /\ \A i \in paid : amountsPaid[i] = amounts[i]
  BY <1>2 DEF AmountsOf
<1>4. Exposure(invoices, v) = SumOver(amountsOwed, owed)
  BY ExposureSum
<1>5. MapThenSumSet(LAMBDA i : invoices[i].invoice_amount, paid) = SumOver(amountsPaid, paid)
  BY AmountsSum
<1>6. BilledInAll(invoices, v) = SumOver(amounts, rows)
  BY DEF BilledInAll
<1> HIDE DEF paid, owed, rows, amounts, amountsOwed, amountsPaid
<1>7. IsFiniteSet(owed) /\ IsFiniteSet(paid)
  BY <1>1, <1>2, FS_Subset
<1>8. SumOver(amountsOwed, owed) = SumOver(amounts, owed)
  BY <1>3, <1>7, SumSame
<1>9. SumOver(amountsPaid, paid) = SumOver(amounts, paid)
  BY <1>3, <1>7, SumSame
<1>10. SumOver(amounts, rows) = SumOver(amounts, owed) + SumOver(amounts, paid)
  BY <1>1, <1>2, <1>7, SumOfParts
<1>11. Exposure(invoices, v) + SumOver(amountsPaid, paid) = BilledInAll(invoices, v)
  BY <1>4, <1>6, <1>8, <1>9, <1>10
<1> QED
  BY <1>5, <1>11 DEF paid

(* ... so without negative amounts the exposure is within it.              *)
LEMMA ExposureWithinBilled ==
    ASSUME Amounts \subseteq Nat, TypeOK, FinitelyManyRows, NEW v
    PROVE  Exposure(invoices, v) <= BilledInAll(invoices, v)
<1> DEFINE owed == Owed(invoices, v)
           rows == OfVendor(invoices, v)
           amounts == AmountsOf(invoices, rows)
           amountsOwed == AmountsOf(invoices, owed)
<1>1. IsFiniteSet(rows) /\ \A i \in rows : amounts[i] \in Nat
  BY BilledType DEF AmountsOf, Invoice
<1>2. owed \subseteq rows
  BY DEF Owed, OfVendor
<1>3. \A i \in owed : amountsOwed[i] = amounts[i]
  BY <1>2 DEF AmountsOf
<1>4. /\ Exposure(invoices, v) = SumOver(amountsOwed, owed)
      /\ BilledInAll(invoices, v) = SumOver(amounts, rows)
  BY ExposureSum DEF BilledInAll
<1> HIDE DEF owed, rows, amounts, amountsOwed
<1>5. IsFiniteSet(owed)
  BY <1>1, <1>2, FS_Subset
<1>6. SumOver(amountsOwed, owed) = SumOver(amounts, owed)
  BY <1>3, <1>5, SumSame
<1>7. SumOver(amounts, owed) <= SumOver(amounts, rows)
  BY <1>1, <1>2, SumOfPart
<1> QED
  BY <1>4, <1>6, <1>7

(* Invoices are added and never taken away: what is billed never shrinks.  *)
LEMMA BilledGrows ==
    ASSUME Amounts \subseteq Nat, TypeOK, TypeOK', FinitelyManyRows, FinitelyManyRows', [Next]_vars,
           NEW v
    PROVE  /\ BilledInAll(invoices, v) \in Int
           /\ BilledInAll(invoices', v) \in Int
           /\ BilledInAll(invoices, v) <= BilledInAll(invoices', v)
<1> DEFINE rows == OfVendor(invoices, v)
           more == OfVendor(invoices', v)
           amounts == AmountsOf(invoices, rows)
           amountsMore == AmountsOf(invoices', more)
<1>1. \A i \in Invoices : invoices[i] # None =>
          \/ invoices'[i] = invoices[i]
          \/ SameInvoice(invoices[i], invoices'[i])
  BY InvoiceMoves DEF TypeOK, IsCreated, IsMatched, IsApproved, IsPaid
<1>2. rows \subseteq more
  BY <1>1 DEF OfVendor, SameInvoice
<1>3. \A i \in rows : amounts[i] = amountsMore[i]
  BY <1>1, <1>2 DEF OfVendor, SameInvoice, AmountsOf
<1>4. IsFiniteSet(more)
  BY FS_Subset DEF FinitelyManyRows, OfVendor
<1>5. \A i \in more : amountsMore[i] \in Nat
  BY DEF OfVendor, AmountsOf, TypeOK, Invoice
<1>6. /\ BilledInAll(invoices, v) = SumOver(amounts, rows)
      /\ BilledInAll(invoices', v) = SumOver(amountsMore, more)
  BY DEF BilledInAll
<1> HIDE DEF rows, more, amounts, amountsMore
<1>7. IsFiniteSet(rows)
  BY <1>2, <1>4, FS_Subset
<1>8. SumOver(amounts, rows) = SumOver(amountsMore, rows)
  BY <1>3, <1>7, SumSame
<1>9. SumOver(amountsMore, rows) <= SumOver(amountsMore, more)
  BY <1>2, <1>4, <1>5, SumOfPart
<1>10. SumOver(amountsMore, rows) \in Int /\ SumOver(amountsMore, more) \in Int
  BY <1>2, <1>4, <1>5, <1>7, SumIsInt
<1> QED
  BY <1>6, <1>8, <1>9, <1>10
=============================================================================
