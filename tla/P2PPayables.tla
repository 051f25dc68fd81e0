---------------------------- MODULE P2PPayables ----------------------------
(***************************************************************************)
(* The service implements Payables: the refinement mapping from its rows.  *)
(* A draft is an order for which no goods are asked; a blocked match, a    *)
(* repeated one, a background credit check and every request that is       *)
(* refused or replayed are steps that the department does not see.         *)
(***************************************************************************)
EXTENDS P2P

GoodsAt(status) ==
    CASE status = "DRAFT" -> "NONE"
      [] status = "SUBMITTED" -> "AWAITED"
      [] status = "RECEIVED" -> "DELIVERED"
      [] status = "CLOSED" -> "CLOSED"

StageAt(status) ==
    CASE status = "PENDING" -> "OPEN"
      [] status = "MATCHED" -> "COVERED"
      [] status = "APPROVED" -> "OWED"
      [] status = "PAID" -> "SETTLED"

GoodsOf(po) == IF po = None THEN "NONE" ELSE GoodsAt(po.status)

WorthOf(po) == IF GoodsOf(po) = "NONE" THEN 0 ELSE ReceivedValue(po)

Billed(po) == po # None /\ po.invoice_id # None

BillOf(po) ==
    IF Billed(po)
    THEN [amount |-> invoices[po.invoice_id].invoice_amount,
          stage |-> StageAt(invoices[po.invoice_id].status)]
    ELSE [amount |-> 0, stage |-> "NONE"]

EntryOf(e) ==
    [posting |-> e.posting, account |-> e.account_code, debit |-> e.debit, credit |-> e.credit]

LedgerOf(po) ==
    IF Billed(po) THEN {EntryOf(e) : e \in PostedFor(po.invoice_id)} ELSE {}

Goods == [p \in PurchaseOrders |-> GoodsOf(purchase_orders[p])]
Worth == [p \in PurchaseOrders |-> WorthOf(purchase_orders[p])]
Bill == [p \in PurchaseOrders |-> BillOf(purchase_orders[p])]
Ledger == [p \in PurchaseOrders |-> LedgerOf(purchase_orders[p])]

AP == INSTANCE Payables WITH
    Postings <- Keys, goods <- Goods, worth <- Worth, bill <- Bill, ledger <- Ledger

(* Every step of the service is, for the department, one step of one order *)
(* that Payables allows, or none: no sequence of requests and retries      *)
(* bills an order twice, makes an amount owed that the goods did not       *)
(* cover, enters it twice or without its counterpart, or settles an order  *)
(* whose goods are still awaited.                                          *)
ImplementsPayables == AP!Spec
=============================================================================
