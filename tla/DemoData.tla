----------------------------- MODULE DemoData -----------------------------
(***************************************************************************)
(* The rows that seed_initial_data inserts into an empty database at       *)
(* start-up, as a state of P2P.  No sequence of requests leads to them:    *)
(* the orders have no keys, no request is recorded, the invoices that are  *)
(* APPROVED or PAID have no entries in the ledger and no time stamp of     *)
(* their approval or payment, and none has a credit check.                 *)
(***************************************************************************)
EXTENDS P2P

DemoVendors == {"V-100", "V-200", "V-300"}
DemoActiveVendors == {"V-100", "V-200"}

DemoCreditLimit ==
    [v \in {"V-100", "V-200", "V-300"} |->
        CASE v = "V-100" -> 200000
          [] v = "V-200" -> 500000
          [] v = "V-300" -> 100000]

(* The instant of seeding; as everywhere, a key stands for a time stamp. *)
SeededAt == "seed-loader"

(* Each demo order has one line. *)
FirstLine == 1
OnFirstLine(n) == [l \in Lines |-> IF l = FirstLine THEN n ELSE 0]

DemoOrder(v, status, ordered, received, cost, i) ==
    [vendor_id |-> v, status |-> status,
     qty_ordered |-> OnFirstLine(ordered), qty_received |-> OnFirstLine(received),
     unit_cost |-> OnFirstLine(cost), create_idempotency_key |-> None,
     submit_idempotency_key |-> None, invoice_id |-> i]

DemoPurchaseOrders ==
    [p \in {"PO-200", "PO-1001", "PO-1002", "PO-1003", "PO-2001"} |->
        CASE p = "PO-200"  -> DemoOrder("V-100", "SUBMITTED", 100, 60, 1000, None)
          [] p = "PO-1001" -> DemoOrder("V-100", "SUBMITTED", 1, 0, 125000, "INV-1001")
          [] p = "PO-1002" -> DemoOrder("V-100", "RECEIVED", 1, 1, 50000, "INV-1002")
          [] p = "PO-1003" -> DemoOrder("V-100", "CLOSED", 1, 1, 9999, "INV-1003")
          [] p = "PO-2001" -> DemoOrder("V-300", "RECEIVED", 1, 1, 30000, "INV-2001")]

DemoReceipt(p, n) == [po_id |-> p, line_items |-> OnFirstLine(n)]

DemoReceipts ==
    [k \in {"seed-gr-200-01", "seed-gr-1002-01", "seed-gr-1003-01", "seed-gr-2001-01"} |->
        CASE k = "seed-gr-200-01"  -> DemoReceipt("PO-200", 60)
          [] k = "seed-gr-1002-01" -> DemoReceipt("PO-1002", 1)
          [] k = "seed-gr-1003-01" -> DemoReceipt("PO-1003", 1)
          [] k = "seed-gr-2001-01" -> DemoReceipt("PO-2001", 1)]

DemoInvoice(v, p, number, amount, status, outcome, matched_at) ==
    [vendor_id |-> v, purchase_order_id |-> p, invoice_number |-> number,
     invoice_amount |-> amount, status |-> status, last_match_outcome |-> outcome,
     matched_at |-> matched_at, approved_at |-> None, paid_at |-> None]

DemoInvoices ==
    [i \in {"INV-1001", "INV-1002", "INV-1003", "INV-2001"} |->
        CASE i = "INV-1001" -> DemoInvoice("V-100", "PO-1001", "A1001", 125000, "PENDING", "NONE", None)
          [] i = "INV-1002" -> DemoInvoice("V-100", "PO-1002", "A1002", 50000, "APPROVED", "MATCHED", SeededAt)
          [] i = "INV-1003" -> DemoInvoice("V-100", "PO-1003", "A1003", 9999, "PAID", "MATCHED", SeededAt)
          [] i = "INV-2001" -> DemoInvoice("V-300", "PO-2001", "D2001", 30000, "MATCHED", "MATCHED", SeededAt)]

DemoKeys == DOMAIN DemoReceipts \cup {SeededAt}

ASSUME DemoFits ==
    /\ Vendors = DemoVendors /\ ActiveVendors = DemoActiveVendors
    /\ CreditLimit = DemoCreditLimit
    /\ FirstLine \in Lines
    /\ DOMAIN DemoPurchaseOrders \subseteq PurchaseOrders
    /\ DOMAIN DemoInvoices \subseteq Invoices
    /\ {DemoInvoices[i].invoice_number : i \in DOMAIN DemoInvoices} \subseteq InvoiceNumbers
    /\ {DemoInvoices[i].invoice_amount : i \in DOMAIN DemoInvoices} \subseteq Amounts
    /\ DemoKeys \subseteq Keys

Rows(table, ids) == [id \in ids |-> IF id \in DOMAIN table THEN table[id] ELSE None]

DemoInit ==
    /\ purchase_orders = Rows(DemoPurchaseOrders, PurchaseOrders)
    /\ invoices = Rows(DemoInvoices, Invoices)
    /\ goods_receipts = Rows(DemoReceipts, Keys)
    /\ invoice_match_snapshots = [k \in Keys |-> None]
    /\ gl_entries = {}
    /\ idempotency_keys = [k \in Keys |-> None]
    /\ credit_checks = [k \in Keys |-> None]
    /\ credit_alerts = [v \in Vendors |-> None]
    /\ background_tasks = {}
=============================================================================
